----------------------------- MODULE Users_proofs -----------------------------
(***************************************************************************)
(* Proofs about what belongs to a user, tokens and subscriptions, and      *)
(* about what a user pays, for every set of calls and of records.          *)
(***************************************************************************)
EXTENDS Accounts, Pricing, Calls_proofs

-------------------------------------------------------------------------------
(***************************************************************************)
(* Accounts. A refresh token is exchanged by a write that holds the row as *)
(* it was not yet revoked.                                                 *)
(***************************************************************************)

\* Writes of the user and of codes.
UserCreating == {Insert(User, r) : r \in UserRow}
UserVerifying == {Overwrite(User, [verified |-> TRUE])}
CodeSending == {Insert(o, r) : o \in Code, r \in CodeRow}
CodeUsing == {Write(o, old, [verified |-> TRUE], NoField) : o \in Code, old \in CodeRow}

PlainWrites == UserCreating \cup UserVerifying \cup CodeSending \cup CodeUsing

\* A token that was not revoked when the call read it is, and another one is made in its place.
Revoking(t, old) == Write(t, old, [revoked |-> TRUE], NoField)
Issue(k, t) == Both(Insert(k, [revoked |-> FALSE, for |-> t]), Exists(User))

Unrevoked == {r \in TokenRow : ~r.revoked}

\* What a call can have to do.
PlainTodos ==
  {<<q>> : q \in PlainWrites} \cup {<<q, r>> : q \in PlainWrites, r \in PlainWrites \cup {GenerateTokens(None)}}
Refreshing == {<<Revoking(t, old), GenerateTokens(t)>> : t \in Token, old \in Unrevoked}
Signing == {<<GenerateTokens(t)>> : t \in Token \cup {None}}
Issuing == {<<Issue(k, t)>> : k \in Token, t \in Token \cup {None}}

AccountsTodos == {<<>>} \cup PlainTodos \cup Refreshing \cup Signing \cup Issuing

\* The call has revoked t, and is going to give another token for it.
Claims(c, t) == todo[c] = <<GenerateTokens(t)>> \/ \E k \in Token : todo[c] = <<Issue(k, t)>>

\* A token that something was given for, or is going to be, is there.
ClaimedInv ==
  \A t \in Token :
    (\E c \in Call : Claims(c, t)) \/ (\E s \in Rows(Token) : row[s].for = t) => row[t] # None

\* One token is given for another, or is going to be, by one call, after it was revoked.
OnceFor(t) ==
  /\ \A s, k \in Rows(Token) : row[s].for = t /\ row[k].for = t => s = k
  /\ \A c, d \in Call : Claims(c, t) /\ Claims(d, t) => c = d
  /\ \A c \in Call, s \in Rows(Token) : ~(Claims(c, t) /\ row[s].for = t)
  /\ (\E c \in Call : Claims(c, t)) \/ (\E s \in Rows(Token) : row[s].for = t) => row[t].revoked

AccountsInv ==
  /\ DOMAIN row = Id /\ AccountsRows(row)
  /\ todo \in [Call -> AccountsTodos]
  /\ ClaimedInv
  /\ \A t \in Token \ raced : OnceFor(t)

-------------------------------------------------------------------------------
LEMMA PairIsNotOne ==
  ASSUME NEW a, NEW b, NEW x
  PROVE  <<a, b>> # <<x>> /\ <<a, b>> # <<>> /\ <<x>> # <<>>
         /\ Head(<<a, b>>) = a /\ Tail(<<a, b>>) = <<b>> /\ Head(<<x>>) = x /\ Tail(<<x>>) = <<>>
  <1>1. Len(<<a, b>>) = 2 /\ Len(<<x>>) = 1 /\ Len(<<>>) = 0
    OBVIOUS
  <1>2. Head(<<a, b>>) = a /\ Tail(<<a, b>>) = <<b>>
    OBVIOUS
  <1>3. Head(<<x>>) = x /\ Tail(<<x>>) = <<>>
    OBVIOUS
  <1>4. QED
    BY <1>1, <1>2, <1>3

LEMMA OnesAreEqual ==
  ASSUME NEW a, NEW b, <<a>> = <<b>>
  PROVE  a = b
  <1>1. <<a>>[1] = a /\ <<b>>[1] = b
    OBVIOUS
  <1>2. QED
    BY <1>1

LEMMA IssueParts ==
  ASSUME NEW k \in Token, NEW t, NEW q, q = Issue(k, t)
  PROVE  /\ q.do = "write" /\ DOMAIN q.on = {k, User}
         /\ q.on[k] = [saw |-> None, put |-> [revoked |-> FALSE, for |-> t], inc |-> NoField]
         /\ q.on[User] = [saw |-> Unseen, put |-> NoField, inc |-> NoField]
         /\ Inserting(<<q>>) = {k}
  <1> DEFINE r == [revoked |-> FALSE, for |-> t]
             first == Insert(k, r)
  <1>1. DOMAIN first.on = {k} /\ first.on[k] = [saw |-> None, put |-> r, inc |-> NoField]
    BY DEF Insert, Write
  <1>2. q = Both(first, Write(User, Unseen, NoField, NoField)) /\ User \notin DOMAIN first.on
    BY <1>1, AccountsAssumption DEF Issue, Exists, Add
  <1> HIDE DEF r
  <1>3. /\ q.do = "write" /\ DOMAIN q.on = {k, User}
        /\ q.on[k] = [saw |-> None, put |-> r, inc |-> NoField]
        /\ q.on[User] = [saw |-> Unseen, put |-> NoField, inc |-> NoField]
    BY <1>1, <1>2, BothParts
  <1>4. Inserting(<<q>>) = {i \in Id : q.do = "write" /\ i \in DOMAIN q.on /\ q.on[i].saw = None}
    BY InsertingOf
  <1>5. Inserting(<<q>>) = {k}
    BY <1>3, <1>4, UnseenAssumption, AccountsAssumption
  <1>6. QED
    BY <1>3, <1>5 DEF r

LEMMA IssueWrites ==
  ASSUME NEW k, NEW t
  PROVE  Issue(k, t).do = "write"
  BY DEF Issue, Both

LEMMA IssueDomain ==
  ASSUME NEW k \in Token, NEW t
  PROVE  Issue(k, t).do = "write" /\ DOMAIN Issue(k, t).on = {k, User}
  <1> DEFINE q == Issue(k, t)
  <1>1. q = Issue(k, t)
    OBVIOUS
  <1> HIDE DEF q
  <1>2. q.do = "write"
    BY <1>1, IssueWrites
  <1>3. DOMAIN q.on = {k, User}
    BY <1>1, IssueParts
  <1>4. QED
    BY <1>1, <1>2, <1>3

\* What verifies an address is a value that a code takes.
LEMMA Verified == [verified |-> TRUE] \in CodeRow /\ [verified |-> TRUE] # None
  <1>1. [verified |-> TRUE] \in CodeRow
    BY DEF CodeRow
  <1>2. QED
    BY <1>1, AccountsAssumption

LEMMA PlainParts ==
  ASSUME NEW q \in PlainWrites
  PROVE  \E i \in {User} \cup Code :
           /\ q.do = "write" /\ DOMAIN q.on = {i} /\ q.on[i].inc = NoField
           /\ i = User => q.on[i].put \in UserRow \/ (q.on[i].put = [verified |-> TRUE] /\ q.on[i].saw = Unseen)
           /\ i \in Code => q.on[i].put \in CodeRow
  <1>1. CASE q \in UserCreating
    <2>1. PICK r \in UserRow : q = Insert(User, r)
      BY <1>1 DEF UserCreating
    <2>2. q.do = "write" /\ DOMAIN q.on = {User} /\ q.on[User].inc = NoField /\ q.on[User].put = r
      BY <2>1, WriteParts DEF Insert
    <2>3. QED
      BY <2>2, AccountsAssumption
  <1>2. CASE q \in UserVerifying
    <2>1. q = Write(User, Unseen, [verified |-> TRUE], NoField)
      BY <1>2 DEF UserVerifying, Overwrite
    <2>2. /\ q.do = "write" /\ DOMAIN q.on = {User} /\ q.on[User].inc = NoField
          /\ q.on[User].put = [verified |-> TRUE] /\ q.on[User].saw = Unseen
      BY <2>1, WriteParts
    <2>3. QED
      BY <2>2, AccountsAssumption
  <1>3. CASE q \in CodeSending
    <2>1. PICK o \in Code, r \in CodeRow : q = Insert(o, r)
      BY <1>3 DEF CodeSending
    <2>2. q.do = "write" /\ DOMAIN q.on = {o} /\ q.on[o].inc = NoField /\ q.on[o].put = r
      BY <2>1, WriteParts DEF Insert
    <2>3. QED
      BY <2>2, AccountsAssumption
  <1>4. CASE q \in CodeUsing
    <2>1. PICK o \in Code, old \in CodeRow : q = Write(o, old, [verified |-> TRUE], NoField)
      BY <1>4 DEF CodeUsing
    <2>2. /\ q.do = "write" /\ DOMAIN q.on = {o} /\ q.on[o].inc = NoField
          /\ q.on[o].put = [verified |-> TRUE]
      BY <2>1, WriteParts
    <2>3. [verified |-> TRUE] \in CodeRow
      BY DEF CodeRow
    <2>4. QED
      BY <2>2, <2>3, AccountsAssumption
  <1>5. QED
    BY <1>1, <1>2, <1>3, <1>4 DEF PlainWrites

\* Whoever writes the user or codes, or signs the first token of a session, gives none for another.
LEMMA ClaimsNone ==
  ASSUME NEW r, r \in PlainWrites \/ r = GenerateTokens(None), NEW t \in Token
  PROVE  <<r>> # <<GenerateTokens(t)>> /\ \A k \in Token : <<r>> # <<Issue(k, t)>>
  <1>1. CASE r \in PlainWrites
    <2>1. PICK i \in {User} \cup Code : r.do = "write" /\ DOMAIN r.on = {i}
      BY <1>1, PlainParts
    <2>2. r # GenerateTokens(t)
      BY <2>1, ThenParts DEF GenerateTokens
    <2>3. ASSUME NEW k \in Token, r = Issue(k, t) PROVE FALSE
      <3>1. DOMAIN r.on = {k, User}
        BY <2>3, IssueParts
      <3>2. QED
        BY <2>1, <3>1, AccountsAssumption
    <2>4. QED
      BY <2>2, <2>3, OnesAreEqual
  <1>2. CASE r = GenerateTokens(None)
    <2>1. r.do = "sign" /\ r.on = None
      BY <1>2, ThenParts DEF GenerateTokens
    <2>2. r # GenerateTokens(t)
      BY <2>1, ThenParts, AccountsAssumption DEF GenerateTokens
    <2>3. ASSUME NEW k \in Token, r = Issue(k, t) PROVE FALSE
      <3>1. r.do = "write"
        BY <2>3, IssueWrites
      <3>2. QED
        BY <2>1, <3>1
    <2>4. QED
      BY <2>2, <2>3, OnesAreEqual
  <1>3. QED
    BY <1>1, <1>2

-------------------------------------------------------------------------------
\* As long as tokens stay as they are and no call comes to claim one, the invariant is kept.
LEMMA TokensStay ==
  ASSUME AccountsInv, DOMAIN row' = Id, AccountsRows(row'), todo' \in [Call -> AccountsTodos],
         \A t \in Token : row'[t] = row[t],
         \A t \in Token : t \in raced => t \in raced' \/ row[t] = None,
         \A c \in Call, t \in Token : Claims(c, t)' => Claims(c, t)
  PROVE  AccountsInv'
  <1>1. Rows(Token)' = Rows(Token)
    BY DEF Rows
  <1>2. \A s \in Rows(Token) : row'[s] = row[s]
    BY DEF Rows
  <1>3. ClaimedInv'
    BY <1>1, <1>2 DEF AccountsInv, ClaimedInv
  <1>4. ASSUME NEW t \in Token, t \notin raced' PROVE OnceFor(t)'
    <2>1. CASE t \notin raced
      <3>1. OnceFor(t)
        BY <2>1 DEF AccountsInv
      <3>2. QED
        BY <1>1, <1>2, <3>1 DEF OnceFor
    <2>2. CASE row[t] = None
      <3>1. (\A c \in Call : ~Claims(c, t)) /\ \A s \in Rows(Token) : row[s].for # t
        BY <2>2 DEF AccountsInv, ClaimedInv
      <3>2. QED
        BY <1>1, <1>2, <3>1 DEF OnceFor
    <2>3. QED
      BY <1>4, <2>1, <2>2
  <1>5. QED
    BY <1>3, <1>4 DEF AccountsInv

LEMMA AccountsQuiet ==
  ASSUME AccountsInv, Quiet, todo' \in [Call -> AccountsTodos]
  PROVE  AccountsInv'
  <1>1. row' = row /\ raced' = raced
    BY DEF Quiet
  <1>2. DOMAIN row' = Id /\ AccountsRows(row')
    BY <1>1 DEF AccountsInv
  <1>3. ASSUME NEW c \in Call, NEW t \in Token, Claims(c, t)' PROVE Claims(c, t)
    <2>1. todo'[c] # <<>>
      BY <1>3, PairIsNotOne DEF Claims
    <2>2. todo'[c] = todo[c]
      BY <2>1 DEF Quiet
    <2>3. QED
      BY <1>3, <2>2 DEF Claims
  <1>4. QED
    BY <1>1, <1>2, <1>3, TokensStay

\* Time passes.
LEMMA SecondStep ==
  ASSUME AccountsInv, SecondPasses
  PROVE  AccountsInv'
  <1>1. /\ row' = [row EXCEPT ![Clock] = [second |-> row[Clock].second + 1]]
        /\ todo' = todo /\ raced' = raced /\ row[Clock].second < MaxSecond
    BY DEF SecondPasses, Outside, history
  <1>2. row[Clock].second \in 0..MaxSecond /\ row[Clock].second + 1 \in 0..MaxSecond
    BY <1>1, TokenOfAssumption DEF AccountsInv, AccountsRows
  <1>3. row'[Clock] \in [second : 0..MaxSecond]
    BY <1>1, <1>2, AccountsAssumption DEF AccountsInv
  <1>4. DOMAIN row' = Id /\ \A i \in {User} \cup Code \cup Token : row'[i] = row[i]
    BY <1>1, AccountsAssumption DEF AccountsInv
  <1>5. AccountsRows(row')
    BY <1>3, <1>4 DEF AccountsInv, AccountsRows
  <1>6. QED
    BY <1>1, <1>4, <1>5, TokensStay DEF Claims, AccountsInv

\* A call that starts claims nothing.
LEMMA AccountsDecide ==
  ASSUME AccountsInv, NEW c \in Call, NEW queries \in PlainTodos \cup Refreshing \cup {<<GenerateTokens(None)>>},
         Decide(c, queries),
         \A t \in Token : t \notin Inserting(queries)
  PROVE  AccountsInv'
  <1>1. row' = row /\ todo' = [todo EXCEPT ![c] = queries]
    BY DecideParts
  <1>2. queries \in AccountsTodos
    BY DEF AccountsTodos, Signing
  <1>3. todo' \in [Call -> AccountsTodos] /\ todo'[c] = queries /\ \A d \in Call \ {c} : todo'[d] = todo[d]
    BY <1>1, <1>2 DEF AccountsInv
  <1>4. \A t \in Token : t \in raced' <=> t \in raced
    BY DecideParts
  <1>5. ASSUME NEW t \in Token PROVE ~(queries = <<GenerateTokens(t)>> \/ \E k \in Token : queries = <<Issue(k, t)>>)
    <2>1. ASSUME NEW q \in PlainWrites \cup {GenerateTokens(None)}, queries = <<q>>
          PROVE  ~(queries = <<GenerateTokens(t)>> \/ \E k \in Token : queries = <<Issue(k, t)>>)
      BY <2>1, ClaimsNone
    <2>2. ASSUME NEW q, NEW r, queries = <<q, r>>
          PROVE  ~(queries = <<GenerateTokens(t)>> \/ \E k \in Token : queries = <<Issue(k, t)>>)
      BY <2>2, PairIsNotOne
    <2>3. QED
      BY <2>1, <2>2 DEF PlainTodos, Refreshing
  <1>6. ASSUME NEW d \in Call, NEW t \in Token, Claims(d, t)' PROVE Claims(d, t)
    <2>1. d # c
      BY <1>3, <1>5, <1>6 DEF Claims
    <2>2. QED
      BY <1>3, <1>6, <2>1 DEF Claims
  <1>7. DOMAIN row' = Id /\ AccountsRows(row')
    BY <1>1 DEF AccountsInv
  <1>8. QED
    BY <1>1, <1>3, <1>4, <1>6, <1>7, TokensStay

\* Queries insert what one of them does.
LEMMA InsertingTwo ==
  ASSUME NEW q, NEW r
  PROVE  Inserting(<<q, r>>) = Inserting(<<q>>) \cup Inserting(<<r>>)
  <1>1. DOMAIN <<q, r>> = {1, 2} /\ <<q, r>>[1] = q /\ <<q, r>>[2] = r
    OBVIOUS
  <1>2. DOMAIN <<q>> = {1} /\ <<q>>[1] = q /\ DOMAIN <<r>> = {1} /\ <<r>>[1] = r
    OBVIOUS
  <1>3. \A w : w \in Writes(<<q, r>>) <=> w \in Writes(<<q>>) \/ w \in Writes(<<r>>)
    BY <1>1, <1>2 DEF Writes
  <1>4. QED
    BY <1>3 DEF Inserting

LEMMA PlainInsertsNoToken ==
  ASSUME NEW q, q \in PlainWrites \/ q.do # "write", NEW t \in Token
  PROVE  t \notin Inserting(<<q>>)
  <1>1. CASE q.do # "write"
    BY <1>1, InsertingOf
  <1>2. CASE q \in PlainWrites
    <2>1. PICK i \in {User} \cup Code : DOMAIN q.on = {i}
      BY <1>2, PlainParts
    <2>2. QED
      BY <2>1, InsertingOf, AccountsAssumption
  <1>3. QED
    BY <1>1, <1>2

LEMMA AccountsMethod ==
  ASSUME AccountsInv, NEW c \in Call, AccountsNext(c), ~Sign(c)
  PROVE  AccountsInv'
  <1> DEFINE new(v, p) == Insert(User, NewUser(v, p))
  <1>1. ASSUME NEW q \in PlainWrites, NEW r \in PlainWrites \cup {GenerateTokens(None)}, Decide(c, <<q, r>>)
        PROVE  AccountsInv'
    <2>1. GenerateTokens(None).do # "write"
      BY ThenParts DEF GenerateTokens
    <2>2. \A t \in Token : t \notin Inserting(<<q>>) /\ t \notin Inserting(<<r>>)
      BY <2>1, PlainInsertsNoToken
    <2>3. \A t \in Token : t \notin Inserting(<<q, r>>)
      BY <2>2, InsertingTwo
    <2>4. <<q, r>> \in PlainTodos
      BY DEF PlainTodos
    <2>5. QED
      BY <1>1, <2>3, <2>4, AccountsDecide
  <1>2. ASSUME NEW q \in PlainWrites, Decide(c, <<q>>) PROVE AccountsInv'
    <2>1. <<q>> \in PlainTodos
      BY DEF PlainTodos
    <2>2. QED
      BY <1>2, <2>1, PlainInsertsNoToken, AccountsDecide
  <1>3. ASSUME Decide(c, <<GenerateTokens(None)>>) PROVE AccountsInv'
    <2>1. GenerateTokens(None).do # "write"
      BY ThenParts DEF GenerateTokens
    <2>2. QED
      BY <1>3, <2>1, PlainInsertsNoToken, AccountsDecide
  <1>4. \A v, p \in BOOLEAN : new(v, p) \in PlainWrites
    BY DEF NewUser, UserRow, UserCreating, PlainWrites
  <1>5. CASE Register(c)
    BY <1>1, <1>4, <1>5 DEF Register
  <1>6. CASE CreateUser(c)
    BY <1>2, <1>4, <1>6 DEF CreateUser
  <1>7. CASE Login(c)
    BY <1>3, <1>7 DEF Login
  <1>8. CASE SocialLogin(c)
    BY <1>1, <1>3, <1>4, <1>8 DEF SocialLogin
  <1>9. CASE SendOtp(c)
    <2>1. PICK o \in Code : Decide(c, <<Insert(o, [verified |-> FALSE])>>)
      BY <1>9 DEF SendOtp, Unused
    <2>2. [verified |-> FALSE] \in CodeRow
      BY DEF CodeRow
    <2>3. Insert(o, [verified |-> FALSE]) \in CodeSending
      BY <2>2 DEF CodeSending
    <2>4. QED
      BY <1>2, <2>1, <2>3 DEF PlainWrites
  <1>10. CASE VerifyOtp(c)
    <2>1. PICK o \in Rows(Code) :
            Decide(c, <<Put(o, [verified |-> TRUE]), Overwrite(User, [verified |-> TRUE])>>)
      BY <1>10 DEF VerifyOtp
    <2>2. o \in Code /\ row[o] \in CodeRow
      BY DEF Rows, AccountsInv, AccountsRows
    <2>3. Put(o, [verified |-> TRUE]) \in CodeUsing
      BY <2>2 DEF Put, CodeUsing
    <2>4. Overwrite(User, [verified |-> TRUE]) \in UserVerifying
      BY DEF UserVerifying
    <2>5. QED
      BY <1>1, <2>1, <2>3, <2>4 DEF PlainWrites
  <1>11. CASE RefreshTokens(c)
    <2>1. PICK t \in Rows(Token) :
            ~row[t].revoked /\ Decide(c, <<Put(t, [revoked |-> TRUE]), GenerateTokens(t)>>)
      BY <1>11 DEF RefreshTokens, MayRefresh
    <2>2. t \in Token /\ row[t] \in Unrevoked
      BY <2>1 DEF Rows, Unrevoked, AccountsInv, AccountsRows
    <2> DEFINE q == Put(t, [revoked |-> TRUE])
               r == GenerateTokens(t)
    <2>3. q = Revoking(t, row[t])
      BY DEF Put, Revoking
    <2>4. <<q, r>> \in Refreshing
      BY <2>2, <2>3 DEF Refreshing
    <2>5. DOMAIN q.on = {t} /\ q.on[t].saw = row[t]
      BY WriteParts DEF Put
    <2>6. \A k \in Token : k \notin Inserting(<<q>>)
      BY <2>2, <2>5, InsertingOf, AccountsAssumption DEF Unrevoked
    <2>7. r.do # "write"
      BY ThenParts DEF GenerateTokens
    <2> HIDE DEF q, r
    <2>8. \A k \in Token : k \notin Inserting(<<r>>)
      BY <2>7, PlainInsertsNoToken
    <2>9. \A k \in Token : k \notin Inserting(<<q, r>>)
      BY <2>6, <2>8, InsertingTwo
    <2>10. Decide(c, <<q, r>>)
      BY <2>1 DEF q, r
    <2>11. QED
      BY <2>4, <2>9, <2>10, AccountsDecide
  <1>12. QED
    BY <1>5, <1>6, <1>7, <1>8, <1>9, <1>10, <1>11 DEF AccountsNext

\* A call that is about to sign has nothing else to do.
LEMMA SignsLast ==
  ASSUME NEW queries \in AccountsTodos, queries # <<>>, Head(queries).do = "sign"
  PROVE  \E t \in Token \cup {None} : queries = <<GenerateTokens(t)>> /\ Head(queries).on = t /\ Tail(queries) = <<>>
  <1>1. ASSUME NEW q, NEW r, queries = <<q>> \/ queries = <<q, r>>, q.do = "write" PROVE FALSE
    <2>1. Head(queries) = q
      BY <1>1, PairIsNotOne
    <2>2. QED
      BY <1>1, <2>1
  <1>2. queries \notin PlainTodos
    BY <1>1, PlainParts DEF PlainTodos
  <1>3. queries \notin Refreshing
    <2>1. ASSUME NEW t \in Token, NEW old \in Unrevoked PROVE Revoking(t, old).do = "write"
      BY WriteParts DEF Revoking
    <2>2. QED
      BY <1>1, <2>1 DEF Refreshing
  <1>4. queries \notin Issuing
    <2>1. ASSUME NEW k \in Token, NEW t \in Token \cup {None} PROVE Issue(k, t).do = "write"
      BY IssueWrites
    <2>2. QED
      BY <1>1, <2>1 DEF Issuing
  <1>5. PICK t \in Token \cup {None} : queries = <<GenerateTokens(t)>>
    BY <1>2, <1>3, <1>4 DEF AccountsTodos, Signing
  <1>6. Head(queries) = GenerateTokens(t) /\ Tail(queries) = <<>>
    BY <1>5, PairIsNotOne
  <1>7. GenerateTokens(t).on = t
    BY ThenParts DEF GenerateTokens
  <1>8. QED
    BY <1>5, <1>6, <1>7

\* The token that is signed may be another that is there; then it keeps its history.
LEMMA SignStep ==
  ASSUME AccountsInv, NEW c \in Call, Sign(c)
  PROVE  AccountsInv'
  <1> DEFINE k == TokenOf[row[Clock].second]
             t == Subject(c)
             q == Issue(k, t)
  <1>1. /\ ~Free(c) /\ Head(todo[c]).do = "sign" /\ row' = row
        /\ todo' = [todo EXCEPT ![c] = <<q>> \o Tail(@)]
        /\ raced' = raced \ {i \in Inserting(<<q>>) : row[i] = None}
    BY DEF Sign, Continue, At, Afresh, Issue
  <1>2. k \in Token
    BY TokenOfAssumption DEF AccountsInv, AccountsRows
  <1>3. todo[c] \in AccountsTodos /\ todo[c] # <<>>
    BY <1>1 DEF AccountsInv, Free
  <1>4. t \in Token \cup {None} /\ todo[c] = <<GenerateTokens(t)>> /\ Tail(todo[c]) = <<>>
    BY <1>1, <1>3, SignsLast DEF Subject
  <1> HIDE DEF k, t, q
  <1>5. <<q>> \o <<>> = <<q>>
    OBVIOUS
  <1>6. todo' = [todo EXCEPT ![c] = <<q>>]
    BY <1>1, <1>4, <1>5
  <1>7. <<q>> \in AccountsTodos
    BY <1>2, <1>4 DEF AccountsTodos, Issuing, q
  <1>8. todo' \in [Call -> AccountsTodos] /\ todo'[c] = <<q>> /\ \A d \in Call \ {c} : todo'[d] = todo[d]
    BY <1>6, <1>7 DEF AccountsInv
  <1>9. ASSUME NEW d \in Call, NEW s \in Token, Claims(d, s)' PROVE Claims(d, s)
    <2>1. CASE d # c
      BY <1>8, <1>9, <2>1 DEF Claims
    <2>2. CASE d = c
      <3>1. <<q>> = <<GenerateTokens(s)>> \/ \E a \in Token : <<q>> = <<Issue(a, s)>>
        BY <1>8, <1>9, <2>2 DEF Claims
      <3>2. q = GenerateTokens(s) \/ \E a \in Token : q = Issue(a, s)
        BY <3>1, OnesAreEqual
      <3>3. /\ q.do = "write" /\ DOMAIN q.on = {k, User}
            /\ q.on[k] = [saw |-> None, put |-> [revoked |-> FALSE, for |-> t], inc |-> NoField]
        <4>1. q = Issue(k, t)
          BY DEF q
        <4> HIDE DEF q
        <4>2. DOMAIN q.on = {k, User} /\ q.do = "write"
          BY <1>2, <4>1, IssueDomain
        <4>3. q.on[k] = [saw |-> None, put |-> [revoked |-> FALSE, for |-> t], inc |-> NoField]
          BY <1>2, <4>1, IssueParts
        <4>4. QED
          BY <4>2, <4>3
      <3>4. PICK a \in Token : q = Issue(a, s)
        BY <3>2, <3>3, ThenParts DEF GenerateTokens
      <3>5. /\ DOMAIN q.on = {a, User}
            /\ q.on[a] = [saw |-> None, put |-> [revoked |-> FALSE, for |-> s], inc |-> NoField]
        BY <3>4, IssueParts
      <3>6. a = k
        BY <1>2, <3>3, <3>5, AccountsAssumption
      <3>7. s = t
        BY <3>3, <3>5, <3>6
      <3>8. QED
        BY <1>4, <2>2, <3>7 DEF Claims
    <2>3. QED
      BY <2>1, <2>2
  <1>10. DOMAIN row' = Id /\ AccountsRows(row')
    BY <1>1 DEF AccountsInv
  <1>11. QED
    BY <1>1, <1>8, <1>9, <1>10, TokensStay

-------------------------------------------------------------------------------
\* A call wrote the user or a code.
LEMMA PlainDone ==
  ASSUME AccountsInv, NEW c \in Call, NEW q \in PlainWrites, Did(c, q),
         Tail(todo[c]) \in {<<>>} \cup {<<r>> : r \in PlainWrites \cup {GenerateTokens(None)}}
  PROVE  AccountsInv'
  <1>1. /\ todo' = [todo EXCEPT ![c] = Tail(todo[c])]
        /\ \A i \in DOMAIN q.on : (q.on[i].saw = None) = (row[i] = None)
        /\ row' = [i \in Id |-> IF i \in DOMAIN q.on THEN Applied(q.on[i], row[i]) ELSE row[i]]
        /\ raced \subseteq raced'
    BY DEF Did
  <1>2. PICK i \in {User} \cup Code :
           /\ DOMAIN q.on = {i} /\ q.on[i].inc = NoField
           /\ i = User => q.on[i].put \in UserRow \/ (q.on[i].put = [verified |-> TRUE] /\ q.on[i].saw = Unseen)
           /\ i \in Code => q.on[i].put \in CodeRow
    BY PlainParts
  <1>3. DOMAIN row' = Id /\ \A j \in ({User, Clock} \cup Code \cup Token) \ {i} : row'[j] = row[j]
    BY <1>1, <1>2, AccountsAssumption
  <1>4. row'[i] = Applied(q.on[i], row[i]) /\ q.on[i].put # None
    <2>1. q.on[i].put # None
      BY <1>2, Verified, AccountsAssumption
    <2>2. QED
      BY <1>1, <1>2, <2>1, AccountsAssumption
  <1>5. row[i] # None => row'[i] = [f \in DOMAIN row[i] |->
            IF f \in DOMAIN q.on[i].put THEN q.on[i].put[f] ELSE row[i][f]]
    <2>1. DOMAIN NoField = {}
      BY DEF NoField
    <2>2. QED
      BY <1>2, <1>4, <2>1 DEF Applied
  <1>6. row[i] = None => row'[i] = q.on[i].put
    BY <1>4 DEF Applied
  <1>7. ASSUME i = User PROVE AccountsRows(row')
    <2>1. row'[User] \in UserRow
      <3>1. CASE row[User] = None
        BY <1>1, <1>2, <1>6, <1>7, <3>1, UnseenAssumption
      <3>2. CASE row[User] # None
        <4>1. row[User] \in UserRow
          BY <3>2 DEF AccountsInv, AccountsRows
        <4>2. row'[User] = [verified |-> row'[User].verified, password |-> row'[User].password]
              /\ row'[User].verified \in BOOLEAN /\ row'[User].password \in BOOLEAN
          <5> DEFINE w == q.on[User].put
          <5>1. DOMAIN row[User] = {"verified", "password"}
                /\ row[User].verified \in BOOLEAN /\ row[User].password \in BOOLEAN
            BY <4>1 DEF UserRow
          <5>2. /\ "verified" \in DOMAIN w => w["verified"] \in BOOLEAN
                /\ "password" \in DOMAIN w => w["password"] \in BOOLEAN
            <6>1. CASE w \in UserRow
              BY <6>1 DEF UserRow
            <6>2. CASE w = [verified |-> TRUE]
              BY <6>2
            <6>3. QED
              BY <1>2, <1>7, <6>1, <6>2
          <5> HIDE DEF w
          <5>3. row'[User] = [f \in DOMAIN row[User] |-> IF f \in DOMAIN w THEN w[f] ELSE row[User][f]]
            BY <1>5, <1>7, <3>2 DEF w
          <5>4. row'[User] = [verified |-> row'[User].verified, password |-> row'[User].password]
            BY <5>1, <5>3
          <5>5. row'[User].verified \in BOOLEAN
            BY <5>1, <5>2, <5>3
          <5>6. row'[User].password \in BOOLEAN
            BY <5>1, <5>2, <5>3
          <5>7. QED
            BY <5>4, <5>5, <5>6
        <4>3. QED
          BY <4>2 DEF UserRow
      <3>3. QED
        BY <3>1, <3>2
    <2>2. QED
      BY <1>3, <1>7, <2>1, AccountsAssumption DEF AccountsInv, AccountsRows
  <1>8. ASSUME i \in Code PROVE AccountsRows(row')
    <2>1. row'[i] \in CodeRow
      <3>1. CASE row[i] = None
        BY <1>2, <1>6, <1>8, <3>1
      <3>2. CASE row[i] # None
        <4>1. row[i] \in CodeRow /\ q.on[i].put \in CodeRow
          BY <1>2, <1>8, <3>2 DEF AccountsInv, AccountsRows
        <4>2. row'[i] = [verified |-> q.on[i].put.verified]
          BY <1>5, <3>2, <4>1 DEF CodeRow
        <4>3. QED
          BY <4>1, <4>2 DEF CodeRow
      <3>3. QED
        BY <3>1, <3>2
    <2>2. QED
      BY <1>3, <1>8, <2>1, AccountsAssumption DEF AccountsInv, AccountsRows
  <1>9. \A t \in Token : row'[t] = row[t]
    BY <1>3, AccountsAssumption
  <1>10. Tail(todo[c]) \in AccountsTodos
    BY DEF AccountsTodos, PlainTodos, Signing
  <1>11. todo' \in [Call -> AccountsTodos] /\ todo'[c] = Tail(todo[c]) /\ \A d \in Call \ {c} : todo'[d] = todo[d]
    BY <1>1, <1>10 DEF AccountsInv
  <1>12. ASSUME NEW d \in Call, NEW t \in Token, Claims(d, t)' PROVE Claims(d, t)
    <2>1. d # c
      <3>1. CASE Tail(todo[c]) = <<>>
        BY <1>11, <1>12, <3>1, PairIsNotOne DEF Claims
      <3>2. ASSUME NEW r \in PlainWrites \cup {GenerateTokens(None)}, Tail(todo[c]) = <<r>> PROVE d # c
        <4>1. <<r>> # <<GenerateTokens(t)>> /\ \A k \in Token : <<r>> # <<Issue(k, t)>>
          BY ClaimsNone
        <4>2. QED
          BY <1>11, <1>12, <3>2, <4>1 DEF Claims
      <3>3. QED
        BY <3>1, <3>2
    <2>2. QED
      BY <1>11, <1>12, <2>1 DEF Claims
  <1>13. QED
    BY <1>1, <1>3, <1>7, <1>8, <1>9, <1>11, <1>12, TokensStay

\* A call revoked the token t: unless another one raced it, it is the only one that did.
LEMMA RevokingDone ==
  ASSUME Token \subseteq Watched, AccountsInv, NEW c \in Call, NEW t \in Token, NEW old \in Unrevoked,
         Did(c, Revoking(t, old)), Tail(todo[c]) = <<GenerateTokens(t)>>,
         \A s \in Token : ~Claims(c, s)
  PROVE  AccountsInv'
  <1> DEFINE q == Revoking(t, old)
             edit == [revoked |-> TRUE]
  <1>1. DOMAIN q.on = {t} /\ q.on[t] = [saw |-> old, put |-> edit, inc |-> NoField]
    BY DEF Revoking, Write
  <1>2. /\ todo' = [todo EXCEPT ![c] = Tail(todo[c])]
        /\ \A i \in DOMAIN q.on : (q.on[i].saw = None) = (row[i] = None)
        /\ row' = [i \in Id |-> IF i \in DOMAIN q.on THEN Applied(q.on[i], row[i]) ELSE row[i]]
        /\ raced' = raced \cup
             (Watched \cap {i \in DOMAIN q.on : q.on[i].saw # row[i] /\ (q.on[i].saw = Unseen => q.on[i].put # NoField)})
    BY DEF Did
  <1>3. old \in TokenRow /\ ~old.revoked /\ old # None /\ old # Unseen
    BY AccountsAssumption DEF Unrevoked
  <1>4. row[t] # None /\ row[t] \in TokenRow
    BY <1>1, <1>2, <1>3 DEF AccountsInv, AccountsRows
  <1>5. DOMAIN row' = Id /\ \A j \in ({User, Clock} \cup Code \cup Token) \ {t} : row'[j] = row[j]
    BY <1>1, <1>2, AccountsAssumption
  <1>6. row'[t] = [revoked |-> TRUE, for |-> row[t].for]
    <2>1. row'[t] = Applied([saw |-> old, put |-> edit, inc |-> NoField], row[t]) /\ edit # None
      <3>1. edit \in [revoked : BOOLEAN]
        OBVIOUS
      <3>2. t \in Id /\ t \in DOMAIN q.on /\ edit # None
        BY <1>1, <3>1, AccountsAssumption
      <3>3. row'[t] = Applied(q.on[t], row[t])
        BY <1>2, <3>2
      <3>4. QED
        BY <1>1, <3>2, <3>3
    <2>2. DOMAIN edit = {"revoked"} /\ edit["revoked"] = TRUE
      OBVIOUS
    <2> HIDE DEF edit
    <2>3. row'[t] = [f \in DOMAIN row[t] |-> IF f \in DOMAIN edit THEN edit[f] ELSE row[t][f]]
      BY <1>4, <2>1, AppliedIs
    <2>4. DOMAIN row[t] = {"revoked", "for"}
      BY <1>4 DEF TokenRow
    <2>5. QED
      BY <2>2, <2>3, <2>4
  <1>7. row'[t] \in TokenRow /\ row'[t] # None
    <2>1. row[t].for \in Token \cup {None}
      BY <1>4 DEF TokenRow
    <2>2. row'[t] \in TokenRow
      BY <1>6, <2>1 DEF TokenRow
    <2>3. QED
      BY <2>2, AccountsAssumption
  <1>8. AccountsRows(row')
    BY <1>5, <1>7, AccountsAssumption DEF AccountsInv, AccountsRows
  <1>9. Rows(Token)' = Rows(Token) /\ \A s \in Rows(Token) : row'[s].for = row[s].for /\ (s # t => row'[s] = row[s])
    BY <1>4, <1>5, <1>6, <1>7 DEF Rows
  <1>10. <<GenerateTokens(t)>> \in AccountsTodos
    BY DEF AccountsTodos, Signing
  <1>11. todo' \in [Call -> AccountsTodos] /\ todo'[c] = <<GenerateTokens(t)>> /\ \A d \in Call \ {c} : todo'[d] = todo[d]
    BY <1>2, <1>10 DEF AccountsInv
  <1>12. ASSUME NEW d \in Call, NEW s \in Token, Claims(d, s)' PROVE Claims(d, s) \/ (d = c /\ s = t)
    <2>1. CASE d # c
      BY <1>11, <1>12, <2>1 DEF Claims
    <2>2. CASE d = c
      <3>1. GenerateTokens(t) = GenerateTokens(s) \/ \E a \in Token : GenerateTokens(t) = Issue(a, s)
        BY <1>11, <1>12, <2>2, OnesAreEqual DEF Claims
      <3>2. ASSUME NEW a \in Token PROVE Issue(a, s).do = "write"
        BY IssueWrites
      <3>3. GenerateTokens(t).do = "sign" /\ GenerateTokens(t).on = t /\ GenerateTokens(s).on = s
        BY ThenParts DEF GenerateTokens
      <3>4. QED
        BY <2>2, <3>1, <3>2, <3>3
    <2>3. QED
      BY <2>1, <2>2
  <1>13. ClaimedInv'
    BY <1>4, <1>5, <1>7, <1>9, <1>12 DEF AccountsInv, ClaimedInv
  <1>14. ASSUME NEW s \in Token, s \notin raced' PROVE OnceFor(s)'
    <2>1. OnceFor(s)
      BY <1>2, <1>14 DEF AccountsInv
    <2>2. CASE s # t
      <3>1. \A d \in Call : Claims(d, s)' => Claims(d, s)
        BY <1>12, <2>2
      <3>2. row'[s] = row[s]
        BY <1>5, <2>2
      <3>3. QED
        BY <1>9, <2>1, <3>1, <3>2 DEF OnceFor
    <2>3. CASE s = t
      <3>1. old = row[t]
        BY <1>1, <1>2, <1>3, <1>14, <2>3
      <3>2. ~row[t].revoked
        BY <1>3, <3>1
      <3>3. (\A d \in Call : ~Claims(d, t)) /\ \A a \in Rows(Token) : row[a].for # t
        BY <2>1, <2>3, <3>2 DEF OnceFor
      <3>4. (\A d \in Call : Claims(d, t)' => d = c) /\ \A a \in Rows(Token)' : row'[a].for # t
        BY <1>9, <1>12, <3>3
      <3>5. row'[t].revoked
        BY <1>6
      <3>6. QED
        BY <2>3, <3>4, <3>5 DEF OnceFor
    <2>4. QED
      BY <2>2, <2>3
  <1>15. QED
    BY <1>5, <1>8, <1>11, <1>13, <1>14 DEF AccountsInv

\* A call made the token k for t; its claim to t is now that of the new token.
LEMMA IssuingDone ==
  ASSUME AccountsInv, NEW c \in Call, NEW k \in Token, NEW t \in Token \cup {None},
         todo[c] = <<Issue(k, t)>>, Did(c, Issue(k, t)), Tail(todo[c]) = <<>>
  PROVE  AccountsInv'
  <1> DEFINE q == Issue(k, t)
             new == [revoked |-> FALSE, for |-> t]
  <1>1. /\ DOMAIN q.on = {k, User}
        /\ q.on[k] = [saw |-> None, put |-> new, inc |-> NoField]
        /\ q.on[User] = [saw |-> Unseen, put |-> NoField, inc |-> NoField]
    BY IssueParts
  <1>2. /\ todo' = [todo EXCEPT ![c] = Tail(todo[c])]
        /\ \A i \in DOMAIN q.on : (q.on[i].saw = None) = (row[i] = None)
        /\ row' = [i \in Id |-> IF i \in DOMAIN q.on THEN Applied(q.on[i], row[i]) ELSE row[i]]
        /\ raced \subseteq raced'
    BY DEF Did
  <1>3. row[k] = None /\ row[User] # None /\ row[User] \in UserRow
    BY <1>1, <1>2, UnseenAssumption, AccountsAssumption DEF AccountsInv, AccountsRows
  <1>4. new \in TokenRow /\ new # None /\ new.for = t /\ new.revoked = FALSE
    <2>1. new \in TokenRow
      BY DEF TokenRow
    <2>2. new # None
      BY <2>1, AccountsAssumption
    <2>3. QED
      BY <2>1, <2>2
  <1> HIDE DEF new, q
  <1>5. row'[k] = new
    BY <1>1, <1>2, <1>3, <1>4, AccountsAssumption DEF Applied
  <1>6. row'[User] = row[User]
    <2>1. row'[User] = [f \in DOMAIN row[User] |-> IF f \in DOMAIN NoField THEN NoField[f] ELSE row[User][f]]
      BY <1>1, <1>2, <1>3, AppliedIs, AccountsAssumption
    <2>2. DOMAIN NoField = {}
      BY DEF NoField
    <2>3. QED
      BY <1>3, <2>1, <2>2 DEF UserRow
  <1>7. DOMAIN row' = Id /\ \A j \in ({Clock} \cup Code \cup Token) \ {k} : row'[j] = row[j]
    BY <1>1, <1>2, AccountsAssumption
  <1>8. AccountsRows(row')
    BY <1>3, <1>4, <1>5, <1>6, <1>7, AccountsAssumption DEF AccountsInv, AccountsRows
  <1>9. Rows(Token)' = Rows(Token) \cup {k} /\ k \notin Rows(Token) /\ \A s \in Rows(Token) : row'[s] = row[s]
    BY <1>3, <1>4, <1>5, <1>7 DEF Rows
  <1>10. <<>> \in AccountsTodos
    BY DEF AccountsTodos
  <1>11. todo' \in [Call -> AccountsTodos] /\ todo'[c] = <<>> /\ \A d \in Call \ {c} : todo'[d] = todo[d]
    BY <1>2, <1>10 DEF AccountsInv
  <1>12. \A s \in Token : ~Claims(c, s)'
    BY <1>11, PairIsNotOne DEF Claims
  <1>13. ASSUME NEW d \in Call, NEW s \in Token, Claims(d, s)' PROVE Claims(d, s) /\ d # c
    BY <1>11, <1>12, <1>13 DEF Claims
  <1>14. t \in Token => Claims(c, t)
    BY DEF Claims
  <1>15. (\A d \in Call : ~Claims(d, k)) /\ \A s \in Rows(Token) : row[s].for # k
    BY <1>3 DEF AccountsInv, ClaimedInv
  <1>16. t # k
    BY <1>14, <1>15
  <1>17. ASSUME NEW s \in Token, (\E d \in Call : Claims(d, s)') \/ (\E a \in Rows(Token)' : row'[a].for = s)
         PROVE  s # k /\ row'[s] = row[s] /\ ((\E d \in Call : Claims(d, s)) \/ (\E a \in Rows(Token) : row[a].for = s))
    <2>1. (\E d \in Call : Claims(d, s)) \/ (\E a \in Rows(Token) : row[a].for = s)
      <3>1. CASE \E d \in Call : Claims(d, s)'
        BY <1>13, <3>1
      <3>2. ASSUME NEW a \in Rows(Token)', row'[a].for = s
            PROVE  (\E d \in Call : Claims(d, s)) \/ (\E b \in Rows(Token) : row[b].for = s)
        <4>1. CASE a = k
          BY <1>4, <1>5, <1>14, <3>2, <4>1
        <4>2. CASE a # k
          BY <1>9, <3>2, <4>2
        <4>3. QED
          BY <4>1, <4>2
      <3>3. QED
        BY <1>17, <3>1, <3>2
    <2>2. s # k
      BY <1>15, <2>1
    <2>3. QED
      BY <1>7, <2>1, <2>2
  <1>18. ClaimedInv'
    <2>1. ASSUME NEW s \in Token, (\E d \in Call : Claims(d, s)') \/ (\E a \in Rows(Token)' : row'[a].for = s)
          PROVE  row'[s] # None
      BY <1>17, <2>1 DEF AccountsInv, ClaimedInv
    <2>2. QED
      BY <2>1 DEF ClaimedInv
  <1>19. ASSUME NEW s \in Token, s \notin raced' PROVE OnceFor(s)'
    <2>1. OnceFor(s)
      BY <1>2, <1>19 DEF AccountsInv
    <2>2. CASE s # t
      <3>1. \A a \in Rows(Token)' : row'[a].for = s => a \in Rows(Token) /\ row[a].for = s
        BY <1>4, <1>5, <1>9, <2>2
      <3>2. (\E d \in Call : Claims(d, s)') \/ (\E a \in Rows(Token)' : row'[a].for = s) => row'[s].revoked
        BY <1>17, <2>1 DEF OnceFor
      <3>3. QED
        BY <1>13, <2>1, <3>1, <3>2 DEF OnceFor
    <2>3. CASE s = t
      <3>1. Claims(c, s)
        BY <1>14, <2>3
      <3>2. (\A d \in Call : Claims(d, s) => d = c) /\ \A a \in Rows(Token) : row[a].for # s
        BY <2>1, <3>1 DEF OnceFor
      <3>3. (\A d \in Call : ~Claims(d, s)') /\ \A a \in Rows(Token)' : row'[a].for = s => a = k
        BY <1>9, <1>13, <3>2
      <3>4. (\E d \in Call : Claims(d, s)') \/ (\E a \in Rows(Token)' : row'[a].for = s) => row'[s].revoked
        BY <1>17, <2>1 DEF OnceFor
      <3>5. QED
        BY <3>3, <3>4 DEF OnceFor
    <2>4. QED
      BY <2>2, <2>3
  <1>20. QED
    BY <1>7, <1>8, <1>11, <1>18, <1>19 DEF AccountsInv

LEMMA AccountsDone ==
  ASSUME Token \subseteq Watched, AccountsInv, NEW c \in Call, NEW q, Did(c, q)
  PROVE  AccountsInv'
  <1>1. todo[c] \in AccountsTodos /\ todo[c] # <<>> /\ q = Head(todo[c]) /\ q.do = "write"
    BY DEF AccountsInv, Did, Free
  <1>2. ASSUME NEW p \in PlainWrites, todo[c] = <<p>> PROVE AccountsInv'
    <2>1. q = p /\ Tail(todo[c]) = <<>>
      BY <1>1, <1>2, PairIsNotOne
    <2>2. QED
      BY <2>1, PlainDone
  <1>3. ASSUME NEW p \in PlainWrites, NEW r \in PlainWrites \cup {GenerateTokens(None)}, todo[c] = <<p, r>>
        PROVE  AccountsInv'
    <2>1. q = p /\ Tail(todo[c]) = <<r>>
      BY <1>1, <1>3, PairIsNotOne
    <2>2. QED
      BY <2>1, PlainDone
  <1>4. ASSUME NEW t \in Token, NEW old \in Unrevoked, todo[c] = <<Revoking(t, old), GenerateTokens(t)>>
        PROVE  AccountsInv'
    <2>1. q = Revoking(t, old) /\ Tail(todo[c]) = <<GenerateTokens(t)>>
      BY <1>1, <1>4, PairIsNotOne
    <2>2. \A s \in Token : ~Claims(c, s)
      BY <1>4, PairIsNotOne DEF Claims
    <2>3. QED
      BY <2>1, <2>2, RevokingDone
  <1>5. ASSUME NEW k \in Token, NEW t \in Token \cup {None}, todo[c] = <<Issue(k, t)>> PROVE AccountsInv'
    <2>1. q = Issue(k, t) /\ Tail(todo[c]) = <<>>
      BY <1>1, <1>5, PairIsNotOne
    <2>2. QED
      BY <1>5, <2>1, IssuingDone
  <1>6. todo[c] \notin Signing
    <2>1. ASSUME NEW t \in Token \cup {None}, todo[c] = <<GenerateTokens(t)>> PROVE FALSE
      <3>1. q = GenerateTokens(t)
        BY <1>1, <2>1, PairIsNotOne
      <3>2. q.do = "sign"
        BY <3>1, ThenParts DEF GenerateTokens
      <3>3. QED
        BY <1>1, <3>2
    <2>2. QED
      BY <2>1 DEF Signing
  <1>7. QED
    BY <1>1, <1>2, <1>3, <1>4, <1>5, <1>6 DEF AccountsTodos, PlainTodos, Refreshing, Issuing

LEMMA AccountsInvariance ==
  ASSUME Token \subseteq Watched
  PROVE  AccountsSpec => []AccountsInv
  <1>1. CallsInit(NoAccounts) => AccountsInv
    <2> SUFFICES ASSUME CallsInit(NoAccounts) PROVE AccountsInv
      OBVIOUS
    <2>1. /\ row = [i \in Id |-> IF i \in DOMAIN NoAccounts THEN NoAccounts[i] ELSE None]
          /\ todo = [c \in Call |-> <<>>]
      BY DEF CallsInit
    <2>2. DOMAIN NoAccounts = {Clock} /\ NoAccounts[Clock] = [second |-> 0]
      BY DEF NoAccounts
    <2>3. row[Clock] = [second |-> 0] /\ \A i \in {User} \cup Code \cup Token : row[i] = None
      BY <2>1, <2>2, AccountsAssumption
    <2>4. DOMAIN row = Id /\ AccountsRows(row)
      <3>1. 0 \in 0..MaxSecond
        BY TokenOfAssumption
      <3>2. [second |-> 0] \in [second : 0..MaxSecond]
        BY <3>1
      <3>3. QED
        BY <2>1, <2>3, <3>2 DEF AccountsRows
    <2>5. \A c \in Call, t \in Token : ~Claims(c, t)
      BY <2>1, PairIsNotOne DEF Claims
    <2>6. Rows(Token) = {}
      BY <2>3 DEF Rows
    <2>7. todo \in [Call -> AccountsTodos]
      BY <2>1 DEF AccountsTodos
    <2>8. ClaimedInv /\ \A t \in Token : OnceFor(t)
      BY <2>5, <2>6 DEF ClaimedInv, OnceFor
    <2>9. QED
      BY <2>4, <2>7, <2>8 DEF AccountsInv
  <1>2. AccountsInv /\ [(\E c \in Call : AccountsNext(c) \/ Step(c)) \/ SecondPasses \/ Restart]_vars
          => AccountsInv'
    <2> SUFFICES ASSUME AccountsInv,
                        [(\E c \in Call : AccountsNext(c) \/ Step(c)) \/ SecondPasses \/ Restart]_vars
                 PROVE  AccountsInv'
      OBVIOUS
    <2>1. ASSUME NEW c \in Call, AccountsNext(c) PROVE AccountsInv'
      BY <2>1, SignStep, AccountsMethod
    <2>2. CASE SecondPasses
      BY <2>2, SecondStep
    <2>3. CASE [(\E c \in Call : Step(c)) \/ Restart]_vars
      <3>1. todo \in [Call -> AccountsTodos] /\ <<>> \in AccountsTodos
        BY DEF AccountsInv, AccountsTodos
      <3>2. \/ Quiet /\ todo' \in [Call -> AccountsTodos]
            \/ \E c \in Call : \E q : Did(c, q)
        BY <2>3, <3>1, StepIsDone
      <3>3. QED
        BY <3>2, AccountsQuiet, AccountsDone
    <2>4. QED
      BY <2>1, <2>2, <2>3
  <1>3. QED
    BY <1>1, <1>2, PTL DEF AccountsSpec

-------------------------------------------------------------------------------
\* The user, his codes and his tokens have the values their columns take.
THEOREM AccountsTypeCorrect ==
  ASSUME Token \subseteq Watched
  PROVE  AccountsSpec => []AccountsRows(row)
  <1>1. AccountsInv => AccountsRows(row)
    BY DEF AccountsInv
  <1>2. QED
    BY <1>1, AccountsInvariance, PTL

\* A token is revoked before another is made for it, and no token that was revoked is taken: so it is
\* exchanged once, whatever fails in between and however tokens collide, unless two calls raced.
THEOREM ExchangedOnce ==
  ASSUME Token \subseteq Watched
  PROVE  AccountsSpec => []TokenIsExchangedOnce
  <1>1. AccountsInv => TokenIsExchangedOnce
    <2> SUFFICES ASSUME AccountsInv, NEW s \in Rows(Token), NEW t \in Rows(Token),
                        s # t, row[s].for = row[t].for, row[s].for \notin {None} \cup raced
                 PROVE  FALSE
      BY DEF TokenIsExchangedOnce
    <2>1. row[s] \in TokenRow
      BY DEF Rows, AccountsInv, AccountsRows
    <2>2. row[s].for \in Token \ raced
      BY <2>1 DEF TokenRow
    <2>3. OnceFor(row[s].for)
      BY <2>2 DEF AccountsInv
    <2>4. QED
      BY <2>3 DEF OnceFor
  <1>2. QED
    BY <1>1, AccountsInvariance, PTL

-------------------------------------------------------------------------------
(***************************************************************************)
(* Subscriptions. A pending creation holds its plan, and whoever reads the *)
(* subscriptions of a user sees all but those made since.                  *)
(***************************************************************************)

SubCreation(s, p) == Both(Insert(s, NewSubscription(p)), Exists(p))

SubCreating == {SubCreation(s, p) : s \in Subscription, p \in Plan}

SubChanging ==
  {Write(s, old, fields, NoField) : s \in Subscription, old \in SubscriptionRow, fields \in SubscriptionFields}

PlanCreating == {Insert(p, input) : p \in Plan, input \in PlanInput}

PlanEditing == {Overwrite(p, edit) : p \in Plan, edit \in PlanEdit}

PlanWriting == PlanCreating \cup PlanEditing

PlanDropping == {Then("drop plan", p) : p \in Plan}

SubQueries == SubCreating \cup SubChanging \cup PlanWriting \cup PlanDropping

\* Who is about to subscribe to a plan had no active subscription when the call looked, and has none
\* as long as no other call writes.
SubClearInv ==
  \A c \in Call, s \in Subscription, p \in Plan :
    todo[c] = <<SubCreation(s, p)>> => s \in crowded \/ ActiveFor(p) = {}

SubscriptionsInv ==
  /\ DOMAIN row = Id /\ SubscriptionsRows(row)
  /\ todo \in OneQuery(SubQueries)
  /\ SubClearInv

\* What SecondIsResumedOrCrowded says of a step.
SecondIsCrowded ==
  \A s \in Subscription, other \in Rows(Subscription) :
    /\ s # other /\ row[other].status = "ACTIVE"
    /\ row[s] = None /\ row'[s] # None /\ row'[s].plan = row[other].plan
    => s \in crowded'

-------------------------------------------------------------------------------
LEMMA SubCreationParts ==
  ASSUME NEW s \in Subscription, NEW p \in Plan, NEW q, q = SubCreation(s, p)
  PROVE  /\ q.do = "write" /\ DOMAIN q.on = {s, p}
         /\ q.on[s] = [saw |-> None, put |-> NewSubscription(p), inc |-> NoField]
         /\ q.on[p] = [saw |-> Unseen, put |-> NoField, inc |-> NoField]
         /\ Inserting(<<q>>) = {s}
  <1> DEFINE first == Insert(s, NewSubscription(p))
  <1>1. DOMAIN first.on = {s} /\ first.on[s] = [saw |-> None, put |-> NewSubscription(p), inc |-> NoField]
    BY DEF Insert, Write
  <1>2. q = Both(first, Write(p, Unseen, NoField, NoField)) /\ p \notin DOMAIN first.on
    BY <1>1, SubscriptionsAssumption DEF SubCreation, Exists, Add
  <1>3. /\ q.do = "write" /\ DOMAIN q.on = {s, p}
        /\ q.on[s] = [saw |-> None, put |-> NewSubscription(p), inc |-> NoField]
        /\ q.on[p] = [saw |-> Unseen, put |-> NoField, inc |-> NoField]
    BY <1>1, <1>2, BothParts
  <1>4. Inserting(<<q>>) = {i \in Id : q.do = "write" /\ i \in DOMAIN q.on /\ q.on[i].saw = None}
    BY InsertingOf
  <1>5. Inserting(<<q>>) = {s}
    BY <1>3, <1>4, UnseenAssumption, SubscriptionsAssumption
  <1>6. QED
    BY <1>3, <1>5

LEMMA SubInsertsOthers ==
  ASSUME NEW q, q.do # "write" \/ \A s \in Subscription : s \in DOMAIN q.on => q.on[s].saw # None
  PROVE  q \notin SubCreating /\ \A s \in Subscription : s \notin Inserting(<<q>>)
  <1>1. \A s \in Subscription : s \notin Inserting(<<q>>)
    BY InsertingOf
  <1>2. ASSUME NEW s \in Subscription, NEW p \in Plan, q = SubCreation(s, p) PROVE FALSE
    <2>1. Inserting(<<q>>) = {s}
      BY <1>2, SubCreationParts
    <2>2. QED
      BY <1>1, <2>1
  <1>3. QED
    BY <1>1, <1>2 DEF SubCreating

LEMMA SubChangingParts ==
  ASSUME NEW q \in SubChanging
  PROVE  /\ q \notin SubCreating /\ \A s \in Subscription : s \notin Inserting(<<q>>)
         /\ \E s \in Subscription, old \in SubscriptionRow, fields \in SubscriptionFields :
              /\ q.do = "write" /\ DOMAIN q.on = {s}
              /\ q.on[s] = [saw |-> old, put |-> fields, inc |-> NoField]
  <1>1. PICK s \in Subscription, old \in SubscriptionRow, fields \in SubscriptionFields :
          q = Write(s, old, fields, NoField)
    BY DEF SubChanging
  <1>2. q.do = "write" /\ DOMAIN q.on = {s} /\ q.on[s] = [saw |-> old, put |-> fields, inc |-> NoField]
    BY <1>1 DEF Write
  <1>3. q \notin SubCreating /\ \A a \in Subscription : a \notin Inserting(<<q>>)
    BY <1>2, SubInsertsOthers, SubscriptionsAssumption
  <1>4. QED
    BY <1>2, <1>3

LEMMA PlanWritingParts ==
  ASSUME NEW q \in PlanWriting
  PROVE  /\ q \notin SubCreating /\ \A s \in Subscription : s \notin Inserting(<<q>>)
         /\ \E p \in Plan, old \in {None, Unseen}, fields \in PlanRow \cup PlanEdit :
              /\ q.do = "write" /\ DOMAIN q.on = {p}
              /\ q.on[p] = [saw |-> old, put |-> fields, inc |-> NoField]
              /\ old = None => fields \in PlanRow
  <1>1. ASSUME NEW p \in Plan, NEW old \in {None, Unseen}, NEW fields \in PlanRow \cup PlanEdit,
               old = None => fields \in PlanRow, q = Write(p, old, fields, NoField)
        PROVE  /\ q \notin SubCreating /\ \A s \in Subscription : s \notin Inserting(<<q>>)
               /\ q.do = "write" /\ DOMAIN q.on = {p}
               /\ q.on[p] = [saw |-> old, put |-> fields, inc |-> NoField]
    <2>1. q.do = "write" /\ DOMAIN q.on = {p} /\ q.on[p] = [saw |-> old, put |-> fields, inc |-> NoField]
      BY <1>1 DEF Write
    <2>2. \A s \in Subscription : s \notin DOMAIN q.on
      BY <2>1, SubscriptionsAssumption
    <2>3. QED
      BY <2>1, <2>2, SubInsertsOthers
  <1>2. CASE q \in PlanCreating
    <2>1. PICK p \in Plan, input \in PlanRow : q = Write(p, None, input, NoField)
      BY <1>2 DEF PlanCreating, PlanInput, Insert
    <2>2. QED
      BY <1>1, <2>1
  <1>3. CASE q \in PlanEditing
    <2>1. PICK p \in Plan, edit \in PlanEdit : q = Write(p, Unseen, edit, NoField)
      BY <1>3 DEF PlanEditing, Overwrite
    <2>2. QED
      BY <1>1, <2>1, UnseenAssumption
  <1>4. QED
    BY <1>2, <1>3 DEF PlanWriting

LEMMA PlanDroppingParts ==
  ASSUME NEW q \in PlanDropping
  PROVE  q.do = "drop plan" /\ q.on \in Plan
         /\ q \notin SubCreating /\ \A s \in Subscription : s \notin Inserting(<<q>>)
  <1>1. PICK p \in Plan : q = Then("drop plan", p)
    BY DEF PlanDropping
  <1>2. q.do = "drop plan" /\ q.on = p
    BY <1>1, ThenParts
  <1>3. QED
    BY <1>2, SubInsertsOthers

\* A subscription, or a plan, after an update is one still.
LEMMA EditedSubscription ==
  ASSUME NEW r \in SubscriptionRow, NEW edit \in SubscriptionFields, NEW old
  PROVE  Applied([saw |-> old, put |-> edit, inc |-> NoField], r) \in SubscriptionRow
  <1> DEFINE s == Applied([saw |-> old, put |-> edit, inc |-> NoField], r)
  <1>1. edit # None /\ r # None
    BY SubscriptionsAssumption
  <1>2. s = [f \in DOMAIN r |-> IF f \in DOMAIN edit THEN edit[f] ELSE r[f]]
    BY <1>1, AppliedIs
  <1>3. DOMAIN r = {"plan", "status", "ends", "cancelled"} /\ r["plan"] \in Plan
        /\ r["status"] \in SubscriptionStatus /\ r["ends"] \in 1..MaxPeriods /\ r["cancelled"] \in BOOLEAN
    BY DEF SubscriptionRow
  <1>4. /\ "plan" \notin DOMAIN edit
        /\ "status" \in DOMAIN edit => edit["status"] \in SubscriptionStatus
        /\ "ends" \in DOMAIN edit => edit["ends"] \in 1..MaxPeriods
        /\ "cancelled" \in DOMAIN edit => edit["cancelled"] \in BOOLEAN
    BY DEF SubscriptionFields
  <1>5. s = [plan |-> s["plan"], status |-> s["status"], ends |-> s["ends"], cancelled |-> s["cancelled"]]
    BY <1>2, <1>3
  <1>6. s["plan"] \in Plan /\ s["status"] \in SubscriptionStatus
    BY <1>2, <1>3, <1>4
  <1>7. s["ends"] \in 1..MaxPeriods
    BY <1>2, <1>3, <1>4
  <1>8. s["cancelled"] \in BOOLEAN
    BY <1>2, <1>3, <1>4
  <1>9. QED
    BY <1>5, <1>6, <1>7, <1>8 DEF SubscriptionRow

LEMMA EditedPlan ==
  ASSUME NEW r \in PlanRow, NEW edit \in PlanRow \cup PlanEdit, NEW old
  PROVE  Applied([saw |-> old, put |-> edit, inc |-> NoField], r) \in PlanRow
  <1> DEFINE s == Applied([saw |-> old, put |-> edit, inc |-> NoField], r)
  <1>1. edit # None /\ r # None
    BY SubscriptionsAssumption
  <1>2. s = [f \in DOMAIN r |-> IF f \in DOMAIN edit THEN edit[f] ELSE r[f]]
    BY <1>1, AppliedIs
  <1>3. DOMAIN r = {"active"} /\ r["active"] \in BOOLEAN
    BY DEF PlanRow
  <1>4. "active" \in DOMAIN edit => edit["active"] \in BOOLEAN
    <2>1. CASE edit \in PlanEdit
      <3>1. PICK fields \in [active : BOOLEAN \cup {None}] : edit = Given(fields)
        BY <2>1 DEF PlanEdit
      <3>2. \A g \in DOMAIN edit : edit[g] = fields[g] /\ fields[g] # None
        BY <3>1, GivenIs
      <3>3. QED
        BY <3>2
    <2>2. QED
      BY <2>1 DEF PlanRow
  <1>5. s = [active |-> s["active"]]
    BY <1>2, <1>3
  <1>6. s["active"] \in BOOLEAN
    BY <1>2, <1>3, <1>4
  <1>7. QED
    BY <1>5, <1>6 DEF PlanRow

-------------------------------------------------------------------------------
\* As long as nobody's active subscriptions come about, what calls are about to insert stays clear.
LEMMA NoneComesAbout ==
  ASSUME SubscriptionsInv, DOMAIN row' = Id, SubscriptionsRows(row'), todo' \in OneQuery(SubQueries),
         \A s \in Subscription : row[s] = None => row'[s] = None,
         \A c \in Call, s \in Subscription, p \in Plan :
           todo'[c] = <<SubCreation(s, p)>> => s \in crowded' \/ ActiveFor(p)' = {}
  PROVE  SubscriptionsInv' /\ SecondIsCrowded
  BY DEF SubscriptionsInv, SubClearInv, SecondIsCrowded

\* The records are as they were.
LEMMA SameSubscriptions ==
  ASSUME SubscriptionsInv, row' = row
  PROVE  /\ DOMAIN row' = Id /\ SubscriptionsRows(row')
         /\ \A s \in Subscription : row[s] = None => row'[s] = None
         /\ \A p \in Plan : ActiveFor(p)' = ActiveFor(p)
  BY DEF SubscriptionsInv, ActiveFor, Subscribed, Rows

LEMMA SubscriptionsQuiet ==
  ASSUME SubscriptionsInv, Quiet, todo' \in OneQuery(SubQueries)
  PROVE  SubscriptionsInv' /\ SecondIsCrowded
  <1>1. ASSUME NEW c \in Call, NEW s \in Subscription, NEW p \in Plan, todo'[c] = <<SubCreation(s, p)>>
        PROVE  s \in crowded' \/ ActiveFor(p)' = {}
    <2>1. <<SubCreation(s, p)>> # <<>>
      OBVIOUS
    <2>2. todo[c] = <<SubCreation(s, p)>>
      BY <1>1, <2>1 DEF Quiet
    <2>3. QED
      BY <2>2, SameSubscriptions DEF SubscriptionsInv, SubClearInv, Quiet
  <1>2. QED
    BY <1>1, NoneComesAbout, SameSubscriptions DEF Quiet

LEMMA SubscriptionsDecide ==
  ASSUME SubscriptionsInv, NEW c \in Call, NEW q \in SubQueries, Decide(c, <<q>>),
         q \notin SubCreating, \A s \in Subscription : s \notin Inserting(<<q>>)
  PROVE  SubscriptionsInv' /\ SecondIsCrowded
  <1>1. todo' \in OneQuery(SubQueries) /\ todo'[c] = <<q>> /\ \A d \in Call \ {c} : todo'[d] = todo[d]
    BY OneQueryDecided DEF SubscriptionsInv
  <1>2. row' = row /\ \A s \in Subscription : s \in crowded' <=> s \in crowded
    BY DecideParts
  <1>3. ASSUME NEW d \in Call, NEW s \in Subscription, NEW p \in Plan, todo'[d] = <<SubCreation(s, p)>>
        PROVE  s \in crowded' \/ ActiveFor(p)' = {}
    <2>1. SubCreation(s, p) \in SubCreating
      BY DEF SubCreating
    <2>2. d # c
      BY <1>1, <1>3, <2>1
    <2>3. todo[d] = <<SubCreation(s, p)>>
      BY <1>1, <1>3, <2>2
    <2>4. QED
      BY <1>2, <2>3, SameSubscriptions DEF SubscriptionsInv, SubClearInv
  <1>4. QED
    BY <1>1, <1>2, <1>3, NoneComesAbout, SameSubscriptions

\* Somebody subscribes to a plan he has no active subscription to.
LEMMA SubscribeDecides ==
  ASSUME SubscriptionsInv, NEW c \in Call, Subscribe(c)
  PROVE  SubscriptionsInv' /\ SecondIsCrowded
  <1>1. PICK s \in Unused(Subscription), p \in Rows(Plan) :
          MaySubscribe(p) /\ Decide(c, <<SubCreation(s, p)>>)
    BY DEF Subscribe, SubCreation
  <1> DEFINE q == SubCreation(s, p)
  <1>2. s \in Subscription /\ p \in Plan /\ ActiveFor(p) = {}
    BY <1>1 DEF Unused, Rows, MaySubscribe
  <1>3. q \in SubQueries
    <2>1. q \in SubCreating
      BY <1>2 DEF SubCreating
    <2>2. QED
      BY <2>1 DEF SubQueries
  <1>4. Inserting(<<q>>) = {s}
    BY <1>2, SubCreationParts
  <1>5. /\ DOMAIN q.on = {s, p} /\ q.on[s] = [saw |-> None, put |-> NewSubscription(p), inc |-> NoField]
        /\ q.on[p] = [saw |-> Unseen, put |-> NoField, inc |-> NoField]
    BY <1>2, SubCreationParts
  <1> HIDE DEF q
  <1>6. todo' \in OneQuery(SubQueries) /\ todo'[c] = <<q>> /\ \A d \in Call \ {c} : todo'[d] = todo[d]
    BY <1>1, <1>3, OneQueryDecided DEF SubscriptionsInv, q
  <1>7. row' = row /\ \A a \in Subscription \ {s} : a \in crowded' <=> a \in crowded
    BY <1>1, <1>4, DecideParts DEF q
  <1>8. ASSUME NEW d \in Call, NEW a \in Subscription, NEW b \in Plan, todo'[d] = <<SubCreation(a, b)>>
        PROVE  a \in crowded' \/ ActiveFor(b)' = {}
    <2> DEFINE r == SubCreation(a, b)
    <2>0. r = SubCreation(a, b)
      OBVIOUS
    <2> HIDE DEF r
    <2>a. r.do = "write" /\ DOMAIN r.on = {a, b}
      BY <2>0, SubCreationParts
    <2>b. /\ r.on[a] = [saw |-> None, put |-> NewSubscription(b), inc |-> NoField]
          /\ r.on[b] = [saw |-> Unseen, put |-> NoField, inc |-> NoField]
      BY <2>0, SubCreationParts
    <2>1. /\ r.do = "write" /\ DOMAIN r.on = {a, b}
          /\ r.on[a] = [saw |-> None, put |-> NewSubscription(b), inc |-> NoField]
          /\ r.on[b] = [saw |-> Unseen, put |-> NoField, inc |-> NoField]
      BY <2>a, <2>b
    <2>2. CASE d = c
      <3>1. r = q
        BY <1>6, <1>8, <2>2 DEF r
      <3>2. b = p
        BY <1>2, <1>5, <2>1, <3>1, UnseenAssumption, SubscriptionsAssumption
      <3>3. QED
        BY <1>2, <1>7, <3>2, SameSubscriptions
    <2>3. CASE d # c
      <3>1. todo[d] = <<r>>
        BY <1>6, <1>8, <2>3 DEF r
      <3>2. s \notin DOMAIN r.on
        BY <2>1, <3>1, UnusedIsFree
      <3>3. a # s
        BY <2>1, <3>2
      <3>4. QED
        BY <1>7, <3>1, <3>3, SameSubscriptions DEF SubscriptionsInv, SubClearInv, r
    <2>4. QED
      BY <2>2, <2>3
  <1>9. QED
    BY <1>6, <1>7, <1>8, NoneComesAbout, SameSubscriptions

LEMMA SubscriptionsMethod ==
  ASSUME SubscriptionsInv, NEW c \in Call, SubscriptionsNext(c), ~Subscribe(c), ~DropPlan(c)
  PROVE  SubscriptionsInv' /\ SecondIsCrowded
  <1>1. ASSUME NEW q \in PlanWriting, Decide(c, <<q>>) PROVE SubscriptionsInv' /\ SecondIsCrowded
    BY <1>1, PlanWritingParts, SubscriptionsDecide DEF SubQueries
  <1>2. ASSUME NEW q \in SubChanging, Decide(c, <<q>>) PROVE SubscriptionsInv' /\ SecondIsCrowded
    BY <1>2, SubChangingParts, SubscriptionsDecide DEF SubQueries
  <1>3. ASSUME NEW q \in PlanDropping, Decide(c, <<q>>) PROVE SubscriptionsInv' /\ SecondIsCrowded
    BY <1>3, PlanDroppingParts, SubscriptionsDecide DEF SubQueries
  <1>4. CASE CreatePlan(c)
    <2>1. PICK p \in Plan, input \in PlanInput : Decide(c, <<Insert(p, input)>>)
      BY <1>4 DEF CreatePlan, Unused
    <2>2. Insert(p, input) \in PlanWriting
      BY DEF PlanWriting, PlanCreating
    <2>3. QED
      BY <1>1, <2>1, <2>2
  <1>5. CASE UpdatePlan(c)
    <2>1. PICK p \in Plan, edit \in PlanEdit : Decide(c, <<Overwrite(p, edit)>>)
      BY <1>5 DEF UpdatePlan, Rows
    <2>2. Overwrite(p, edit) \in PlanWriting
      BY DEF PlanWriting, PlanEditing
    <2>3. QED
      BY <1>1, <2>1, <2>2
  <1>6. CASE DeletePlan(c)
    <2>1. PICK p \in Plan : Decide(c, <<Then("drop plan", p)>>)
      BY <1>6 DEF DeletePlan, Rows
    <2>2. Then("drop plan", p) \in PlanDropping
      BY DEF PlanDropping
    <2>3. QED
      BY <1>3, <2>1, <2>2
  <1>7. ASSUME NEW s \in Rows(Subscription), NEW fields \in SubscriptionFields, Decide(c, <<Put(s, fields)>>)
        PROVE  SubscriptionsInv' /\ SecondIsCrowded
    <2>1. s \in Subscription /\ row[s] \in SubscriptionRow
      BY DEF Rows, SubscriptionsInv, SubscriptionsRows
    <2>2. Put(s, fields) \in SubChanging
      BY <2>1 DEF Put, SubChanging
    <2>3. QED
      BY <1>2, <1>7, <2>2
  <1>8. CASE CancelSubscription(c)
    <2>1. [status |-> "CANCELLED", cancelled |-> TRUE] \in SubscriptionFields
      BY DEF SubscriptionFields, SubscriptionStatus
    <2>2. QED
      BY <1>7, <1>8, <2>1 DEF CancelSubscription, ChangeSubscription
  <1>9. CASE RenewSubscription(c)
    <2>1. PICK s \in Rows(Subscription) :
            row[s].ends < MaxPeriods /\ Decide(c, <<Put(s, [ends |-> row[s].ends + 1])>>)
      BY <1>9 DEF RenewSubscription
    <2>2. row[s].ends \in 1..MaxPeriods
      BY DEF Rows, SubscriptionsInv, SubscriptionsRows, SubscriptionRow
    <2>3. row[s].ends + 1 \in 1..MaxPeriods
      BY <2>1, <2>2, MaxPeriodsAssumption
    <2>4. [ends |-> row[s].ends + 1] \in SubscriptionFields
      BY <2>3 DEF SubscriptionFields
    <2>5. QED
      BY <1>7, <2>1, <2>4
  <1>10. CASE PauseSubscription(c)
    <2>1. [status |-> "PAUSED"] \in SubscriptionFields
      BY DEF SubscriptionFields, SubscriptionStatus
    <2>2. QED
      BY <1>7, <1>10, <2>1 DEF PauseSubscription, ChangeSubscription
  <1>11. CASE ResumeSubscription(c)
    <2>1. [status |-> "ACTIVE"] \in SubscriptionFields
      BY DEF SubscriptionFields, SubscriptionStatus
    <2>2. QED
      BY <1>7, <1>11, <2>1 DEF ResumeSubscription, ChangeSubscription
  <1>12. QED
    BY <1>4, <1>5, <1>6, <1>8, <1>9, <1>10, <1>11 DEF SubscriptionsNext

\* A plan goes.  It has no subscriptions, but somebody may be about to insert one: he will find no plan.
LEMMA DropPlanStep ==
  ASSUME SubscriptionsInv, NEW c \in Call, DropPlan(c)
  PROVE  SubscriptionsInv' /\ SecondIsCrowded
  <1> DEFINE p == Subject(c)
  <1>1. row' = [row EXCEPT ![p] = None] /\ ~Free(c) /\ Head(todo[c]).do = "drop plan"
        /\ todo' = [todo EXCEPT ![c] = <<>> \o Tail(@)]
    BY DEF DropPlan, Perform, At
  <1>2. PICK q \in SubQueries : Head(todo[c]) = q /\ Tail(todo[c]) = <<>>
    BY <1>1, QueryOf DEF SubscriptionsInv
  <1>3. p \in Plan
    <2>1. q.do # "write"
      BY <1>1, <1>2
    <2>2. q \in PlanDropping
      <3>1. ASSUME NEW s \in Subscription, NEW a \in Plan, q = SubCreation(s, a) PROVE q.do = "write"
        BY <3>1, SubCreationParts
      <3>2. q \notin SubCreating
        BY <2>1, <3>1 DEF SubCreating
      <3>3. q \notin SubChanging
        BY <2>1, SubChangingParts
      <3>4. q \notin PlanWriting
        BY <2>1, PlanWritingParts
      <3>5. QED
        BY <3>2, <3>3, <3>4 DEF SubQueries
    <2>3. QED
      BY <1>2, <2>2, PlanDroppingParts DEF Subject
  <1>4. todo' = [todo EXCEPT ![c] = <<>>]
    <2>1. <<>> \o <<>> = <<>>
      OBVIOUS
    <2>2. QED
      BY <1>1, <1>2, <2>1
  <1>5. /\ todo' \in OneQuery(SubQueries)
        /\ todo'[c] = <<>> /\ \A d \in Call \ {c} : todo'[d] = todo[d]
    BY <1>4, OneQueryEnds DEF SubscriptionsInv
  <1> HIDE DEF p
  <1>6. DOMAIN row' = Id /\ SubscriptionsRows(row') /\ \A s \in Subscription : row'[s] = row[s]
    BY <1>1, <1>3, SubscriptionsAssumption DEF SubscriptionsInv, SubscriptionsRows
  <1>7. \A a \in Plan : ActiveFor(a)' = ActiveFor(a)
    BY <1>6 DEF ActiveFor, Subscribed, Rows
  <1>8. \A s \in Subscription : s \in crowded => s \in crowded'
    <2>1. Inserting(<<>>) = {}
      BY DEF Inserting, Writes
    <2>2. QED
      BY <2>1 DEF DropPlan, Perform, Afresh
  <1>9. ASSUME NEW d \in Call, NEW s \in Subscription, NEW a \in Plan, todo'[d] = <<SubCreation(s, a)>>
        PROVE  s \in crowded' \/ ActiveFor(a)' = {}
    <2>1. <<SubCreation(s, a)>> # <<>>
      OBVIOUS
    <2>2. todo[d] = <<SubCreation(s, a)>>
      BY <1>5, <1>9, <2>1
    <2>3. QED
      BY <1>7, <1>8, <2>2 DEF SubscriptionsInv, SubClearInv
  <1>10. QED
    BY <1>5, <1>6, <1>9, NoneComesAbout

\* Every write crowds what other calls are about to insert.
LEMMA SubscriptionsDone ==
  ASSUME Subscription \subseteq Rival, SubscriptionsInv, NEW c \in Call, NEW q \in SubQueries,
         q.do = "write", Done(c, q)
  PROVE  SubscriptionsInv' /\ SecondIsCrowded
  <1>1. row' = [i \in Id |-> IF i \in DOMAIN q.on THEN Applied(q.on[i], row[i]) ELSE row[i]]
        /\ \A i \in DOMAIN q.on : (q.on[i].saw = None) = (row[i] = None)
    BY DEF Done
  <1>2. todo' \in OneQuery(SubQueries) /\ todo'[c] = <<>> /\ \A d \in Call \ {c} : todo'[d] = todo[d]
    BY OneQueryEnds DEF Done, SubscriptionsInv
  <1>3. ASSUME NEW d \in Call, NEW s \in Subscription, NEW p \in Plan, todo'[d] = <<SubCreation(s, p)>>
        PROVE  s \in crowded'
    <2> DEFINE r == SubCreation(s, p)
    <2>0. r = SubCreation(s, p)
      OBVIOUS
    <2>2. <<r>> # <<>>
      OBVIOUS
    <2>3. d # c
      BY <1>2, <1>3, <2>2
    <2>4. todo[d] = <<r>>
      BY <1>2, <1>3, <2>3
    <2> HIDE DEF r
    <2>a. r.do = "write" /\ DOMAIN r.on = {s, p}
      <3>1. r.do = "write"
        BY <2>0, SubCreationParts
      <3>2. DOMAIN r.on = {s, p}
        BY <2>0, SubCreationParts
      <3>3. QED
        BY <3>1, <3>2
    <2>b. r.on[s] = [saw |-> None, put |-> NewSubscription(p), inc |-> NoField]
      BY <2>0, SubCreationParts
    <2>1. r.do = "write" /\ DOMAIN r.on = {s, p} /\ r.on[s] = [saw |-> None, put |-> NewSubscription(p), inc |-> NoField]
      BY <2>a, <2>b
    <2>5. s \in Id \cap Rival /\ s \in DOMAIN r.on /\ r.on[s].saw = None
      BY <2>1, SubscriptionsAssumption
    <2>6. QED
      BY <2>1, <2>3, <2>4, <2>5, DoneCrowds
  <1>4. DOMAIN row' = Id /\ SubClearInv'
    BY <1>1, <1>3 DEF SubClearInv
  <1>5. ASSUME SubscriptionsRows(row'), \A s \in Subscription : row[s] = None => row'[s] = None
        PROVE  SubscriptionsInv' /\ SecondIsCrowded
    BY <1>2, <1>4, <1>5 DEF SubscriptionsInv, SecondIsCrowded
  <1>6. CASE q \in SubCreating
    <2>1. PICK s \in Subscription, p \in Plan : q = SubCreation(s, p)
      BY <1>6 DEF SubCreating
    <2>2. /\ DOMAIN q.on = {s, p}
          /\ q.on[s] = [saw |-> None, put |-> NewSubscription(p), inc |-> NoField]
          /\ q.on[p] = [saw |-> Unseen, put |-> NoField, inc |-> NoField]
      BY <2>1, SubCreationParts
    <2>3. row[s] = None /\ row[p] # None /\ row[p] \in PlanRow
      BY <1>1, <2>2, UnseenAssumption, SubscriptionsAssumption DEF SubscriptionsInv, SubscriptionsRows
    <2>4. NewSubscription(p) \in SubscriptionRow /\ NewSubscription(p).plan = p
      BY MaxPeriodsAssumption DEF NewSubscription, SubscriptionRow, SubscriptionStatus
    <2>5. row'[s] = NewSubscription(p)
      BY <1>1, <2>2, <2>3, <2>4, SubscriptionsAssumption DEF Applied
    <2>6. row'[p] = row[p]
      <3>1. row'[p] = [f \in DOMAIN row[p] |-> IF f \in DOMAIN NoField THEN NoField[f] ELSE row[p][f]]
        BY <1>1, <2>2, <2>3, AppliedIs, SubscriptionsAssumption
      <3>2. DOMAIN NoField = {}
        BY DEF NoField
      <3>3. QED
        BY <2>3, <3>1, <3>2 DEF PlanRow
    <2>7. \A i \in (Plan \cup Subscription) \ {s, p} : row'[i] = row[i]
      BY <1>1, <2>2, SubscriptionsAssumption
    <2>8. SubscriptionsRows(row')
      BY <2>3, <2>4, <2>5, <2>6, <2>7, SubscriptionsAssumption DEF SubscriptionsInv, SubscriptionsRows
    <2>9. s \in crowded \/ ActiveFor(p) = {}
      BY <2>1 DEF Done, SubscriptionsInv, SubClearInv
    <2>10. crowded \subseteq crowded'
      BY DEF Done
    <2>11. SecondIsCrowded
      <3>1. SUFFICES ASSUME NEW a \in Subscription, NEW other \in Rows(Subscription),
                            row[other].status = "ACTIVE", row[a] = None, row'[a] # None,
                            row'[a].plan = row[other].plan
                     PROVE  a \in crowded'
        BY DEF SecondIsCrowded
      <3>2. a = s
        BY <2>7, <3>1, SubscriptionsAssumption
      <3>3. row[other].plan = p
        BY <2>4, <2>5, <3>1, <3>2
      <3>4. other \in ActiveFor(p)
        BY <3>1, <3>3 DEF ActiveFor, Subscribed
      <3>5. QED
        BY <2>9, <2>10, <3>2, <3>4
    <2>12. QED
      BY <1>2, <1>4, <2>8, <2>11 DEF SubscriptionsInv
  <1>7. CASE q \in SubChanging
    <2>1. PICK s \in Subscription, old \in SubscriptionRow, fields \in SubscriptionFields :
            DOMAIN q.on = {s} /\ q.on[s] = [saw |-> old, put |-> fields, inc |-> NoField]
      BY <1>7, SubChangingParts
    <2>2. row[s] \in SubscriptionRow /\ row[s] # None
      BY <1>1, <2>1, SubscriptionsAssumption DEF SubscriptionsInv, SubscriptionsRows
    <2>3. row'[s] = Applied([saw |-> old, put |-> fields, inc |-> NoField], row[s])
      BY <1>1, <2>1, SubscriptionsAssumption
    <2>4. row'[s] \in SubscriptionRow
      BY <2>2, <2>3, EditedSubscription
    <2>5. \A i \in (Plan \cup Subscription) \ {s} : row'[i] = row[i]
      BY <1>1, <2>1, SubscriptionsAssumption
    <2>6. SubscriptionsRows(row')
      BY <2>4, <2>5, SubscriptionsAssumption DEF SubscriptionsInv, SubscriptionsRows
    <2>7. QED
      BY <1>5, <2>2, <2>5, <2>6
  <1>8. CASE q \in PlanWriting
    <2>1. PICK p \in Plan, old \in {None, Unseen}, fields \in PlanRow \cup PlanEdit :
              /\ DOMAIN q.on = {p}
              /\ q.on[p] = [saw |-> old, put |-> fields, inc |-> NoField]
              /\ old = None => fields \in PlanRow
      BY <1>8, PlanWritingParts
    <2>2. row'[p] = Applied([saw |-> old, put |-> fields, inc |-> NoField], row[p])
      BY <1>1, <2>1, SubscriptionsAssumption
    <2>3. row'[p] \in PlanRow
      <3>1. CASE row[p] = None
        <4>1. fields \in PlanRow
          BY <1>1, <2>1, <3>1
        <4>2. QED
          BY <2>2, <3>1, <4>1, SubscriptionsAssumption DEF Applied
      <3>2. CASE row[p] # None
        <4>1. row[p] \in PlanRow
          BY <3>2 DEF SubscriptionsInv, SubscriptionsRows
        <4>2. QED
          BY <2>2, <4>1, EditedPlan
      <3>3. QED
        BY <3>1, <3>2
    <2>4. \A i \in (Plan \cup Subscription) \ {p} : row'[i] = row[i]
      BY <1>1, <2>1, SubscriptionsAssumption
    <2>5. SubscriptionsRows(row')
      BY <2>3, <2>4, SubscriptionsAssumption DEF SubscriptionsInv, SubscriptionsRows
    <2>6. QED
      BY <1>5, <2>4, <2>5, SubscriptionsAssumption
  <1>9. QED
    BY <1>6, <1>7, <1>8, PlanDroppingParts DEF SubQueries

LEMMA SubscriptionsStart ==
  CallsInit(NoField) => SubscriptionsInv
  <1> SUFFICES ASSUME CallsInit(NoField) PROVE SubscriptionsInv
    OBVIOUS
  <1>1. row = [i \in Id |-> None] /\ todo = [c \in Call |-> <<>>]
    BY DEF CallsInit, NoField
  <1>2. DOMAIN row = Id /\ SubscriptionsRows(row)
    BY <1>1, SubscriptionsAssumption DEF SubscriptionsRows
  <1>3. todo \in OneQuery(SubQueries)
    BY <1>1 DEF OneQuery
  <1>4. SubClearInv
    <2>1. \A s, p : <<>> # <<SubCreation(s, p)>>
      OBVIOUS
    <2>2. QED
      BY <1>1, <2>1 DEF SubClearInv
  <1>5. QED
    BY <1>2, <1>3, <1>4 DEF SubscriptionsInv

LEMMA SubscriptionsStep ==
  ASSUME Subscription \subseteq Rival, SubscriptionsInv,
         [(\E c \in Call : SubscriptionsNext(c) \/ Step(c)) \/ Restart]_vars
  PROVE  SubscriptionsInv' /\ [SecondIsCrowded]_vars
  <1>1. ASSUME NEW c \in Call, SubscriptionsNext(c) PROVE SubscriptionsInv' /\ SecondIsCrowded
    BY <1>1, SubscribeDecides, DropPlanStep, SubscriptionsMethod
  <1>2. CASE [(\E c \in Call : Step(c)) \/ Restart]_vars
    <2>1. /\ todo' \in OneQuery(SubQueries)
          /\ Quiet \/ \E c \in Call, q \in SubQueries : q.do = "write" /\ Done(c, q)
      BY <1>2, OneQueryDone DEF SubscriptionsInv
    <2>2. QED
      BY <2>1, SubscriptionsQuiet, SubscriptionsDone
  <1>3. QED
    BY <1>1, <1>2

-------------------------------------------------------------------------------
\* Plans and subscriptions have the values their columns take, and a subscription is renewed one
\* period at a time.
THEOREM SubscriptionsTypeCorrect ==
  ASSUME Subscription \subseteq Rival
  PROVE  SubscriptionsSpec => []SubscriptionsRows(row)
  <1>1. SubscriptionsInv => SubscriptionsRows(row)
    BY DEF SubscriptionsInv
  <1>2. QED
    BY <1>1, SubscriptionsStart, SubscriptionsStep, PTL DEF SubscriptionsSpec

\* Asking for an active subscription before inserting one keeps a second away, unless another call
\* wrote in between.
THEOREM SecondIsCrowdedOnly ==
  ASSUME Subscription \subseteq Rival
  PROVE  SubscriptionsSpec => SecondIsResumedOrCrowded
  <1>1. [SecondIsCrowded]_vars <=>
        [\A s \in Subscription, other \in Rows(Subscription) :
           /\ s # other /\ row[other].status = "ACTIVE"
           /\ row[s] = None /\ row'[s] # None /\ row'[s].plan = row[other].plan
           => s \in crowded']_vars
    BY DEF SecondIsCrowded
  <1>2. QED
    BY <1>1, SubscriptionsStart, SubscriptionsStep, PTL DEF SubscriptionsSpec, SecondIsResumedOrCrowded

-------------------------------------------------------------------------------
(***************************************************************************)
(* Pricing. What rules come to is a fold over their order: what holds of   *)
(* the prices before a rule and after it holds of all.                     *)
(***************************************************************************)

\* A change of the record i that keeps its type.
PricingWrite(i, w) ==
  \/ i \in Tariff /\ w.saw # None /\ w.inc = NoField /\ w.put \in TariffRow \cup {NoField}
  \/ i \in Rule /\ w.saw = None /\ w.put \in RuleRow
  \/ i \in Rule /\ w.saw # None /\ w.inc = NoField /\ w.put \in RuleEdit \cup [active : BOOLEAN] \cup {None}

\* The queries: changes of that kind, a tariff to insert, and the deletion of one.
PricingQuery(q) ==
  \/ q.do = "write" /\ \A i \in DOMAIN q.on : PricingWrite(i, q.on[i])
  \/ q.do = "price" /\ q.on \in TariffRow
  \/ q.do = "drop tariff"

PricingInv ==
  /\ DOMAIN row = Id /\ PricingRows(row)
  /\ todo = [c \in Call |-> todo[c]]
  /\ \A c \in Call : todo[c] = <<>> \/ \E q : todo[c] = <<q>> /\ PricingQuery(q)

-------------------------------------------------------------------------------
LEMMA RuleEdits ==
  ASSUME NEW edit \in RuleEdit \cup [active : BOOLEAN]
  PROVE  /\ edit # None /\ DOMAIN edit \subseteq {"terms", "active"}
         /\ "terms" \in DOMAIN edit => edit["terms"] \in Terms
         /\ "active" \in DOMAIN edit => edit["active"] \in BOOLEAN
  <1>1. CASE edit \in RuleEdit
    <2>1. PICK fields \in RuleFields : edit = Given(fields)
      BY <1>1 DEF RuleEdit
    <2>2. DOMAIN fields = {"terms", "active"} /\ fields["terms"] \in Terms /\ fields["active"] \in BOOLEAN \cup {None}
      BY DEF RuleFields
    <2>3. DOMAIN edit = {g \in {"terms", "active"} : fields[g] # None}
      BY <2>1, <2>2, GivenIs
    <2>4. \A g \in DOMAIN edit : edit[g] = fields[g] /\ fields[g] # None
      BY <2>1, GivenIs
    <2>5. edit # None
      BY <1>1, PricingAssumption DEF RuleEdit
    <2>6. QED
      BY <2>2, <2>3, <2>4, <2>5
  <1>2. CASE edit \in [active : BOOLEAN]
    BY <1>2, PricingAssumption
  <1>3. QED
    BY <1>1, <1>2

\* Such a change keeps the type.
LEMMA PricingChange ==
  ASSUME PricingRows(row), NEW i, NEW w, PricingWrite(i, w), (w.saw = None) = (row[i] = None),
         NEW s, s = Applied(w, row[i])
  PROVE  /\ i \in Tariff => s \in TariffRow \cup {None}
         /\ i \in Rule => s \in RuleRow \cup {None}
  <1> USE PricingAssumption
  <1>0. DOMAIN NoField = {}
    BY DEF NoField
  <1>1. CASE i \in Tariff /\ w.saw # None /\ w.inc = NoField /\ w.put \in TariffRow \cup {NoField}
    <2>1. row[i] # None /\ row[i] \in TariffRow
      BY <1>1 DEF PricingRows
    <2>2. w.put # None /\ DOMAIN w.put \subseteq {"rate"} /\ \A f \in DOMAIN w.put : w.put[f] \in Rate
      BY <1>0, <1>1 DEF TariffRow
    <2>3. s = [f \in DOMAIN row[i] |-> IF f \in DOMAIN w.put THEN w.put[f] ELSE row[i][f]]
      BY <1>0, <1>1, <2>1, <2>2 DEF Applied
    <2>4. s \in TariffRow
      BY <2>1, <2>2, <2>3 DEF TariffRow
    <2>5. QED
      BY <1>1, <2>4
  <1>2. CASE i \in Rule /\ w.saw = None /\ w.put \in RuleRow
    <2>1. s = w.put
      BY <1>2 DEF Applied
    <2>2. QED
      BY <1>2, <2>1
  <1>3. CASE i \in Rule /\ w.saw # None /\ w.inc = NoField /\ w.put \in RuleEdit \cup [active : BOOLEAN] \cup {None}
    <2>1. row[i] # None /\ row[i] \in RuleRow
      BY <1>3 DEF PricingRows
    <2>2. CASE w.put = None
      BY <1>3, <2>2 DEF Applied
    <2>3. CASE w.put # None
      <3> DEFINE put == w.put
      <3>1. /\ DOMAIN put \subseteq {"terms", "active"}
            /\ "terms" \in DOMAIN put => put["terms"] \in Terms
            /\ "active" \in DOMAIN put => put["active"] \in BOOLEAN
        BY <1>3, <2>3, RuleEdits
      <3>2. s = [f \in DOMAIN row[i] |-> IF f \in DOMAIN put THEN put[f] ELSE row[i][f]]
        BY <1>0, <1>3, <2>1, <2>3 DEF Applied
      <3> HIDE DEF put
      <3>3. DOMAIN row[i] = {"tariff", "terms", "active", "time"} /\ row[i]["tariff"] \in Tariff
            /\ row[i]["terms"] \in Terms /\ row[i]["active"] \in BOOLEAN /\ row[i]["time"] \in {"early", "now", "late"}
        BY <2>1 DEF RuleRow
      <3>4. s = [tariff |-> s["tariff"], terms |-> s["terms"], active |-> s["active"], time |-> s["time"]]
        BY <3>2, <3>3
      <3>5. s["tariff"] \in Tariff /\ s["time"] \in {"early", "now", "late"}
        BY <3>1, <3>2, <3>3
      <3>6. s["terms"] \in Terms /\ s["active"] \in BOOLEAN
        BY <3>1, <3>2, <3>3
      <3>7. s \in RuleRow
        BY <3>4, <3>5, <3>6 DEF RuleRow
      <3>8. QED
        BY <1>3, <3>7
    <2>4. QED
      BY <2>2, <2>3
  <1>4. QED
    BY <1>1, <1>2, <1>3 DEF PricingWrite

-------------------------------------------------------------------------------
(* The steps *)

LEMMA PricingQuiet ==
  ASSUME PricingInv, Quiet, todo' = [d \in Call |-> todo'[d]]
  PROVE  PricingInv'
  <1>1. DOMAIN row' = Id /\ PricingRows(row')
    BY DEF Quiet, PricingInv, PricingRows
  <1>2. \A c \in Call : todo'[c] = <<>> \/ \E q : todo'[c] = <<q>> /\ PricingQuery(q)
    BY DEF Quiet, PricingInv
  <1>3. QED
    BY <1>1, <1>2 DEF PricingInv

\* A call that decides on one query leaves the records alone.
LEMMA PricingDecide ==
  ASSUME PricingInv, NEW c \in Call, NEW q, PricingQuery(q), Decide(c, <<q>>)
  PROVE  PricingInv'
  <1>1. row' = row /\ todo' = [todo EXCEPT ![c] = <<q>>]
    BY DecideParts
  <1>2. todo' = [d \in Call |-> todo'[d]] /\ todo'[c] = <<q>> /\ \A d \in Call \ {c} : todo'[d] = todo[d]
    BY <1>1 DEF PricingInv
  <1>3. DOMAIN row' = Id /\ PricingRows(row')
    BY <1>1 DEF PricingInv, PricingRows
  <1>4. QED
    BY <1>2, <1>3 DEF PricingInv

\* A call that has done its query is over.
LEMMA PricingGoesBy ==
  ASSUME PricingInv, NEW c \in Call, ~Free(c), todo' = [todo EXCEPT ![c] = Tail(todo[c])]
  PROVE  /\ todo' = [d \in Call |-> todo'[d]]
         /\ \A d \in Call : todo'[d] = <<>> \/ \E q : todo'[d] = <<q>> /\ PricingQuery(q)
         /\ PricingQuery(Head(todo[c])) /\ Tail(todo[c]) = <<>>
  <1>1. PICK q : todo[c] = <<q>> /\ PricingQuery(q)
    BY DEF PricingInv, Free
  <1>2. Head(<<q>>) = q /\ Tail(<<q>>) = <<>>
    OBVIOUS
  <1>3. todo' = [d \in Call |-> todo'[d]] /\ todo'[c] = <<>> /\ \A d \in Call \ {c} : todo'[d] = todo[d]
    BY <1>1, <1>2 DEF PricingInv
  <1>4. QED
    BY <1>1, <1>2, <1>3 DEF PricingInv

LEMMA PricingDone ==
  ASSUME PricingInv, NEW c \in Call, NEW q, Did(c, q)
  PROVE  PricingInv'
  <1>1. ~Free(c) /\ q = Head(todo[c]) /\ q.do = "write" /\ todo' = [todo EXCEPT ![c] = Tail(todo[c])]
    BY DEF Did
  <1>2. \A i \in DOMAIN q.on : PricingWrite(i, q.on[i])
    BY <1>1, PricingGoesBy DEF PricingQuery
  <1>3. /\ row' = [i \in Id |-> IF i \in DOMAIN q.on THEN Applied(q.on[i], row[i]) ELSE row[i]]
        /\ \A i \in DOMAIN q.on : (q.on[i].saw = None) = (row[i] = None)
    BY DEF Did
  <1>4. PricingRows(row) /\ Tariff \cup Rule \subseteq Id
    BY PricingAssumption DEF PricingInv
  <1>5. ASSUME NEW i \in Id, i \in DOMAIN q.on
        PROVE  /\ i \in Tariff => row'[i] \in TariffRow \cup {None}
               /\ i \in Rule => row'[i] \in RuleRow \cup {None}
    <2> DEFINE w == q.on[i]
               s == Applied(w, row[i])
    <2>1. PricingWrite(i, w) /\ (w.saw = None) = (row[i] = None) /\ s = Applied(w, row[i]) /\ row'[i] = s
      BY <1>2, <1>3, <1>5
    <2>2. (i \in Tariff => s \in TariffRow \cup {None}) /\ (i \in Rule => s \in RuleRow \cup {None})
      <3> HIDE DEF w, s
      <3>1. QED
        BY <1>4, <2>1, PricingChange
    <2>3. QED
      BY <2>1, <2>2
  <1>6. DOMAIN row' = Id /\ \A i \in Id : i \notin DOMAIN q.on => row'[i] = row[i]
    BY <1>3
  <1>7. PricingRows(row')
    BY <1>4, <1>5, <1>6 DEF PricingRows
  <1>8. QED
    BY <1>1, <1>6, <1>7, PricingGoesBy DEF PricingInv

LEMMA InsertPricingStep ==
  ASSUME PricingInv, NEW c \in Call, InsertPricing(c)
  PROVE  PricingInv'
  <1>1. PICK t \in Unused(Tariff) : Perform(c, "price", t, Subject(c), <<>>)
    BY DEF InsertPricing
  <1>2. /\ ~Free(c) /\ Head(todo[c]).do = "price" /\ row' = [row EXCEPT ![t] = Head(todo[c]).on]
        /\ todo' = [todo EXCEPT ![c] = <<>> \o Tail(@)]
    BY <1>1 DEF Perform, At, Subject
  <1>3. Tail(todo[c]) = <<>> /\ PricingQuery(Head(todo[c]))
    <2>1. PICK q : todo[c] = <<q>> /\ PricingQuery(q)
      BY <1>2 DEF PricingInv, Free
    <2>2. QED
      BY <2>1
  <1>4. todo' = [todo EXCEPT ![c] = Tail(todo[c])]
    BY <1>2, <1>3
  <1>5. Head(todo[c]).on \in TariffRow
    BY <1>2, <1>3 DEF PricingQuery
  <1>6. t \in Tariff
    BY DEF Unused
  <1>7. DOMAIN row' = Id /\ PricingRows(row')
    BY <1>2, <1>5, <1>6, PricingAssumption DEF PricingInv, PricingRows
  <1>8. QED
    BY <1>2, <1>4, <1>7, PricingGoesBy DEF PricingInv

LEMMA DropPricingStep ==
  ASSUME PricingInv, NEW c \in Call, DropPricing(c)
  PROVE  PricingInv'
  <1> DEFINE t == Subject(c)
  <1>1. /\ ~Free(c) /\ todo' = [todo EXCEPT ![c] = <<>>]
        /\ row' = [i \in Id |-> IF i = t \/ (i \in Rows(Rule) /\ row[i].tariff = t) THEN None ELSE row[i]]
    BY DEF DropPricing, At
  <1> HIDE DEF t
  <1>2. DOMAIN row' = Id /\ PricingRows(row')
    BY <1>1, PricingAssumption DEF PricingInv, PricingRows
  <1>3. todo' = [d \in Call |-> todo'[d]] /\ todo'[c] = <<>> /\ \A d \in Call \ {c} : todo'[d] = todo[d]
    BY <1>1 DEF PricingInv
  <1>4. QED
    BY <1>2, <1>3 DEF PricingInv

LEMMA TimePassesStep ==
  ASSUME PricingInv, TimePasses
  PROVE  PricingInv'
  <1>1. PICK r \in Rule : RuleGoesOn(r)
    BY DEF TimePasses
  <1>2. row[r] \in RuleRow
    BY <1>1, PricingAssumption DEF RuleGoesOn, PricingInv, PricingRows
  <1>3. PICK time \in {"now", "late"} : row' = [row EXCEPT ![r] = [row[r] EXCEPT !.time = time]] /\ todo' = todo
    BY <1>1 DEF RuleGoesOn, Outside
  <1>4. [row[r] EXCEPT !.time = time] \in RuleRow
    BY <1>2, <1>3 DEF RuleRow
  <1>5. DOMAIN row' = Id /\ PricingRows(row')
    BY <1>3, <1>4, PricingAssumption DEF PricingInv, PricingRows
  <1>6. QED
    BY <1>3, <1>5 DEF PricingInv

-------------------------------------------------------------------------------
(* The methods *)

LEMMA OnePricingWrite ==
  ASSUME NEW i, NEW old, NEW fields, NEW q, q = Write(i, old, fields, NoField),
         PricingWrite(i, [saw |-> old, put |-> fields, inc |-> NoField])
  PROVE  PricingQuery(q)
  <1> DEFINE w == [saw |-> old, put |-> fields, inc |-> NoField]
  <1>1. q.do = "write" /\ DOMAIN q.on = {i} /\ q.on[i] = w
    BY DEF Write
  <1> HIDE DEF w
  <1>2. QED
    BY <1>1 DEF PricingQuery, w

\* An update of a record that is there, or that the call did not look at.
LEMMA PricingEdit ==
  ASSUME NEW i, NEW old, old # None, NEW fields, NEW q, q = Write(i, old, fields, NoField),
         \/ i \in Tariff /\ fields \in TariffRow
         \/ i \in Rule /\ fields \in RuleEdit \cup [active : BOOLEAN] \cup {None}
  PROVE  PricingQuery(q)
  <1> DEFINE w == [saw |-> old, put |-> fields, inc |-> NoField]
  <1>1. w.saw # None /\ w.inc = NoField /\ w.put = fields
    OBVIOUS
  <1> HIDE DEF w
  <1>2. PricingWrite(i, w)
    BY <1>1 DEF PricingWrite
  <1>3. QED
    BY <1>2, OnePricingWrite DEF w

LEMMA RuleCreation ==
  ASSUME NEW r \in Rule, NEW input \in RuleRow, NEW t \in Tariff, NEW q, q = Both(Insert(r, input), Exists(t))
  PROVE  PricingQuery(q)
  <1> DEFINE first == Insert(r, input)
             w == [saw |-> None, put |-> input, inc |-> NoField]
             v == [saw |-> Unseen, put |-> NoField, inc |-> NoField]
  <1>1. DOMAIN first.on = {r} /\ first.on[r] = w
    BY DEF Insert, Write
  <1>2. q = Both(first, Write(t, Unseen, NoField, NoField))
    BY DEF Exists, Add
  <1>3. PricingWrite(r, w) /\ PricingWrite(t, v)
    BY UnseenAssumption DEF PricingWrite
  <1>4. v = [saw |-> Unseen, put |-> NoField, inc |-> NoField]
    OBVIOUS
  <1> HIDE DEF first, w, v
  <1>5. t \notin DOMAIN first.on
    BY <1>1, PricingAssumption
  <1>6. q.do = "write" /\ DOMAIN q.on = {r, t}
    BY <1>1, <1>2, <1>4, <1>5, BothParts
  <1>7. q.on[t] = v
    BY <1>2, <1>4, <1>5, BothParts
  <1>8. q.on[r] = w
    BY <1>1, <1>2, <1>4, <1>5, BothParts
  <1>9. QED
    BY <1>3, <1>6, <1>7, <1>8 DEF PricingQuery

LEMMA PricingMethod ==
  ASSUME PricingInv, NEW c \in Call, PricingNext(c)
  PROVE  PricingInv'
  <1>1. CASE CreatePricing(c)
    <2>1. PICK rate \in Rate : Decide(c, <<Then("price", [rate |-> rate])>>)
      BY <1>1 DEF CreatePricing
    <2> DEFINE q == Then("price", [rate |-> rate])
    <2>2. q.do = "price" /\ q.on = [rate |-> rate] /\ Decide(c, <<q>>)
      BY <2>1 DEF Then
    <2> HIDE DEF q
    <2>3. PricingQuery(q)
      BY <2>2 DEF PricingQuery, TariffRow
    <2>4. QED
      BY <2>2, <2>3, PricingDecide
  <1>2. CASE UpdatePricing(c)
    <2>1. PICK t \in Rows(Tariff) : \E rate \in Rate : Decide(c, <<Overwrite(t, [rate |-> rate])>>)
      BY <1>2 DEF UpdatePricing
    <2>2. PICK rate \in Rate : Decide(c, <<Overwrite(t, [rate |-> rate])>>)
      BY <2>1
    <2> DEFINE q == Overwrite(t, [rate |-> rate])
    <2>3. q = Write(t, Unseen, [rate |-> rate], NoField) /\ [rate |-> rate] \in TariffRow /\ t \in Tariff
      BY DEF Overwrite, TariffRow, Rows
    <2> HIDE DEF q
    <2>4. PricingQuery(q)
      BY <2>3, PricingEdit, UnseenAssumption
    <2>5. QED
      BY <2>2, <2>4, PricingDecide DEF q
  <1>3. CASE DeletePricing(c)
    <2>1. PICK t \in Rows(Tariff) : Decide(c, <<Then("drop tariff", t)>>)
      BY <1>3 DEF DeletePricing
    <2> DEFINE q == Then("drop tariff", t)
    <2>2. q.do = "drop tariff" /\ Decide(c, <<q>>)
      BY <2>1 DEF Then
    <2> HIDE DEF q
    <2>3. QED
      BY <2>2, PricingDecide DEF PricingQuery
  <1>4. CASE CreateRule(c)
    <2>1. PICK r \in Unused(Rule), t \in Rows(Tariff) :
            \E input \in RuleInput(t) : Decide(c, <<Both(Insert(r, input), Exists(t))>>)
      BY <1>4 DEF CreateRule
    <2>2. PICK input \in RuleInput(t) : Decide(c, <<Both(Insert(r, input), Exists(t))>>)
      BY <2>1
    <2> DEFINE q == Both(Insert(r, input), Exists(t))
    <2>3. r \in Rule /\ t \in Tariff /\ input \in RuleRow /\ q = Both(Insert(r, input), Exists(t))
      BY DEF Unused, Rows, RuleInput, RuleRow
    <2> HIDE DEF q
    <2>4. PricingQuery(q)
      BY <2>3, RuleCreation
    <2>5. QED
      BY <2>2, <2>4, PricingDecide DEF q
  <1>5. CASE UpdateRule(c)
    <2>1. PICK r \in Rows(Rule), edit \in RuleEdit : Decide(c, <<Overwrite(r, edit)>>)
      BY <1>5 DEF UpdateRule
    <2> DEFINE q == Overwrite(r, edit)
    <2>2. q = Write(r, Unseen, edit, NoField) /\ r \in Rule
      BY DEF Overwrite, Rows
    <2> HIDE DEF q
    <2>3. PricingQuery(q)
      BY <2>2, PricingEdit, UnseenAssumption
    <2>4. QED
      BY <2>1, <2>3, PricingDecide DEF q
  <1>6. CASE DeleteRule(c)
    <2>1. PICK r \in Rows(Rule) : Decide(c, <<Delete(r)>>)
      BY <1>6 DEF DeleteRule
    <2> DEFINE q == Delete(r)
    <2>2. q = Write(r, row[r], None, NoField) /\ r \in Rule /\ row[r] # None
      BY DEF Delete, Put, Rows
    <2> HIDE DEF q
    <2>3. PricingQuery(q)
      BY <2>2, PricingEdit
    <2>4. QED
      BY <2>1, <2>3, PricingDecide DEF q
  <1>7. CASE ToggleRule(c)
    <2>1. PICK r \in Rows(Rule) : Decide(c, <<Put(r, [active |-> ~row[r].active])>>)
      BY <1>7 DEF ToggleRule
    <2> DEFINE q == Put(r, [active |-> ~row[r].active])
               put == [active |-> ~row[r].active]
    <2>2. q = Write(r, row[r], put, NoField) /\ r \in Rule /\ row[r] # None
      BY DEF Put, Rows
    <2>3. put \in [active : BOOLEAN]
      OBVIOUS
    <2> HIDE DEF q, put
    <2>4. PricingQuery(q)
      BY <2>2, <2>3, PricingEdit
    <2>5. QED
      BY <2>1, <2>4, PricingDecide DEF q
  <1>8. QED
    BY <1>1, <1>2, <1>3, <1>4, <1>5, <1>6, <1>7, InsertPricingStep, DropPricingStep DEF PricingNext

LEMMA PricingStep ==
  ASSUME PricingInv, [(\E c \in Call : PricingNext(c) \/ Step(c)) \/ TimePasses \/ Restart]_vars
  PROVE  PricingInv'
  <1>1. CASE [(\E c \in Call : Step(c)) \/ Restart]_vars
    <2> DEFINE S == {todo[c] : c \in Call} \cup {<<>>}
    <2>1. todo \in [Call -> S] /\ <<>> \in S
      <3>1. todo = [c \in Call |-> todo[c]]
        BY DEF PricingInv
      <3>2. QED
        BY <3>1
    <2> HIDE DEF S
    <2>2. \/ Quiet /\ todo' \in [Call -> S]
          \/ \E c \in Call : \E q : Did(c, q)
      BY <1>1, <2>1, StepIsDone
    <2>3. QED
      BY <2>2, PricingQuiet, PricingDone
  <1>2. QED
    BY <1>1, PricingMethod, TimePassesStep

LEMMA PricingInvariance == PricingSpec => []PricingInv
  <1>1. CallsInit(NoField) => PricingInv
    <2> SUFFICES ASSUME CallsInit(NoField) PROVE PricingInv
      OBVIOUS
    <2>1. DOMAIN NoField = {}
      BY DEF NoField
    <2>2. row = [i \in Id |-> None] /\ todo = [c \in Call |-> <<>>]
      BY <2>1 DEF CallsInit
    <2>3. DOMAIN row = Id /\ PricingRows(row)
      BY <2>2, PricingAssumption DEF PricingRows
    <2>4. QED
      BY <2>2, <2>3 DEF PricingInv
  <1>2. PricingInv /\ [(\E c \in Call : PricingNext(c) \/ Step(c)) \/ TimePasses \/ Restart]_vars => PricingInv'
    BY PricingStep
  <1>3. QED
    BY <1>1, <1>2, PTL DEF PricingSpec

\* A tariff and its rules have the values their columns take.
THEOREM PricingTypeCorrect == PricingSpec => []PricingRows(row)
  <1>1. PricingInv => PricingRows(row)
    BY DEF PricingInv
  <1>2. QED
    BY <1>1, PricingInvariance, PTL
-------------------------------------------------------------------------------
(* Arithmetic *)

LEMMA ProductGrows ==
  ASSUME NEW a \in Nat, NEW b \in Nat, NEW c \in Nat, a <= b
  PROVE  a * c \in Nat /\ a * c <= b * c
  <1>1. (b - a) \in Nat /\ b = a + (b - a)
    OBVIOUS
  <1>2. (b - a) * c \in Nat
    BY <1>1
  <1>3. b * c = a * c + (b - a) * c
    BY <1>1
  <1>4. QED
    BY <1>2, <1>3

LEMMA QuotientIs ==
  ASSUME NEW a \in Nat, NEW b \in Nat, b > 0, NEW x, x = a \div b
  PROVE  x \in Nat /\ b * x <= a
  OBVIOUS

LEMMA FactorsCompare ==
  ASSUME NEW s \in Nat, s > 0, NEW a \in Nat, NEW b \in Nat, s * a <= s * b
  PROVE  a <= b
  <1> SUFFICES ASSUME b < a PROVE FALSE
    OBVIOUS
  <1>1. b + 1 <= a /\ b + 1 \in Nat
    OBVIOUS
  <1>2. (b + 1) * s <= a * s
    BY <1>1, ProductGrows
  <1>3. (b + 1) * s = b * s + s /\ a * s = s * a /\ b * s = s * b
    OBVIOUS
  <1>4. b * s \in Nat /\ a * s \in Nat
    OBVIOUS
  <1>5. QED
    BY <1>2, <1>3, <1>4

\* A part of no more than the whole.
LEMMA TimesIs ==
  ASSUME NEW p \in Nat, p <= 100, NEW cost \in Nat, NEW x, x = Times(p, cost)
  PROVE  x \in Nat /\ x <= cost
  <1>1. p * cost \in Nat /\ p * cost <= 100 * cost
    BY ProductGrows
  <1>2. x \in Nat /\ 100 * x <= p * cost
    <2> DEFINE a == p * cost
    <2>1. a \in Nat /\ x = a \div 100
      BY <1>1 DEF Times
    <2> HIDE DEF a
    <2>2. x \in Nat /\ 100 * x <= a
      BY <2>1
    <2>3. QED
      BY <2>2 DEF a
  <1>3. QED
    BY <1>1, <1>2

\* Two parts that are cut in proportion to no more than the cap.
LEMMA CutsAreIn ==
  ASSUME NEW d \in Nat, NEW e \in Nat, NEW cap \in Nat, d + e > cap,
         NEW x, x = (d * cap) \div (d + e), NEW y, y = (e * cap) \div (d + e)
  PROVE  x \in Nat /\ y \in Nat /\ x <= d /\ y <= e /\ x + y <= cap
  <1> DEFINE s == d + e
             a == d * cap
             b == e * cap
  <1>1. s \in Nat /\ s > 0 /\ cap <= s
    OBVIOUS
  <1>2. a \in Nat /\ b \in Nat
    BY ProductGrows
  <1>3. a + b = s * cap
    OBVIOUS
  <1>4. cap * d <= s * d /\ cap * e <= s * e
    BY <1>1, ProductGrows
  <1>5. a <= s * d /\ b <= s * e
    BY <1>4
  <1>6. x = a \div s /\ y = b \div s
    OBVIOUS
  <1> HIDE DEF s, a, b
  <1>7. x \in Nat /\ s * x <= a /\ y \in Nat /\ s * y <= b
    BY <1>1, <1>2, <1>6, QuotientIs
  <1>8. s * x <= s * d /\ s * y <= s * e
    <2>1. s * x \in Nat /\ s * y \in Nat /\ s * d \in Nat /\ s * e \in Nat
      BY <1>1, <1>7
    <2>2. QED
      BY <1>2, <1>5, <1>7, <2>1
  <1>9. x <= d /\ y <= e
    BY <1>1, <1>7, <1>8, FactorsCompare
  <1>10. s * (x + y) = s * x + s * y /\ x + y \in Nat
    BY <1>1, <1>7
  <1>11. s * (x + y) <= s * cap
    <2>1. s * x \in Nat /\ s * y \in Nat
      BY <1>1, <1>7
    <2>2. QED
      BY <1>2, <1>3, <1>7, <1>10, <2>1
  <1>12. x + y <= cap
    BY <1>1, <1>10, <1>11, FactorsCompare
  <1>13. QED
    BY <1>7, <1>9, <1>12

-------------------------------------------------------------------------------
(* One rule *)

Cost == [energy : Nat, time : Nat]

\* A discount takes off a part of each cost, and no more than its cap if it has one.
TakesOff(terms, cost, off) ==
  /\ off \in Cost /\ off.energy <= cost.energy /\ off.time <= cost.time
  /\ terms.cap # 0 => cost.energy - off.energy + cost.time - off.time <= terms.cap

Discount(terms) == terms \in TermsRow /\ terms.kind = "discount" /\ terms.value <= 100

LEMMA DiscountTakesOff ==
  ASSUME NEW terms, Discount(terms), NEW cost \in Cost, NEW off, off = ApplyAdjustment(terms, cost)
  PROVE  TakesOff(terms, cost, off)
  <1> DEFINE p == 100 - terms.value
             scaled == [part \in {"energy", "time"} |->
                          IF GoesTo(terms, part) THEN Times(p, cost[part]) ELSE cost[part]]
             saved == cost.energy - scaled.energy + cost.time - scaled.time
  <1>1. terms.value \in Nat /\ terms.value <= 100 /\ terms.cap \in Nat /\ terms.kind = "discount"
    BY DEF Discount, TermsRow
  <1>2. p \in Nat /\ p <= 100
    BY <1>1
  <1>3. cost["energy"] \in Nat /\ cost["time"] \in Nat
    BY DEF Cost
  <1>4. off = Capped(terms, cost, scaled)
    BY <1>1 DEF ApplyAdjustment
  <1>5. /\ scaled["energy"] \in Nat /\ scaled["energy"] <= cost["energy"]
        /\ scaled["time"] \in Nat /\ scaled["time"] <= cost["time"]
    <2> HIDE DEF p
    <2>1. /\ Times(p, cost["energy"]) \in Nat /\ Times(p, cost["energy"]) <= cost["energy"]
          /\ Times(p, cost["time"]) \in Nat /\ Times(p, cost["time"]) <= cost["time"]
      BY <1>2, <1>3, TimesIs
    <2>2. QED
      BY <1>3, <2>1
  <1>6. DOMAIN scaled = {"energy", "time"} /\ scaled = [part \in {"energy", "time"} |-> scaled[part]]
    OBVIOUS
  <1> HIDE DEF p, scaled
  <1>7. off = IF terms.cap # 0 /\ saved > terms.cap
              THEN [part \in {"energy", "time"} |->
                      cost[part] - ((cost[part] - scaled[part]) * terms.cap) \div saved]
              ELSE scaled
    BY <1>4 DEF Capped
  <1>8. CASE ~(terms.cap # 0 /\ saved > terms.cap)
    <2>1. off = scaled
      BY <1>7, <1>8
    <2>2. scaled \in Cost
      BY <1>5, <1>6 DEF Cost
    <2>3. terms.cap # 0 => saved <= terms.cap
      BY <1>1, <1>3, <1>5, <1>8
    <2>4. QED
      BY <1>5, <2>1, <2>2, <2>3 DEF TakesOff
  <1>9. CASE terms.cap # 0 /\ saved > terms.cap
    <2> DEFINE d == cost["energy"] - scaled["energy"]
               e == cost["time"] - scaled["time"]
               x == (d * terms.cap) \div (d + e)
               y == (e * terms.cap) \div (d + e)
    <2>1. d \in Nat /\ e \in Nat /\ saved = d + e /\ d <= cost["energy"] /\ e <= cost["time"]
      BY <1>3, <1>5
    <2>2. off = [part \in {"energy", "time"} |->
                   cost[part] - ((cost[part] - scaled[part]) * terms.cap) \div (d + e)]
      BY <1>7, <1>9, <2>1
    <2>3. DOMAIN off = {"energy", "time"} /\ off["energy"] = cost["energy"] - x /\ off["time"] = cost["time"] - y
      BY <2>2
    <2>4. off = [energy |-> off["energy"], time |-> off["time"]]
      BY <2>2
    <2>5. d + e > terms.cap
      BY <1>9, <2>1
    <2>6. x = (d * terms.cap) \div (d + e) /\ y = (e * terms.cap) \div (d + e)
      OBVIOUS
    <2> HIDE DEF d, e, x, y
    <2>7. x \in Nat /\ y \in Nat /\ x <= d /\ y <= e /\ x + y <= terms.cap
      BY <1>1, <2>1, <2>5, <2>6, CutsAreIn
    <2>8. off["energy"] \in Nat /\ off["energy"] <= cost["energy"] /\ off["time"] \in Nat /\ off["time"] <= cost["time"]
      BY <1>3, <2>1, <2>3, <2>7
    <2>9. off \in Cost
      BY <2>4, <2>8 DEF Cost
    <2>10. cost["energy"] - off["energy"] + cost["time"] - off["time"] <= terms.cap
      BY <1>1, <1>3, <2>3, <2>7
    <2>11. QED
      BY <2>8, <2>9, <2>10 DEF TakesOff
  <1>10. QED
    BY <1>8, <1>9

-------------------------------------------------------------------------------
(* The price *)

Adjusted(r, cost, hour, kwh, plan) ==
  IF EvaluateConditions(row[r].terms, hour, kwh, plan) THEN ApplyAdjustment(row[r].terms, cost) ELSE cost

\* F gives the costs after some of the rules.
Prices(F, order, base, hour, kwh, plan) ==
  F = [T \in SUBSET (DOMAIN order) |->
         IF T = {} THEN base ELSE Adjusted(order[Max(T)], F[T \ {Max(T)}], hour, kwh, plan)]

\* C gives the sum of the caps of some of the rules.
Caps(C, order) ==
  C = [T \in SUBSET (DOMAIN order) |->
         IF T = {} THEN 0 ELSE C[T \ {Max(T)}] + row[order[Max(T)]].terms.cap]

LEMMA PriceIs ==
  ASSUME NEW t, NEW order, NEW hour, NEW kwh, NEW minutes, NEW plan, NEW base, base = Base(t, kwh, minutes)
  PROVE  CalculatePrice(t, order, hour, kwh, minutes, plan)
         = (CHOOSE G : Prices(G, order, base, hour, kwh, plan))[DOMAIN order]
  BY DEF CalculatePrice, FoldLeft, MapThenFoldSet, Prices, Adjusted

LEMMA CapsAre ==
  ASSUME NEW order
  PROVE  SumOfCaps(order) = (CHOOSE B : Caps(B, order))[DOMAIN order]
  BY DEF SumOfCaps, FoldLeft, MapThenFoldSet, Caps

\* The rules of a tariff, in an order in which the database may give them.
LEMMA OrderIs ==
  ASSUME PricingRows(row), NEW t \in Tariff, NEW order \in ByPriority(InForce(t)), NEW D, D = DOMAIN order
  PROVE  /\ D \in SUBSET Nat /\ IsFiniteSet(D)
         /\ \A k \in D : order[k] \in InForce(t) /\ row[order[k]] \in RuleRow
  <1>1. InForce(t) \in SUBSET Rule /\ \A r \in InForce(t) : row[r] \in RuleRow
    BY DEF InForce, Rows, PricingRows
  <1>2. IsFiniteSet(InForce(t))
    BY <1>1, PricingAssumption, FS_Subset
  <1> DEFINE n == Cardinality(InForce(t))
  <1>3. n \in Nat
    BY <1>2, FS_CardinalityType
  <1>4. order \in [1..n -> InForce(t)]
    BY DEF ByPriority, SetToSeqs
  <1> HIDE DEF n
  <1>5. D = 1..n /\ \A k \in D : order[k] \in InForce(t)
    BY <1>4
  <1>6. D \in SUBSET Nat /\ IsFiniteSet(D)
    BY <1>3, <1>5, FS_Interval
  <1>7. QED
    BY <1>1, <1>5, <1>6

LEMMA AdjustedTakesOff ==
  ASSUME NEW r, Discount(row[r].terms), NEW cost \in Cost, NEW hour, NEW kwh, NEW plan,
         NEW off, off = Adjusted(r, cost, hour, kwh, plan)
  PROVE  TakesOff(row[r].terms, cost, off)
  <1> DEFINE terms == row[r].terms
  <1>1. CASE EvaluateConditions(terms, hour, kwh, plan)
    <2>1. off = ApplyAdjustment(terms, cost) /\ Discount(terms)
      BY <1>1 DEF Adjusted
    <2> HIDE DEF terms
    <2>2. TakesOff(terms, cost, off)
      BY <2>1, DiscountTakesOff
    <2>3. QED
      BY <2>2 DEF terms
  <1>2. CASE ~EvaluateConditions(terms, hour, kwh, plan)
    <2>1. off = cost
      BY <1>2 DEF Adjusted
    <2>2. terms.cap \in Nat /\ cost.energy \in Nat /\ cost.time \in Nat
      BY DEF Discount, TermsRow, Cost
    <2> HIDE DEF terms
    <2>3. TakesOff(terms, cost, cost)
      BY <2>2 DEF TakesOff
    <2>4. QED
      BY <2>1, <2>3 DEF terms
  <1>3. QED
    BY <1>1, <1>2

LEMMA PricesExist ==
  ASSUME NEW order, DOMAIN order \in SUBSET Nat, IsFiniteSet(DOMAIN order),
         \A k \in DOMAIN order : Discount(row[order[k]].terms),
         NEW base \in Cost, NEW hour, NEW kwh, NEW plan
  PROVE  \E F : Prices(F, order, base, hour, kwh, plan)
  <1> DEFINE D == DOMAIN order
             h == [k \in D |-> [v \in Cost |-> Adjusted(order[k], v, hour, kwh, plan)]]
  <1>1. PICK F : Folds(F, h, base, D)
    <2>1. D \in SUBSET Nat /\ IsFiniteSet(D)
      OBVIOUS
    <2> HIDE DEF D, h
    <2>2. QED
      BY <2>1, FoldExists
  <1>2. \A k \in D, v \in Cost : h[k][v] = Adjusted(order[k], v, hour, kwh, plan) /\ h[k][v] \in Cost
    <2> SUFFICES ASSUME NEW k \in D, NEW v \in Cost
                 PROVE  h[k][v] = Adjusted(order[k], v, hour, kwh, plan) /\ h[k][v] \in Cost
      OBVIOUS
    <2>1. h[k][v] = Adjusted(order[k], v, hour, kwh, plan)
      OBVIOUS
    <2>2. TakesOff(row[order[k]].terms, v, h[k][v])
      BY <2>1, AdjustedTakesOff
    <2>3. QED
      BY <2>1, <2>2 DEF TakesOff
  <1>3. D \in SUBSET Nat /\ IsFiniteSet(D) /\ D = DOMAIN order
    OBVIOUS
  <1> HIDE DEF D, h
  <1>4. \A T \in SUBSET D : F[T] \in Cost
    BY <1>1, <1>2, <1>3, FoldStaysIn
  <1>5. ASSUME NEW T \in SUBSET D
        PROVE  F[T] = IF T = {} THEN base ELSE Adjusted(order[Max(T)], F[T \ {Max(T)}], hour, kwh, plan)
    <2>1. F[T] = IF T = {} THEN base ELSE h[Max(T)][F[T \ {Max(T)}]]
      BY <1>1 DEF Folds
    <2>2. CASE T # {}
      <3>1. Max(T) \in D
        BY <1>3, <2>2, FS_Subset, LargestIsIn
      <3>2. F[T \ {Max(T)}] \in Cost
        BY <1>4
      <3>3. QED
        BY <1>2, <2>1, <2>2, <3>1, <3>2
    <2>3. QED
      BY <2>1, <2>2
  <1>6. F = [T \in SUBSET D |-> F[T]]
    BY <1>1 DEF Folds
  <1>7. Prices(F, order, base, hour, kwh, plan)
    <2> DEFINE G == [T \in SUBSET D |->
                       IF T = {} THEN base ELSE Adjusted(order[Max(T)], F[T \ {Max(T)}], hour, kwh, plan)]
    <2>1. \A T \in SUBSET D : F[T] = G[T]
      BY <1>5
    <2>2. F = G
      BY <1>6, <2>1
    <2>3. QED
      BY <1>3, <2>2 DEF Prices
  <1>8. QED
    BY <1>7

LEMMA CapsExist ==
  ASSUME NEW order, DOMAIN order \in SUBSET Nat, IsFiniteSet(DOMAIN order),
         \A k \in DOMAIN order : Discount(row[order[k]].terms)
  PROVE  \E C : Caps(C, order)
  <1> DEFINE D == DOMAIN order
             h == [k \in D |-> [v \in Nat |-> v + row[order[k]].terms.cap]]
  <1>1. PICK C : Folds(C, h, 0, D)
    <2>1. D \in SUBSET Nat /\ IsFiniteSet(D)
      OBVIOUS
    <2> HIDE DEF D, h
    <2>2. QED
      BY <2>1, FoldExists
  <1>2. \A k \in D, v \in Nat : h[k][v] = v + row[order[k]].terms.cap /\ h[k][v] \in Nat
    BY DEF Discount, TermsRow
  <1>3. D \in SUBSET Nat /\ IsFiniteSet(D) /\ D = DOMAIN order
    OBVIOUS
  <1> HIDE DEF D, h
  <1>4. \A T \in SUBSET D : C[T] \in Nat
    BY <1>1, <1>2, <1>3, FoldStaysIn
  <1>5. ASSUME NEW T \in SUBSET D
        PROVE  C[T] = IF T = {} THEN 0 ELSE C[T \ {Max(T)}] + row[order[Max(T)]].terms.cap
    <2>1. C[T] = IF T = {} THEN 0 ELSE h[Max(T)][C[T \ {Max(T)}]]
      BY <1>1 DEF Folds
    <2>2. CASE T # {}
      <3>1. Max(T) \in D
        BY <1>3, <2>2, FS_Subset, LargestIsIn
      <3>2. C[T \ {Max(T)}] \in Nat
        BY <1>4
      <3>3. QED
        BY <1>2, <2>1, <2>2, <3>1, <3>2
    <2>3. QED
      BY <2>1, <2>2
  <1>6. C = [T \in SUBSET D |-> C[T]]
    BY <1>1 DEF Folds
  <1>7. Caps(C, order)
    <2> DEFINE G == [T \in SUBSET D |->
                       IF T = {} THEN 0 ELSE C[T \ {Max(T)}] + row[order[Max(T)]].terms.cap]
    <2>1. \A T \in SUBSET D : C[T] = G[T]
      BY <1>5
    <2>2. C = G
      BY <1>6, <2>1
    <2>3. QED
      BY <1>3, <2>2 DEF Caps
  <1>8. QED
    BY <1>7

\* Rule by rule: what is left is a price, no higher than what is asked, and what is off is no more
\* than the caps of the rules.
LEMMA PricesFall ==
  ASSUME NEW order, NEW D, D = DOMAIN order, D \in SUBSET Nat, IsFiniteSet(D),
         \A k \in D : Discount(row[order[k]].terms),
         NEW base \in Cost, NEW hour, NEW kwh, NEW plan,
         NEW F, Prices(F, order, base, hour, kwh, plan), NEW C, Caps(C, order)
  PROVE  /\ F[D] \in Cost /\ F[D].energy + F[D].time <= base.energy + base.time
         /\ (\A k \in D : row[order[k]].terms.cap # 0) =>
              base.energy + base.time - F[D].energy - F[D].time <= C[D]
  <1> DEFINE Capped1 == \A k \in D : row[order[k]].terms.cap # 0
             Falls(T) == /\ F[T] \in Cost /\ C[T] \in Nat
                         /\ F[T].energy + F[T].time <= base.energy + base.time
                         /\ Capped1 => base.energy + base.time - F[T].energy - F[T].time <= C[T]
             Z == {T \in SUBSET D : Falls(T)}
  <1>1. ASSUME NEW T \in SUBSET D, \A U \in SUBSET T : U # T => U \in Z
        PROVE  T \in Z
    <2>1. /\ F[T] = IF T = {} THEN base ELSE Adjusted(order[Max(T)], F[T \ {Max(T)}], hour, kwh, plan)
          /\ C[T] = IF T = {} THEN 0 ELSE C[T \ {Max(T)}] + row[order[Max(T)]].terms.cap
      BY DEF Prices, Caps
    <2>2. base.energy \in Nat /\ base.time \in Nat
      BY DEF Cost
    <2>3. CASE T = {}
      <3>1. F[T] = base /\ C[T] = 0
        BY <2>1, <2>3
      <3>2. QED
        BY <2>2, <3>1
    <2>4. CASE T # {}
      <3> DEFINE k == Max(T)
                 U == T \ {k}
                 terms == row[order[k]].terms
                 before == F[U]
                 after == F[T]
      <3>1. k \in T
        BY <2>4, FS_Subset, LargestIsIn
      <3>2. Falls(U)
        <4>1. U \in Z
          BY <1>1, <3>1
        <4>2. QED
          BY <4>1
      <3>3. before \in Cost /\ Discount(terms) /\ after = Adjusted(order[k], before, hour, kwh, plan)
        BY <2>1, <2>4, <3>1, <3>2
      <3>4. TakesOff(terms, before, after)
        BY <3>3, AdjustedTakesOff
      <3>5. terms.cap \in Nat
        BY <3>3 DEF Discount, TermsRow
      <3>6. C[T] = C[U] + terms.cap /\ C[U] \in Nat
        BY <2>1, <2>4, <3>2
      <3>7. Capped1 => terms.cap # 0
        BY <3>1
      <3>8. before.energy + before.time <= base.energy + base.time
            /\ (Capped1 => base.energy + base.time - before.energy - before.time <= C[U])
        BY <3>2
      <3> HIDE DEF k, U, terms, before, Capped1
      <3>9. /\ before.energy \in Nat /\ before.time \in Nat
            /\ after \in Cost /\ after.energy \in Nat /\ after.time \in Nat
            /\ after.energy <= before.energy /\ after.time <= before.time
            /\ terms.cap # 0 => before.energy - after.energy + before.time - after.time <= terms.cap
        BY <3>3, <3>4 DEF TakesOff, Cost
      <3> HIDE DEF after
      <3>10. after.energy + after.time <= base.energy + base.time
        BY <2>2, <3>8, <3>9
      <3>11. Capped1 => base.energy + base.time - after.energy - after.time <= C[T]
        BY <2>2, <3>5, <3>6, <3>7, <3>8, <3>9
      <3>12. C[T] \in Nat
        BY <3>5, <3>6
      <3>13. QED
        BY <3>9, <3>10, <3>11, <3>12 DEF after
    <2>5. QED
      BY <2>3, <2>4
  <1>2. D \in Z
    <2> HIDE DEF Z
    <2>1. QED
      BY <1>1, SubsetInduction
  <1>3. QED
    BY <1>2

\* What the benefits of a plan take off is no less than nothing.
LEMMA BenefitsLower ==
  ASSUME NEW t, row[t] \in TariffRow, NEW cost \in Cost, NEW benefit \in Benefit, NEW kwh,
         NEW none, none = [free |-> 0, percent |-> 0]
  PROVE  PriceOf(t, cost, benefit, kwh) <= PriceOf(t, cost, none, kwh)
  <1> DEFINE sum == cost.energy + cost.time
             subtotal == row[t].rate.flat + cost.energy + cost.time
             free == IF benefit.free # 0 /\ kwh <= benefit.free THEN cost.energy ELSE 0
             x == Times(benefit.percent, sum)
             y == Times(0, sum)
  <1>1. cost.energy \in Nat /\ cost.time \in Nat /\ sum \in Nat /\ free \in Nat
    BY DEF Cost
  <1>2. row[t].rate.flat \in Nat
    BY PricingAssumption DEF TariffRow, RateRow
  <1>3. subtotal \in Nat
    BY <1>1, <1>2
  <1>4. benefit.percent \in Nat /\ benefit.percent <= 100
    BY PricingAssumption
  <1>5. x = Times(benefit.percent, sum) /\ y = Times(0, sum)
    OBVIOUS
  <1>6. y = 0
    BY <1>1 DEF Times
  <1>7. PriceOf(t, cost, benefit, kwh) = IF subtotal < free + x THEN 0 ELSE subtotal - (free + x)
    BY DEF PriceOf
  <1>8. PriceOf(t, cost, none, kwh) = IF subtotal < 0 + y THEN 0 ELSE subtotal - (0 + y)
    BY DEF PriceOf
  <1> HIDE DEF sum, subtotal, free, x, y
  <1>9. x \in Nat
    BY <1>1, <1>4, <1>5, TimesIs
  <1>10. QED
    BY <1>1, <1>3, <1>6, <1>7, <1>8, <1>9

\* In whatever order they come, discounts of at most the price leave a price, and take off no more
\* than their caps; the benefits of a plan do not raise it.
THEOREM DiscountsLower == PricingSpec => []DiscountsLowerThePrice
  <1>1. PricingInv => DiscountsLowerThePrice
    <2> SUFFICES ASSUME PricingInv, NEW t \in Rows(Tariff),
                        \A r \in InForce(t) : row[r].terms.kind = "discount" /\ row[r].terms.value <= 100,
                        NEW order \in ByPriority(InForce(t)), NEW hour \in Hour, NEW kwh \in Energy,
                        NEW benefit \in Benefit
                 PROVE  LET cost == CalculatePrice(t, order, hour, kwh, 10, None)
                            asked == Base(t, kwh, 10)
                            off == asked.energy + asked.time - cost.energy - cost.time
                            none == [free |-> 0, percent |-> 0]
                        IN /\ 0 <= cost.energy /\ 0 <= cost.time /\ 0 <= off
                           /\ PriceOf(t, cost, benefit, kwh) <= PriceOf(t, cost, none, kwh)
                           /\ (\A r \in InForce(t) : row[r].terms.cap # 0) =>
                                off <= SumOfCaps(order)
      BY DEF DiscountsLowerThePrice
    <2> DEFINE D == DOMAIN order
               base == Base(t, kwh, 10)
               cost == CalculatePrice(t, order, hour, kwh, 10, None)
               caps == SumOfCaps(order)
               F == CHOOSE G : Prices(G, order, base, hour, kwh, None)
               C == CHOOSE B : Caps(B, order)
               off == base.energy + base.time - cost.energy - cost.time
               none == [free |-> 0, percent |-> 0]
    <2>1. PricingRows(row) /\ t \in Tariff /\ row[t] \in TariffRow
      BY DEF PricingInv, PricingRows, Rows
    <2>2. D \in SUBSET Nat /\ IsFiniteSet(D) /\ \A k \in D : order[k] \in InForce(t) /\ row[order[k]] \in RuleRow
      BY <2>1, OrderIs
    <2>3. \A k \in D : Discount(row[order[k]].terms)
      BY <2>2, PricingAssumption DEF Discount, RuleRow
    <2>4. base \in Cost
      <3>1. row[t].rate.kwh \in Nat /\ row[t].rate.minute \in Nat /\ kwh \in Nat
        BY <2>1, PricingAssumption DEF TariffRow, RateRow
      <3>2. kwh * row[t].rate.kwh \in Nat
        BY <3>1, ProductGrows
      <3>3. QED
        BY <3>1, <3>2 DEF Base, Cost
    <2>5. cost = F[D]
      BY PriceIs
    <2>6. caps = C[D]
      BY CapsAre
    <2>7. D = DOMAIN order
      OBVIOUS
    <2>8. F = CHOOSE G : Prices(G, order, base, hour, kwh, None)
      OBVIOUS
    <2>9. C = CHOOSE B : Caps(B, order)
      OBVIOUS
    <2>10. none = [free |-> 0, percent |-> 0]
      OBVIOUS
    <2> HIDE DEF D, base, cost, caps, F, C, none
    <2>11. Prices(F, order, base, hour, kwh, None)
      BY <2>2, <2>3, <2>4, <2>7, <2>8, PricesExist
    <2>12. Caps(C, order)
      BY <2>2, <2>3, <2>7, <2>9, CapsExist
    <2>13. /\ F[D] \in Cost /\ F[D].energy + F[D].time <= base.energy + base.time
           /\ (\A k \in D : row[order[k]].terms.cap # 0) =>
                base.energy + base.time - F[D].energy - F[D].time <= C[D]
      BY <2>2, <2>3, <2>4, <2>7, <2>11, <2>12, PricesFall
    <2>14. cost \in Cost /\ cost.energy \in Nat /\ cost.time \in Nat
      BY <2>5, <2>13 DEF Cost
    <2>15. base.energy \in Nat /\ base.time \in Nat
      BY <2>4 DEF Cost
    <2>16. 0 <= off
      BY <2>5, <2>13, <2>14, <2>15
    <2>17. (\A r \in InForce(t) : row[r].terms.cap # 0) => off <= caps
      BY <2>2, <2>5, <2>6, <2>13
    <2>18. PriceOf(t, cost, benefit, kwh) <= PriceOf(t, cost, none, kwh)
      BY <2>1, <2>10, <2>14, BenefitsLower
    <2>19. QED
      BY <2>14, <2>16, <2>17, <2>18 DEF cost, base, caps, none
  <1>2. QED
    BY <1>1, PricingInvariance, PTL

-------------------------------------------------------------------------------
(* Powers of a hundred *)

PowersUpTo(f, n) == f = [k \in 0..n |-> IF k = 0 THEN 1 ELSE 100 * f[k - 1]]

LEMMA PowersExist == ASSUME NEW n \in Nat PROVE \E f : PowersUpTo(f, n)
  <1> DEFINE Z == {m \in Nat : \E f : PowersUpTo(f, m)}
  <1>1. 0 \in Z
    <2> DEFINE f == [k \in 0..0 |-> 1]
    <2>1. PowersUpTo(f, 0)
      BY DEF PowersUpTo
    <2>2. QED
      BY <2>1
  <1>2. ASSUME NEW m \in Nat, m \in Z PROVE m + 1 \in Z
    <2>1. PICK f : PowersUpTo(f, m)
      BY <1>2
    <2>2. \A k \in 0..m : f[k] = IF k = 0 THEN 1 ELSE 100 * f[k - 1]
      BY <2>1 DEF PowersUpTo
    <2> DEFINE g == [k \in 0..(m + 1) |-> IF k = 0 THEN 1 ELSE 100 * f[k - 1]]
               e == [k \in 0..(m + 1) |-> IF k = 0 THEN 1 ELSE 100 * g[k - 1]]
    <2>3. \A k \in 0..m : g[k] = f[k]
      BY <2>2
    <2>4. ASSUME NEW k \in 0..(m + 1) PROVE g[k] = e[k]
      <3>1. CASE k = 0
        BY <3>1
      <3>2. CASE k # 0
        <4>1. k - 1 \in 0..m
          BY <3>2
        <4>2. QED
          BY <2>3, <3>2, <4>1
      <3>3. QED
        BY <3>1, <3>2
    <2>5. g = e
      BY <2>4
    <2>6. PowersUpTo(g, m + 1)
      BY <2>5 DEF PowersUpTo
    <2>7. QED
      BY <2>6
  <1> HIDE DEF Z
  <1>3. n \in Z
    BY <1>1, <1>2, NumberInduction
  <1>4. QED
    BY <1>3 DEF Z

\* Two chains agree as far as both go.
LEMMA PowersAgree ==
  ASSUME NEW m \in Nat, NEW n \in Nat, NEW f, PowersUpTo(f, m), NEW g, PowersUpTo(g, n),
         NEW k \in Nat, k <= m, k <= n
  PROVE  f[k] = g[k]
  <1> DEFINE Z == {i \in Nat : i <= m /\ i <= n => f[i] = g[i]}
  <1>1. /\ \A i \in 0..m : f[i] = IF i = 0 THEN 1 ELSE 100 * f[i - 1]
        /\ \A i \in 0..n : g[i] = IF i = 0 THEN 1 ELSE 100 * g[i - 1]
    BY DEF PowersUpTo
  <1>2. 0 \in Z
    BY <1>1
  <1>3. ASSUME NEW i \in Nat, i \in Z PROVE i + 1 \in Z
    <2> SUFFICES ASSUME i + 1 <= m, i + 1 <= n PROVE f[i + 1] = g[i + 1]
      OBVIOUS
    <2>1. f[i] = g[i] /\ i + 1 \in 0..m /\ i + 1 \in 0..n /\ (i + 1) - 1 = i
      BY <1>3
    <2>2. QED
      BY <1>1, <2>1
  <1> HIDE DEF Z
  <1>4. k \in Z
    BY <1>2, <1>3, NumberInduction
  <1>5. QED
    BY <1>4 DEF Z

\* The powers of a hundred are what their definition says.
LEMMA HundredToIs ==
  /\ HundredTo[0] = 1
  /\ \A n \in Nat : HundredTo[n + 1] = 100 * HundredTo[n] /\ HundredTo[n] \in Nat
  <1> DEFINE F(n) == CHOOSE f : PowersUpTo(f, n)
             H == [n \in Nat |-> F(n)[n]]
             E == [n \in Nat |-> IF n = 0 THEN 1 ELSE 100 * H[n - 1]]
  <1>1. \A n \in Nat : PowersUpTo(F(n), n)
    BY PowersExist
  <1> HIDE DEF F
  <1>2. ASSUME NEW n \in Nat PROVE H[n] = E[n]
    <2>1. F(n)[n] = IF n = 0 THEN 1 ELSE 100 * F(n)[n - 1]
      BY <1>1 DEF PowersUpTo
    <2>2. CASE n # 0
      <3>1. n - 1 \in Nat /\ n - 1 <= n
        BY <2>2
      <3>2. F(n)[n - 1] = F(n - 1)[n - 1]
        BY <1>1, <3>1, PowersAgree
      <3>3. QED
        BY <2>1, <2>2, <3>1, <3>2
    <2>3. QED
      BY <2>1, <2>2
  <1>3. H = E
    BY <1>2
  <1>4. HundredTo = [n \in Nat |-> IF n = 0 THEN 1 ELSE 100 * HundredTo[n - 1]]
    <2> HIDE DEF H
    <2>1. \E f : f = [n \in Nat |-> IF n = 0 THEN 1 ELSE 100 * f[n - 1]]
      BY <1>3
    <2>2. QED
      BY <2>1 DEF HundredTo
  <1>5. HundredTo[0] = 1 /\ \A n \in Nat : HundredTo[n + 1] = 100 * HundredTo[n]
    <2>1. \A n \in Nat : HundredTo[n] = IF n = 0 THEN 1 ELSE 100 * HundredTo[n - 1]
      BY <1>4
    <2>2. \A n \in Nat : n + 1 \in Nat /\ n + 1 # 0 /\ (n + 1) - 1 = n
      OBVIOUS
    <2>3. QED
      BY <2>1, <2>2
  <1> DEFINE Z == {n \in Nat : HundredTo[n] \in Nat}
  <1>6. 0 \in Z /\ \A n \in Nat : n \in Z => n + 1 \in Z
    BY <1>5
  <1>7. ASSUME NEW n \in Nat PROVE n \in Z
    <2> HIDE DEF Z
    <2>1. QED
      BY <1>6, NumberInduction
  <1>8. QED
    BY <1>5, <1>7

-------------------------------------------------------------------------------
(* Factors *)

\* The factor of a rule at an hour, in percent.
Factor(r, hour) == IF EvaluateTimeConditions(row[r].terms, hour) THEN row[r].terms.value ELSE 100

Scale(p, cost) == [part \in {"energy", "time"} |-> Times(p, cost[part])]

\* Costs that stay whole when they are taken in percent n times.
Divisible(n) == {[part \in {"energy", "time"} |-> HundredTo[n] * q[part]] : q \in Cost}

LEMMA CostIs ==
  ASSUME NEW cost
  PROVE  /\ cost \in Cost => cost["energy"] \in Nat /\ cost["time"] \in Nat
                             /\ cost = [part \in {"energy", "time"} |-> cost[part]]
         /\ cost["energy"] \in Nat /\ cost["time"] \in Nat
            /\ cost = [part \in {"energy", "time"} |-> cost[part]] => cost \in Cost
  <1>1. ASSUME cost \in Cost
        PROVE  cost["energy"] \in Nat /\ cost["time"] \in Nat /\ cost = [part \in {"energy", "time"} |-> cost[part]]
    BY <1>1 DEF Cost
  <1>2. ASSUME cost["energy"] \in Nat, cost["time"] \in Nat, cost = [part \in {"energy", "time"} |-> cost[part]]
        PROVE  cost \in Cost
    <2>1. cost = [energy |-> cost["energy"], time |-> cost["time"]]
      BY <1>2
    <2>2. QED
      BY <1>2, <2>1 DEF Cost
  <1>3. QED
    BY <1>1, <1>2

LEMMA ProductIs ==
  ASSUME NEW a \in Nat, NEW b \in Nat
  PROVE  a * b \in Nat
  OBVIOUS

\* A hundredth of a product with a multiple of a hundred.
LEMMA TimesHundred ==
  ASSUME NEW p \in Nat, NEW x \in Nat
  PROVE  Times(p, 100 * x) = p * x
  <1> DEFINE y == p * x
  <1>1. p * (100 * x) = 100 * y /\ y \in Nat
    BY ProductIs
  <1>2. Times(p, 100 * x) = (100 * y) \div 100
    BY <1>1 DEF Times
  <1> HIDE DEF y
  <1>3. (100 * y) \div 100 = y
    BY <1>1
  <1>4. QED
    BY <1>2, <1>3 DEF y

LEMMA TimesIsNat ==
  ASSUME NEW p \in Nat, NEW x \in Nat
  PROVE  Times(p, x) \in Nat /\ Times(100, x) = x
  <1>1. p * x \in Nat
    BY ProductIs
  <1>2. Times(p, x) \in Nat
    <2> DEFINE y == p * x
    <2>1. y \in Nat
      BY <1>1
    <2> HIDE DEF y
    <2>2. y \div 100 \in Nat
      BY <2>1
    <2>3. QED
      BY <2>2 DEF Times, y
  <1>3. Times(100, x) = x
    BY DEF Times
  <1>4. QED
    BY <1>2, <1>3

LEMMA ScaleIs ==
  ASSUME NEW p \in Nat, NEW cost \in Cost
  PROVE  Scale(p, cost) \in Cost /\ Scale(100, cost) = cost
  <1>1. cost["energy"] \in Nat /\ cost["time"] \in Nat /\ cost = [part \in {"energy", "time"} |-> cost[part]]
    BY CostIs
  <1> DEFINE c == Scale(p, cost)
  <1>2. c["energy"] \in Nat /\ c["time"] \in Nat /\ c = [part \in {"energy", "time"} |-> c[part]]
    BY <1>1, TimesIsNat DEF Scale
  <1>3. c \in Cost
    <2> HIDE DEF c
    <2>1. QED
      BY <1>2, CostIs
  <1>4. Scale(100, cost) = [part \in {"energy", "time"} |-> cost[part]]
    <2>1. \A part \in {"energy", "time"} : Times(100, cost[part]) = cost[part]
      BY <1>1, TimesIsNat
    <2>2. QED
      BY <2>1 DEF Scale
  <1>5. QED
    BY <1>1, <1>3, <1>4

\* A factor of what is divisible once more, without a remainder.
LEMMA ScaleDivides ==
  ASSUME NEW p \in Nat, NEW n \in Nat, NEW q \in Cost,
         NEW cost, cost = [part \in {"energy", "time"} |-> HundredTo[n + 1] * q[part]]
  PROVE  Scale(p, cost) = [part \in {"energy", "time"} |-> HundredTo[n] * (p * q[part])]
  <1>1. q["energy"] \in Nat /\ q["time"] \in Nat
    BY CostIs
  <1>2. HundredTo[n + 1] = 100 * HundredTo[n] /\ HundredTo[n] \in Nat
    BY HundredToIs
  <1>3. ASSUME NEW x \in Nat PROVE Times(p, HundredTo[n + 1] * x) = HundredTo[n] * (p * x)
    <2> DEFINE h == HundredTo[n]
               y == h * x
    <2>1. h \in Nat
      BY <1>2
    <2>2. HundredTo[n + 1] * x = (100 * h) * x
      BY <1>2
    <2> HIDE DEF h
    <2>3. (100 * h) * x = 100 * y /\ y \in Nat
      BY <2>1, ProductIs
    <2>4. Times(p, 100 * y) = p * y
      <3> HIDE DEF y
      <3> QED BY <2>3, TimesHundred
    <2>5. p * y = h * (p * x)
      BY <2>1
    <2>6. QED
      BY <2>2, <2>3, <2>4, <2>5 DEF h
  <1>4. \A part \in {"energy", "time"} : Times(p, cost[part]) = HundredTo[n] * (p * q[part])
    BY <1>1, <1>3
  <1>5. QED
    BY <1>4 DEF Scale

LEMMA DivisibleIs ==
  ASSUME NEW n \in Nat, NEW q \in Cost, NEW cost, cost = [part \in {"energy", "time"} |-> HundredTo[n] * q[part]]
  PROVE  cost \in Divisible(n) /\ cost \in Cost
  <1>1. q["energy"] \in Nat /\ q["time"] \in Nat /\ HundredTo[n] \in Nat
    BY CostIs, HundredToIs
  <1>2. cost["energy"] \in Nat /\ cost["time"] \in Nat
    BY <1>1, ProductIs
  <1>3. cost \in Cost
    BY <1>2, CostIs
  <1>4. QED
    BY <1>3 DEF Divisible

\* Factors in either order.
LEMMA ScalesCommute ==
  ASSUME NEW p \in Nat, NEW r \in Nat, NEW n \in Nat
  PROVE  /\ \A cost \in Divisible(n + 1) : cost \in Cost /\ Scale(p, cost) \in Divisible(n)
         /\ \A cost \in Divisible(n + 2) : Scale(p, Scale(r, cost)) = Scale(r, Scale(p, cost))
  <1> DEFINE Mul(x, q) == [part \in {"energy", "time"} |-> x * q[part]]
  <1>1. ASSUME NEW x \in Nat, NEW q \in Cost PROVE Mul(x, q) \in Cost
    <2>1. q["energy"] \in Nat /\ q["time"] \in Nat
      BY CostIs
    <2> DEFINE c == Mul(x, q)
    <2>2. c["energy"] \in Nat /\ c["time"] \in Nat /\ c = [part \in {"energy", "time"} |-> c[part]]
      BY <2>1, ProductIs
    <2> HIDE DEF c
    <2>3. c \in Cost
      BY <2>2, CostIs
    <2>4. QED
      BY <2>3 DEF c
  <1>2. ASSUME NEW x \in Nat, NEW m \in Nat, NEW q \in Cost
        PROVE  /\ Scale(x, Mul(HundredTo[m + 1], q)) = Mul(HundredTo[m], Mul(x, q))
               /\ Mul(HundredTo[m], q) \in Divisible(m) /\ Mul(HundredTo[m], q) \in Cost
    <2>1. \A part \in {"energy", "time"} : Mul(x, q)[part] = x * q[part]
      OBVIOUS
    <2>2. Scale(x, Mul(HundredTo[m + 1], q)) = [part \in {"energy", "time"} |-> HundredTo[m] * (x * q[part])]
      BY ScaleDivides
    <2>3. Mul(HundredTo[m], q) \in Divisible(m) /\ Mul(HundredTo[m], q) \in Cost
      BY DivisibleIs
    <2>4. QED
      BY <2>1, <2>2, <2>3
  <1>3. ASSUME NEW q \in Cost PROVE Mul(p, Mul(r, q)) = Mul(r, Mul(p, q))
    <2>1. q["energy"] \in Nat /\ q["time"] \in Nat
      BY CostIs
    <2>2. \A x \in Nat : p * (r * x) = r * (p * x)
      OBVIOUS
    <2>3. \A part \in {"energy", "time"} : p * (r * q[part]) = r * (p * q[part])
      BY <2>1, <2>2
    <2>4. QED
      BY <2>3
  <1>4. \A m \in Nat : \A cost \in Divisible(m) : \E q \in Cost : cost = Mul(HundredTo[m], q)
    BY DEF Divisible
  <1> HIDE DEF Mul
  <1>5. ASSUME NEW cost \in Divisible(n + 1) PROVE cost \in Cost /\ Scale(p, cost) \in Divisible(n)
    <2>1. PICK q \in Cost : cost = Mul(HundredTo[n + 1], q)
      BY <1>4
    <2>2. Mul(p, q) \in Cost /\ Scale(p, cost) = Mul(HundredTo[n], Mul(p, q))
      BY <1>1, <1>2, <2>1
    <2>3. Mul(HundredTo[n], Mul(p, q)) \in Divisible(n)
      BY <1>2, <2>2
    <2>4. n + 1 \in Nat
      OBVIOUS
    <2>5. cost \in Cost
      BY <1>2, <2>1, <2>4
    <2>6. QED
      BY <2>2, <2>3, <2>5
  <1>6. ASSUME NEW cost \in Divisible(n + 2) PROVE Scale(p, Scale(r, cost)) = Scale(r, Scale(p, cost))
    <2>1. n + 1 \in Nat /\ n + 2 \in Nat /\ n + 2 = (n + 1) + 1
      OBVIOUS
    <2>2. PICK q \in Cost : cost = Mul(HundredTo[(n + 1) + 1], q)
      BY <1>4, <2>1
    <2>3. /\ Scale(r, cost) = Mul(HundredTo[n + 1], Mul(r, q)) /\ Mul(r, q) \in Cost
          /\ Scale(p, cost) = Mul(HundredTo[n + 1], Mul(p, q)) /\ Mul(p, q) \in Cost
      BY <1>1, <1>2, <2>1, <2>2
    <2>4. /\ Scale(p, Scale(r, cost)) = Mul(HundredTo[n], Mul(p, Mul(r, q)))
          /\ Scale(r, Scale(p, cost)) = Mul(HundredTo[n], Mul(r, Mul(p, q)))
      <3>1. Scale(p, Mul(HundredTo[n + 1], Mul(r, q))) = Mul(HundredTo[n], Mul(p, Mul(r, q)))
        BY <1>2, <2>3
      <3>2. Scale(r, Mul(HundredTo[n + 1], Mul(p, q))) = Mul(HundredTo[n], Mul(r, Mul(p, q)))
        BY <1>2, <2>3
      <3>3. QED
        BY <2>3, <3>1, <3>2
    <2>5. QED
      BY <1>3, <2>4
  <1>7. QED
    BY <1>5, <1>6

-------------------------------------------------------------------------------
(* The rate that is shown *)

\* What the rate shown becomes with a rule.
Shifted(r, rate, hour) ==
  IF ~EvaluateTimeConditions(row[r].terms, hour) THEN rate
  ELSE CASE row[r].terms.kind = "multiplier" ->
              [part \in {"energy", "time"} |-> Times(row[r].terms.value, rate[part])]
         [] row[r].terms.kind = "override" -> [rate EXCEPT !.energy = row[r].terms.value]
         [] OTHER -> rate

\* F gives the rates after some of the rules.
Rates(F, order, base, hour) ==
  F = [T \in SUBSET (DOMAIN order) |->
         IF T = {} THEN base ELSE Shifted(order[Max(T)], F[T \ {Max(T)}], hour)]

LEMMA RateIs ==
  ASSUME NEW t, NEW order, NEW hour, NEW base, base = Base(t, 1, 1)
  PROVE  GetCurrentRate(t, order, hour) = (CHOOSE G : Rates(G, order, base, hour))[DOMAIN order]
  BY DEF GetCurrentRate, FoldLeft, MapThenFoldSet, Rates, Shifted

\* For a factor of the whole price, both services take the cost in percent.
LEMMA BothScale ==
  ASSUME NEW r, Plain(row[r].terms), row[r].terms.value \in Nat, NEW cost \in Cost, NEW hour
  PROVE  /\ Adjusted(r, cost, hour, 1, None) = Scale(Factor(r, hour), cost)
         /\ Shifted(r, cost, hour) = Scale(Factor(r, hour), cost)
         /\ Factor(r, hour) \in Nat
  <1> DEFINE terms == row[r].terms
  <1>1. /\ terms.kind = "multiplier" /\ terms.on = "total" /\ terms.plan = None /\ terms.least = 0
    BY DEF Plain
  <1>2. EvaluateConditions(terms, hour, 1, None) <=> EvaluateTimeConditions(terms, hour)
    BY <1>1 DEF EvaluateConditions
  <1>3. ApplyAdjustment(terms, cost) = Scale(terms.value, cost)
    BY <1>1 DEF ApplyAdjustment, GoesTo, Scale
  <1>4. CASE EvaluateTimeConditions(terms, hour)
    BY <1>1, <1>2, <1>3, <1>4 DEF Adjusted, Shifted, Factor, Scale
  <1>5. CASE ~EvaluateTimeConditions(terms, hour)
    <2>1. Factor(r, hour) = 100 /\ Scale(100, cost) = cost
      BY <1>5, ScaleIs DEF Factor
    <2>2. QED
      BY <1>2, <1>5, <2>1 DEF Adjusted, Shifted
  <1>6. QED
    BY <1>4, <1>5

\* Orders of such rules, and their factors in them.
PlainOrder(order, D, h, hour) ==
  /\ D = DOMAIN order /\ D \in SUBSET Nat /\ IsFiniteSet(D)
  /\ \A k \in D : Plain(row[order[k]].terms) /\ row[order[k]].terms.value \in Nat
  /\ h = [k \in D |-> [cost \in Cost |-> Scale(Factor(order[k], hour), cost)]]

LEMMA StepsScale ==
  ASSUME NEW order, NEW D, NEW h, NEW hour, PlainOrder(order, D, h, hour)
  PROVE  /\ \A k \in D, v \in Cost : h[k][v] = Scale(Factor(order[k], hour), v) /\ h[k][v] \in Cost
         /\ \A k \in D : Factor(order[k], hour) \in Nat
  <1>1. ASSUME NEW k \in D PROVE Factor(order[k], hour) \in Nat
    <2>1. row[order[k]].terms.value \in Nat
      BY DEF PlainOrder
    <2>2. QED
      BY <2>1 DEF Factor
  <1>2. ASSUME NEW k \in D, NEW v \in Cost
        PROVE  h[k][v] = Scale(Factor(order[k], hour), v) /\ h[k][v] \in Cost
    <2>1. h[k][v] = Scale(Factor(order[k], hour), v)
      BY DEF PlainOrder
    <2>2. QED
      BY <1>1, <2>1, ScaleIs
  <1>3. QED
    BY <1>1, <1>2

LEMMA PriceFolds ==
  ASSUME NEW order, NEW D, NEW h, NEW hour, PlainOrder(order, D, h, hour), NEW base \in Cost,
         NEW F, F = CHOOSE G : Prices(G, order, base, hour, 1, None)
  PROVE  Folds(F, h, base, D)
  <1>1. D = DOMAIN order /\ D \in SUBSET Nat /\ IsFiniteSet(D)
    BY DEF PlainOrder
  <1>2. ASSUME NEW G PROVE Prices(G, order, base, hour, 1, None) <=> Folds(G, h, base, D)
    <2> DEFINE A == [T \in SUBSET D |-> Adjusted(order[Max(T)], G[T \ {Max(T)}], hour, 1, None)]
    <2>1. ASSUME NEW T \in SUBSET D, T # {}, G[T \ {Max(T)}] \in Cost
          PROVE  A[T] = h[Max(T)][G[T \ {Max(T)}]]
      <3>1. Max(T) \in D
        BY <1>1, <2>1, FS_Subset, LargestIsIn
      <3> DEFINE k == Max(T)
                 v == G[T \ {k}]
      <3>2. A[T] = Adjusted(order[k], v, hour, 1, None)
        OBVIOUS
      <3>3. k \in D /\ v \in Cost
        BY <2>1, <3>1
      <3> HIDE DEF k, v, A
      <3>4. Plain(row[order[k]].terms) /\ row[order[k]].terms.value \in Nat
        BY <3>3 DEF PlainOrder
      <3>5. Adjusted(order[k], v, hour, 1, None) = Scale(Factor(order[k], hour), v)
        BY <3>3, <3>4, BothScale
      <3>6. h[k][v] = Scale(Factor(order[k], hour), v)
        BY <3>3, StepsScale
      <3>7. QED
        BY <3>2, <3>5, <3>6 DEF k, v
    <2>2. \A k \in D, v \in Cost : h[k][v] \in Cost
      BY StepsScale
    <2>3. Prices(G, order, base, hour, 1, None)
            <=> G = [T \in SUBSET D |-> IF T = {} THEN base ELSE A[T]]
      BY <1>1 DEF Prices
    <2> DEFINE B == [T \in SUBSET D |-> IF T = {} THEN base ELSE A[T]]
    <2>4. UnfoldsTo(B, A, base, D)
      BY DEF UnfoldsTo
    <2> HIDE DEF A, B
    <2>5. G = B <=> Folds(G, h, base, D)
      <3>1. StepsOf(A, G, h, D, Cost)
        BY <2>1, <2>2 DEF StepsOf
      <3>2. D \in SUBSET Nat /\ IsFiniteSet(D) /\ base \in Cost
        BY <1>1
      <3> HIDE DEF Cost
      <3>3. QED
        BY <2>4, <3>1, <3>2, SameFold
    <2>6. QED
      BY <2>3, <2>4, <2>5 DEF UnfoldsTo
  <1>3. \E G : Folds(G, h, base, D)
    BY <1>1, FoldExists
  <1>4. QED
    BY <1>2, <1>3

LEMMA RateFolds ==
  ASSUME NEW order, NEW D, NEW h, NEW hour, PlainOrder(order, D, h, hour), NEW base \in Cost,
         NEW F, F = CHOOSE G : Rates(G, order, base, hour)
  PROVE  Folds(F, h, base, D)
  <1>1. D = DOMAIN order /\ D \in SUBSET Nat /\ IsFiniteSet(D)
    BY DEF PlainOrder
  <1>2. ASSUME NEW G PROVE Rates(G, order, base, hour) <=> Folds(G, h, base, D)
    <2> DEFINE A == [T \in SUBSET D |-> Shifted(order[Max(T)], G[T \ {Max(T)}], hour)]
    <2>1. ASSUME NEW T \in SUBSET D, T # {}, G[T \ {Max(T)}] \in Cost
          PROVE  A[T] = h[Max(T)][G[T \ {Max(T)}]]
      <3>1. Max(T) \in D
        BY <1>1, <2>1, FS_Subset, LargestIsIn
      <3> DEFINE k == Max(T)
                 v == G[T \ {k}]
      <3>2. A[T] = Shifted(order[k], v, hour)
        OBVIOUS
      <3>3. k \in D /\ v \in Cost
        BY <2>1, <3>1
      <3> HIDE DEF k, v, A
      <3>4. Plain(row[order[k]].terms) /\ row[order[k]].terms.value \in Nat
        BY <3>3 DEF PlainOrder
      <3>5. Shifted(order[k], v, hour) = Scale(Factor(order[k], hour), v)
        BY <3>3, <3>4, BothScale
      <3>6. h[k][v] = Scale(Factor(order[k], hour), v)
        BY <3>3, StepsScale
      <3>7. QED
        BY <3>2, <3>5, <3>6 DEF k, v
    <2>2. \A k \in D, v \in Cost : h[k][v] \in Cost
      BY StepsScale
    <2>3. Rates(G, order, base, hour) <=> G = [T \in SUBSET D |-> IF T = {} THEN base ELSE A[T]]
      BY <1>1 DEF Rates
    <2> DEFINE B == [T \in SUBSET D |-> IF T = {} THEN base ELSE A[T]]
    <2>4. UnfoldsTo(B, A, base, D)
      BY DEF UnfoldsTo
    <2> HIDE DEF A, B
    <2>5. G = B <=> Folds(G, h, base, D)
      <3>1. StepsOf(A, G, h, D, Cost)
        BY <2>1, <2>2 DEF StepsOf
      <3>2. D \in SUBSET Nat /\ IsFiniteSet(D) /\ base \in Cost
        BY <1>1
      <3> HIDE DEF Cost
      <3>3. QED
        BY <2>4, <3>1, <3>2, SameFold
    <2>6. QED
      BY <2>3, <2>4, <2>5 DEF UnfoldsTo
  <1>3. \E G : Folds(G, h, base, D)
    BY <1>1, FoldExists
  <1>4. QED
    BY <1>2, <1>3

-------------------------------------------------------------------------------
(* Orders *)

\* q takes each place in b to the one of the same element in a.
Permutes(q, a, b, D) ==
  /\ q \in [D -> D]
  /\ \A j, k \in D : j # k => q[j] # q[k]
  /\ \A k \in D : \E j \in D : q[j] = k
  /\ \A k \in D : b[k] = a[q[k]]

\* One order of a set is a permutation of another.
LEMMA Permuted ==
  ASSUME NEW S, IsFiniteSet(S), NEW a \in SetToSeqs(S), NEW b \in SetToSeqs(S), NEW D, D = DOMAIN a
  PROVE  /\ D = DOMAIN b /\ D = 1..Cardinality(S)
         /\ \A k \in D : a[k] \in S /\ b[k] \in S
         /\ \E q : Permutes(q, a, b, D)
  <1> DEFINE n == Cardinality(S)
  <1>1. n \in Nat /\ IsFiniteSet(1..n) /\ Cardinality(1..n) = n
    BY FS_CardinalityType, FS_Interval
  <1>2. /\ a \in [1..n -> S] /\ \A i, j \in 1..n : i # j => a[i] # a[j]
        /\ b \in [1..n -> S] /\ \A i, j \in 1..n : i # j => b[i] # b[j]
    BY DEF SetToSeqs
  <1> HIDE DEF n
  <1>3. D = 1..n /\ DOMAIN b = 1..n
    BY <1>2
  <1>4. ASSUME NEW c \in [1..n -> S], \A i, j \in 1..n : i # j => c[i] # c[j]
        PROVE  \A s \in S : \E k \in 1..n : c[k] = s
    <2>1. c \in Injection(1..n, S)
      BY <1>4 DEF Injection, IsInjective
    <2>2. Cardinality(1..n) = Cardinality(S)
      BY <1>1 DEF n
    <2>3. c \in Surjection(1..n, S)
      BY <2>1, <2>2, FS_Injection
    <2>4. QED
      BY <2>3 DEF Surjection
  <1> DEFINE q == [k \in D |-> CHOOSE j \in D : a[j] = b[k]]
  <1>5. \A k \in D : q[k] \in D /\ b[k] = a[q[k]]
    <2>1. \A k \in D : \E j \in D : a[j] = b[k]
      BY <1>2, <1>3, <1>4
    <2>2. QED
      BY <2>1
  <1>6. q \in [D -> D]
    BY <1>5
  <1> HIDE DEF q
  <1>7. \A j, k \in D : j # k => q[j] # q[k]
    BY <1>2, <1>3, <1>5
  <1>8. \A k \in D : \E j \in D : q[j] = k
    <2> SUFFICES ASSUME NEW k \in D PROVE \E j \in D : q[j] = k
      OBVIOUS
    <2>1. PICK j \in D : b[j] = a[k]
      BY <1>2, <1>3, <1>4
    <2>2. a[q[j]] = a[k] /\ q[j] \in D
      BY <1>5, <2>1
    <2>3. q[j] = k
      BY <1>2, <1>3, <2>2
    <2>4. QED
      BY <2>3
  <1>9. QED
    <2>1. Permutes(q, a, b, D)
      BY <1>5, <1>6, <1>7, <1>8 DEF Permutes
    <2>2. \A k \in D : a[k] \in S /\ b[k] \in S
      BY <1>2, <1>3
    <2>3. QED
      BY <1>3, <2>1, <2>2 DEF n

\* The rates of a tariff stay whole when as many factors are taken as there are rules.
LEMMA RateIsDivisible ==
  ASSUME PricingRows(row), NEW t \in Rows(Tariff)
  PROVE  Base(t, 1, 1) \in Divisible(Cardinality(Rule)) /\ Base(t, 1, 1) \in Cost
  <1> DEFINE N == Cardinality(Rule)
             h == HundredTo[N]
             rate == row[t].rate
             base == Base(t, 1, 1)
  <1>1. N \in Nat
    BY PricingAssumption, FS_CardinalityType
  <1>2. h \in Nat /\ h > 0
    <2> DEFINE Z == {n \in Nat : HundredTo[n] > 0}
    <2>1. 0 \in Z /\ \A n \in Nat : n \in Z => n + 1 \in Z
      BY HundredToIs
    <2>2. N \in Z
      <3> HIDE DEF Z, N
      <3> QED BY <1>1, <2>1, NumberInduction
    <2>3. QED
      BY <1>1, <2>2, HundredToIs
  <1>3. rate \in Rate
    BY DEF Rows, PricingRows, TariffRow
  <1>4. rate.kwh \in Nat /\ rate.minute \in Nat
    BY <1>3, PricingAssumption DEF RateRow
  <1>5. rate.kwh % h = 0 /\ rate.minute % h = 0
    BY <1>3, UnitAssumption
  <1>6. base = [energy |-> rate.kwh, time |-> rate.minute]
    BY <1>4 DEF Base
  <1> HIDE DEF N, rate
  <1> DEFINE q == [energy |-> rate.kwh \div h, time |-> rate.minute \div h]
  <1>7. ASSUME NEW x \in Nat, x % h = 0 PROVE x \div h \in Nat /\ h * (x \div h) = x
    <2> HIDE DEF h
    <2>1. QED
      BY <1>2, <1>7
  <1>8. q \in Cost /\ q["energy"] = rate.kwh \div h /\ q["time"] = rate.minute \div h
    BY <1>4, <1>5, <1>7 DEF Cost
  <1>9. base = [part \in {"energy", "time"} |-> h * q[part]]
    <2>1. h * q["energy"] = rate.kwh /\ h * q["time"] = rate.minute
      BY <1>4, <1>5, <1>7, <1>8
    <2> HIDE DEF q, h
    <2>2. QED
      BY <1>6, <2>1
  <1>10. base \in Divisible(N) /\ base \in Cost
    <2> HIDE DEF q, base
    <2>1. QED
      BY <1>1, <1>8, <1>9, DivisibleIs
  <1>11. QED
    BY <1>10 DEF N

\* Both services apply the same factors, in orders that come to the same.
THEOREM ShownIsCharged == PricingSpec => []ShownRateIsCharged
  <1>1. PricingInv => ShownRateIsCharged
    <2> SUFFICES ASSUME PricingInv, NEW t \in Rows(Tariff),
                        \A r \in Rows(Rule) : row[r].active => Plain(row[r].terms) /\ row[r].time # "late",
                        NEW hour \in Hour, NEW shown \in SetToSeqs(Shown(t)),
                        NEW charged \in ByPriority(InForce(t))
                 PROVE  GetCurrentRate(t, shown, hour) = CalculatePrice(t, charged, hour, 1, 1, None)
      BY DEF ShownRateIsCharged
    <2> DEFINE S == InForce(t)
               D == DOMAIN charged
               N == Cardinality(Rule)
               base == Base(t, 1, 1)
               F == CHOOSE G : Prices(G, charged, base, hour, 1, None)
               E == CHOOSE G : Rates(G, shown, base, hour)
               h == [k \in D |-> [cost \in Cost |-> Scale(Factor(charged[k], hour), cost)]]
               g == [k \in D |-> [cost \in Cost |-> Scale(Factor(shown[k], hour), cost)]]
               X == [n \in Nat |-> Divisible(n)]
    <2>1. PricingRows(row) /\ t \in Tariff
      BY DEF PricingInv, Rows
    <2>2. S \in SUBSET Rule /\ \A r \in S : Plain(row[r].terms) /\ row[r].terms.value \in Nat
      <3>1. \A r \in S : r \in Rule /\ row[r] \in RuleRow /\ Plain(row[r].terms)
        BY <2>1 DEF InForce, Rows, PricingRows
      <3>2. \A r \in S : row[r].terms \in TermsRow
        BY <3>1, PricingAssumption DEF RuleRow
      <3>3. QED
        BY <3>1, <3>2 DEF TermsRow
    <2>3. Shown(t) = S
      <3>1. \A r \in Rows(Rule) : row[r] \in RuleRow
        BY <2>1 DEF Rows, PricingRows
      <3>2. \A r \in Rows(Rule) : row[r].time \in {"early", "now", "late"}
        BY <3>1 DEF RuleRow
      <3>3. QED
        BY <3>2 DEF Shown, InForce, Plain
    <2>4. charged \in SetToSeqs(S) /\ shown \in SetToSeqs(S)
      BY <2>3 DEF ByPriority
    <2>5. IsFiniteSet(S) /\ N \in Nat /\ Cardinality(S) <= N /\ Cardinality(S) \in Nat
      BY <2>2, PricingAssumption, FS_Subset, FS_CardinalityType
    <2>6. base \in Divisible(N) /\ base \in Cost /\ X[N] = Divisible(N)
      BY <2>1, <2>5, RateIsDivisible
    <2>7. CalculatePrice(t, charged, hour, 1, 1, None) = F[D]
      BY PriceIs
    <2>8. GetCurrentRate(t, shown, hour) = E[DOMAIN shown]
      BY RateIs
    <2>9. F = CHOOSE G : Prices(G, charged, base, hour, 1, None)
      OBVIOUS
    <2>10. E = CHOOSE G : Rates(G, shown, base, hour)
      OBVIOUS
    <2>11. D = DOMAIN charged
      OBVIOUS
    <2>12. /\ h = [k \in D |-> [cost \in Cost |-> Scale(Factor(charged[k], hour), cost)]]
           /\ g = [k \in D |-> [cost \in Cost |-> Scale(Factor(shown[k], hour), cost)]]
      OBVIOUS
    <2>13. \A n \in Nat : X[n] = Divisible(n)
      OBVIOUS
    <2> HIDE DEF S, D, N, base, F, E, h, g, X
    <2>14. /\ D = DOMAIN shown /\ D = 1..Cardinality(S)
           /\ \A k \in D : charged[k] \in S /\ shown[k] \in S
      BY <2>4, <2>5, <2>11, Permuted
    <2>15. PICK q : Permutes(q, charged, shown, D)
      BY <2>4, <2>5, <2>11, Permuted
    <2>16. D \in SUBSET Nat /\ IsFiniteSet(D) /\ Cardinality(D) <= N
      <3> DEFINE n == Cardinality(S)
      <3>1. n \in Nat /\ n <= N /\ D = 1..n
        BY <2>5, <2>14
      <3> HIDE DEF n
      <3>2. IsFiniteSet(1..n) /\ Cardinality(1..n) = n
        BY <3>1, FS_Interval
      <3>3. QED
        BY <3>1, <3>2
    <2>17. PlainOrder(charged, D, h, hour) /\ PlainOrder(shown, D, g, hour)
      BY <2>2, <2>11, <2>12, <2>14, <2>16 DEF PlainOrder
    <2>18. Folds(F, h, base, D) /\ Folds(E, g, base, D)
      BY <2>6, <2>9, <2>10, <2>17, PriceFolds, RateFolds
    <2>19. Commute(h, X, D)
      <3>1. \A k \in D : Factor(charged[k], hour) \in Nat
        BY <2>17, StepsScale
      <3>2. \A k \in D, v \in Cost : h[k][v] = Scale(Factor(charged[k], hour), v)
        BY <2>17, StepsScale
      <3>3. ASSUME NEW k \in D, NEW n \in Nat, NEW v \in X[n + 1] PROVE h[k][v] \in X[n] /\ v \in Cost
        <4>1. v \in Divisible(n + 1)
          BY <2>13, <3>3
        <4>2. v \in Cost /\ Scale(Factor(charged[k], hour), v) \in Divisible(n)
          BY <3>1, <4>1, ScalesCommute
        <4>3. QED
          BY <2>13, <3>2, <4>2
      <3>4. ASSUME NEW j \in D, NEW k \in D, NEW n \in Nat, NEW v \in X[n + 2]
            PROVE  h[j][h[k][v]] = h[k][h[j][v]]
        <4>1. n + 1 \in Nat /\ (n + 1) + 1 = n + 2
          OBVIOUS
        <4>2. h[k][v] \in X[n + 1] /\ h[j][v] \in X[n + 1] /\ v \in Cost
          BY <3>3, <3>4, <4>1
        <4>3. h[k][v] \in Cost /\ h[j][v] \in Cost
          BY <3>3, <4>2
        <4> DEFINE p == Factor(charged[j], hour)
                   r == Factor(charged[k], hour)
        <4>4. h[j][h[k][v]] = Scale(p, Scale(r, v)) /\ h[k][h[j][v]] = Scale(r, Scale(p, v))
          BY <3>2, <4>2, <4>3
        <4>5. p \in Nat /\ r \in Nat /\ v \in Divisible(n + 2)
          BY <2>13, <3>1, <3>4
        <4> HIDE DEF p, r
        <4>6. Scale(p, Scale(r, v)) = Scale(r, Scale(p, v))
          BY <4>5, ScalesCommute
        <4>7. QED
          BY <4>4, <4>6
      <3>5. QED
        BY <3>3, <3>4 DEF Commute
    <2>20. \A k \in D : g[k] = h[q[k]]
      <3> SUFFICES ASSUME NEW k \in D PROVE g[k] = h[q[k]]
        OBVIOUS
      <3>1. q[k] \in D /\ shown[k] = charged[q[k]]
        BY <2>15 DEF Permutes
      <3>2. QED
        BY <2>12, <3>1
    <2>21. base \in X[N] /\ N \in Nat
      BY <2>5, <2>6, <2>13
    <2>22. E[D] = F[D]
      BY <2>15, <2>16, <2>18, <2>19, <2>20, <2>21, FoldsAgree DEF Permutes
    <2>23. QED
      BY <2>7, <2>8, <2>14, <2>22
  <1>2. QED
    BY <1>1, PricingInvariance, PTL
===============================================================================
