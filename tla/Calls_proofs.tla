------------------------------ MODULE Calls_proofs ------------------------------
(***************************************************************************)
(* Lemmas about the queries of a call and what its steps do with them, for *)
(* the proofs about the services.  A service keeps todo in                 *)
(* [Call -> Seq(Q)] for the set Q of the queries it may still do, which    *)
(* only grows as the records change.                                       *)
(***************************************************************************)
EXTENDS Calls, FiniteSetsExt, SequenceTheorems, FiniteSetTheorems, TLAPS

\* A step of c that puts these queries in the place of what it had to do.
LEMMA TodoOf ==
  ASSUME NEW Q, NEW R, todo \in [Call -> Seq(Q)], Q \subseteq R,
         NEW c \in Call, NEW queries \in Seq(R), todo' = [todo EXCEPT ![c] = queries]
  PROVE  todo' \in [Call -> Seq(R)]
  <1>1. Seq(Q) \subseteq Seq(R)
    BY SeqMonotonic
  <1>2. QED
    BY <1>1

\* The next query of a call, and what is left after it.
LEMMA NextQuery ==
  ASSUME NEW Q, todo \in [Call -> Seq(Q)], NEW c \in Call, ~Free(c)
  PROVE  Head(todo[c]) \in Q /\ Tail(todo[c]) \in Seq(Q)
  BY HeadTailProperties DEF Free

\* A call goes on: queries of R come before what was left.
LEMMA TodoGoesOn ==
  ASSUME NEW Q, NEW R, todo \in [Call -> Seq(Q)], Q \subseteq R,
         NEW c \in Call, ~Free(c), NEW queries \in Seq(R),
         todo' = [todo EXCEPT ![c] = queries \o Tail(@)]
  PROVE  todo' \in [Call -> Seq(R)]
  <1>1. Tail(todo[c]) \in Seq(R)
    BY NextQuery, SeqMonotonic
  <1>2. queries \o Tail(todo[c]) \in Seq(R)
    BY <1>1, ConcatProperties
  <1>3. todo' = [todo EXCEPT ![c] = queries \o Tail(todo[c])]
    OBVIOUS
  <1>4. QED
    BY <1>2, <1>3, TodoOf

\* A call has done its next query.
LEMMA TodoGoesBy ==
  ASSUME NEW Q, NEW R, todo \in [Call -> Seq(Q)], Q \subseteq R,
         NEW c \in Call, ~Free(c), todo' = [todo EXCEPT ![c] = Tail(@)]
  PROVE  todo' \in [Call -> Seq(R)]
  <1>1. Tail(todo[c]) \in Seq(R)
    BY NextQuery, SeqMonotonic
  <1>2. QED
    BY <1>1, TodoOf

\* A call has ended, or all have.
LEMMA TodoEnds ==
  ASSUME NEW Q, todo \in [Call -> Seq(Q)], NEW c \in Call, todo' = [todo EXCEPT ![c] = <<>>]
  PROVE  todo' \in [Call -> Seq(Q)]
  <1>1. <<>> \in Seq(Q)
    BY EmptySeq
  <1>2. QED
    BY <1>1, TodoOf

LEMMA TodoIsOver ==
  ASSUME NEW Q, todo' = [c \in Call |-> <<>>]
  PROVE  todo' \in [Call -> Seq(Q)]
  BY EmptySeq

\* One query, or two.
LEMMA SeqOfOne ==
  ASSUME NEW Q, NEW q \in Q
  PROVE  <<q>> \in Seq(Q)
  OBVIOUS

LEMMA SeqOfTwo ==
  ASSUME NEW Q, NEW q \in Q, NEW r \in Q
  PROVE  <<q, r>> \in Seq(Q)
  OBVIOUS

-------------------------------------------------------------------------------
\* What a single write says.
LEMMA WriteParts ==
  ASSUME NEW i, NEW old, NEW fields, NEW more, NEW q, q = Write(i, old, fields, more)
  PROVE  /\ q.do = "write"
         /\ DOMAIN q.on = {i}
         /\ q.on[i].saw = old /\ q.on[i].put = fields /\ q.on[i].inc = more
  BY DEF Write

LEMMA ThenParts ==
  ASSUME NEW name, NEW i, NEW q, q = Then(name, i)
  PROVE  q.do = name /\ q.on = i
  BY DEF Then

\* A write that is due leaves all records but its own alone, and may end the call.
LEMMA CommitOne ==
  ASSUME NEW c \in Call, Commit(c), NEW i, NEW old, NEW fields, NEW more,
         Head(todo[c]) = Write(i, old, fields, more)
  PROVE  \/ /\ row' = [j \in Id |-> IF j = i THEN Applied([saw |-> old, put |-> fields, inc |-> more], row[i])
                                  ELSE row[j]]
            /\ (old = None) = (row[i] = None)
            /\ todo' = [todo EXCEPT ![c] = Tail(@)]
            /\ raced' = raced \cup (Watched \cap {j \in {i} : old # row[i] /\ (old = Unseen => fields # NoField)})
         \/ /\ row' = row /\ raced' = raced /\ crowded' = crowded
            /\ todo' = [todo EXCEPT ![c] = <<>>]
  <1> DEFINE w == [saw |-> old, put |-> fields, inc |-> more]
             ws == Subject(c)
  <1>1. DOMAIN ws = {i} /\ ws[i] = w
    BY DEF Subject, Write
  <1>2. CASE Fits(w, row[i])
    <2>1. \A j \in DOMAIN ws : Fits(ws[j], row[j])
      BY <1>1, <1>2
    <2>2. row' = [j \in Id |-> IF j \in DOMAIN ws THEN Applied(ws[j], row[j]) ELSE row[j]]
          /\ todo' = [todo EXCEPT ![c] = Tail(@)]
      BY <2>1 DEF Commit
    <2>3. row' = [j \in Id |-> IF j = i THEN Applied(w, row[i]) ELSE row[j]]
      BY <2>2, <1>1
    <2>4. (old = None) = (row[i] = None)
      BY <1>2 DEF Fits
    <2>5. raced' = raced \cup (Watched \cap {j \in DOMAIN ws : ws[j].saw # row[j] /\ (ws[j].saw = Unseen => ws[j].put # NoField)})
      BY <2>1 DEF Commit
    <2>6. {j \in DOMAIN ws : ws[j].saw # row[j] /\ (ws[j].saw = Unseen => ws[j].put # NoField)}
            = {j \in {i} : old # row[i] /\ (old = Unseen => fields # NoField)}
      BY <1>1
    <2>7. QED
      BY <2>2, <2>3, <2>4, <2>5, <2>6
  <1>3. CASE ~Fits(w, row[i])
    <2>1. ~(\A j \in DOMAIN ws : Fits(ws[j], row[j]))
      BY <1>1, <1>3
    <2>2. End(c)
      BY <2>1 DEF Commit
    <2>3. QED
      BY <2>2 DEF End, history
  <1>4. QED
    BY <1>2, <1>3

\* The records that a single write is going to insert.
LEMMA InsertingOne ==
  ASSUME NEW i \in Id, NEW old, NEW fields, NEW more
  PROVE  Inserting(<<Write(i, old, fields, more)>>) = {j \in {i} : old = None}
  <1> DEFINE q == Write(i, old, fields, more)
  <1>1. DOMAIN <<q>> = {1} /\ <<q>>[1] = q
    OBVIOUS
  <1>2. q.do = "write" /\ DOMAIN q.on = {i} /\ q.on[i].saw = old
    BY WriteParts
  <1>3. Writes(<<q>>) = {q.on}
    BY <1>1, <1>2 DEF Writes
  <1>4. QED
    BY <1>2, <1>3 DEF Inserting

\* The data of an update are a function on the fields that are given.
LEMMA GivenIs ==
  ASSUME NEW fields
  PROVE  /\ DOMAIN Given(fields) = {g \in DOMAIN fields : fields[g] # None}
         /\ \A g \in DOMAIN Given(fields) : Given(fields)[g] = fields[g] /\ fields[g] # None
  BY DEF Given

\* An update writes the fields that are given.
LEMMA AppliedIs ==
  ASSUME NEW old, NEW fields, NEW r, fields # None, r # None
  PROVE  Applied([saw |-> old, put |-> fields, inc |-> NoField], r)
           = [f \in DOMAIN r |-> IF f \in DOMAIN fields THEN fields[f] ELSE r[f]]
  <1>1. DOMAIN NoField = {}
    BY DEF NoField
  <1>2. QED
    BY <1>1 DEF Applied

\* Two writes of different records in one query.
LEMMA BothParts ==
  ASSUME NEW i, NEW old, NEW fields, NEW more, NEW p, i \notin DOMAIN p.on,
         NEW q, q = Both(p, Write(i, old, fields, more))
  PROVE  /\ q.do = "write" /\ DOMAIN q.on = DOMAIN p.on \cup {i}
         /\ q.on[i] = [saw |-> old, put |-> fields, inc |-> more]
         /\ \A j \in DOMAIN p.on : q.on[j] = p.on[j]
  BY DEF Both, Write

\* A query that is due is done for all its records, or throws.
LEMMA CommitParts ==
  ASSUME NEW c \in Call, Commit(c), NEW ws, Subject(c) = ws
  PROVE  \/ /\ \A i \in DOMAIN ws : (ws[i].saw = None) = (row[i] = None)
            /\ row' = [i \in Id |-> IF i \in DOMAIN ws THEN Applied(ws[i], row[i]) ELSE row[i]]
            /\ todo' = [todo EXCEPT ![c] = Tail(@)]
            /\ raced' = raced \cup (Watched \cap {i \in DOMAIN ws : ws[i].saw # row[i] /\ (ws[i].saw = Unseen => ws[i].put # NoField)})
            /\ crowded' = crowded \cup Crowding(c)
         \/ /\ row' = row /\ raced' = raced /\ crowded' = crowded
            /\ todo' = [todo EXCEPT ![c] = <<>>]
  <1>1. CASE \A i \in DOMAIN ws : Fits(ws[i], row[i])
    BY <1>1 DEF Commit, Fits
  <1>2. CASE ~(\A i \in DOMAIN ws : Fits(ws[i], row[i]))
    BY <1>2 DEF Commit, End, history
  <1>3. QED
    BY <1>1, <1>2

\* The records that one query is going to insert.
LEMMA InsertingOf ==
  ASSUME NEW q
  PROVE  Inserting(<<q>>) = {i \in Id : q.do = "write" /\ i \in DOMAIN q.on /\ q.on[i].saw = None}
  <1>1. DOMAIN <<q>> = {1} /\ <<q>>[1] = q
    OBVIOUS
  <1>2. \A w : w \in Writes(<<q>>) <=> q.do = "write" /\ w = q.on
    BY <1>1 DEF Writes
  <1>3. QED
    BY <1>2 DEF Inserting

\* A call that starts leaves the history of records that are there.
LEMMA DecideParts ==
  ASSUME NEW c \in Call, NEW queries, Decide(c, queries)
  PROVE  /\ row' = row /\ todo' = [todo EXCEPT ![c] = queries] /\ todo[c] = <<>>
         /\ raced' \subseteq raced /\ crowded' \subseteq crowded
         /\ \A i : row[i] # None \/ i \notin Inserting(queries)
                  => (i \in raced' <=> i \in raced) /\ (i \in crowded' <=> i \in crowded)
  BY DEF Decide, Afresh, Free

\* The call c did its next query q on the records as they are.
Did(c, q) ==
  /\ ~Free(c) /\ q = Head(todo[c]) /\ q.do = "write"
  /\ todo' = [todo EXCEPT ![c] = Tail(todo[c])]
  /\ \A i \in DOMAIN q.on : (q.on[i].saw = None) = (row[i] = None)
  /\ row' = [i \in Id |-> IF i \in DOMAIN q.on THEN Applied(q.on[i], row[i]) ELSE row[i]]
  /\ raced' = raced \cup
       (Watched \cap {i \in DOMAIN q.on : q.on[i].saw # row[i] /\ (q.on[i].saw = Unseen => q.on[i].put # NoField)})
  /\ crowded' = crowded \cup Crowding(c)

\* No record changes, and calls may end.
Quiet ==
  /\ row' = row /\ raced' = raced /\ crowded' = crowded
  /\ \A d \in Call : todo'[d] \in {<<>>, todo[d]}

\* A step of a call or of the process is a query that is done, or changes no record.
LEMMA StepIsDone ==
  ASSUME NEW S, todo \in [Call -> S], <<>> \in S, [(\E c \in Call : Step(c)) \/ Restart]_vars
  PROVE  \/ Quiet /\ todo' \in [Call -> S]
         \/ \E c \in Call : \E q : Did(c, q)
  <1>1. ASSUME NEW c \in Call, row' = row, raced' = raced, crowded' = crowded,
               todo' = [todo EXCEPT ![c] = <<>>]
        PROVE  Quiet /\ todo' \in [Call -> S]
    BY <1>1 DEF Quiet
  <1>2. ASSUME NEW c \in Call, Commit(c)
        PROVE  (Quiet /\ todo' \in [Call -> S]) \/ \E q : Did(c, q)
    <2> DEFINE ws == Subject(c)
               q == Head(todo[c])
    <2>1. ~Free(c) /\ q.do = "write" /\ ws = q.on
      BY <1>2 DEF Commit, At, Subject
    <2>2. \/ /\ \A i \in DOMAIN ws : (ws[i].saw = None) = (row[i] = None)
             /\ row' = [i \in Id |-> IF i \in DOMAIN ws THEN Applied(ws[i], row[i]) ELSE row[i]]
             /\ todo' = [todo EXCEPT ![c] = Tail(@)]
             /\ raced' = raced \cup (Watched \cap {i \in DOMAIN ws : ws[i].saw # row[i] /\ (ws[i].saw = Unseen => ws[i].put # NoField)})
             /\ crowded' = crowded \cup Crowding(c)
          \/ row' = row /\ raced' = raced /\ crowded' = crowded /\ todo' = [todo EXCEPT ![c] = <<>>]
      BY <1>2, CommitParts
    <2>3. [todo EXCEPT ![c] = Tail(@)] = [todo EXCEPT ![c] = Tail(todo[c])]
      OBVIOUS
    <2> HIDE DEF q, ws
    <2>4. q = Head(todo[c])
      BY DEF q
    <2>5. (row' = row /\ raced' = raced /\ crowded' = crowded /\ todo' = [todo EXCEPT ![c] = <<>>]) \/ Did(c, q)
      BY <2>1, <2>2, <2>3, <2>4 DEF Did
    <2>6. QED
      BY <1>1, <2>5
  <1>3. ASSUME NEW c \in Call, Fail(c) PROVE Quiet /\ todo' \in [Call -> S]
    BY <1>1, <1>3 DEF Fail, End, history
  <1>4. CASE Restart
    BY <1>4 DEF Restart, history, Quiet
  <1>5. CASE UNCHANGED vars
    BY <1>5 DEF vars, Quiet
  <1>6. QED
    BY <1>2, <1>3, <1>4, <1>5 DEF Step

-------------------------------------------------------------------------------
(* Calls of one query *)

OneQuery(Q) == [Call -> {<<>>} \cup {<<q>> : q \in Q}]

\* The call c did its query q on the records as they are.
Done(c, q) ==
  /\ todo[c] = <<q>> /\ todo' = [todo EXCEPT ![c] = <<>>]
  /\ \A i \in DOMAIN q.on : (q.on[i].saw = None) = (row[i] = None)
  /\ row' = [i \in Id |-> IF i \in DOMAIN q.on THEN Applied(q.on[i], row[i]) ELSE row[i]]
  /\ raced' = raced \cup
       (Watched \cap {i \in DOMAIN q.on : q.on[i].saw # row[i] /\ (q.on[i].saw = Unseen => q.on[i].put # NoField)})
  /\ crowded' = crowded \cup Crowding(c)

LEMMA QueryOf ==
  ASSUME NEW Q, todo \in OneQuery(Q), NEW c \in Call, ~Free(c)
  PROVE  \E q \in Q : todo[c] = <<q>> /\ Head(todo[c]) = q /\ todo[c][1] = q /\ Tail(todo[c]) = <<>>
  <1>1. PICK q \in Q : todo[c] = <<q>>
    BY DEF OneQuery, Free
  <1>2. Head(<<q>>) = q /\ <<q>>[1] = q
    OBVIOUS
  <1>3. Tail(<<q>>) = <<>>
    OBVIOUS
  <1>4. QED
    BY <1>1, <1>2, <1>3

\* A call that has ended has nothing to do that it could not do before.
LEMMA OneQueryEnds ==
  ASSUME NEW Q, todo \in OneQuery(Q), NEW c \in Call, todo' = [todo EXCEPT ![c] = <<>>]
  PROVE  /\ todo' \in OneQuery(Q)
         /\ todo'[c] = <<>> /\ \A d \in Call \ {c} : todo'[d] = todo[d]
         /\ \A d \in Call : todo'[d] \in {<<>>, todo[d]}
  BY DEF OneQuery

LEMMA OneQueryDecided ==
  ASSUME NEW Q, todo \in OneQuery(Q), NEW c \in Call, NEW q \in Q, Decide(c, <<q>>)
  PROVE  todo' \in OneQuery(Q) /\ todo'[c] = <<q>> /\ \A d \in Call \ {c} : todo'[d] = todo[d]
  BY DecideParts DEF OneQuery

LEMMA OneQueryDone ==
  ASSUME NEW Q, todo \in OneQuery(Q), [(\E c \in Call : Step(c)) \/ Restart]_vars
  PROVE  /\ todo' \in OneQuery(Q)
         /\ Quiet \/ \E c \in Call, q \in Q : q.do = "write" /\ Done(c, q)
  <1> DEFINE S == {<<>>} \cup {<<q>> : q \in Q}
  <1>1. todo \in [Call -> S] /\ <<>> \in S
    BY DEF OneQuery
  <1> HIDE DEF S
  <1>2. \/ Quiet /\ todo' \in [Call -> S]
        \/ \E c \in Call : \E q : Did(c, q)
    BY <1>1, StepIsDone
  <1>3. ASSUME NEW c \in Call, NEW q, Did(c, q)
        PROVE  todo' \in OneQuery(Q) /\ q \in Q /\ q.do = "write" /\ Done(c, q)
    <2>1. ~Free(c) /\ q = Head(todo[c]) /\ q.do = "write" /\ todo' = [todo EXCEPT ![c] = Tail(todo[c])]
      BY <1>3 DEF Did
    <2>2. q \in Q /\ todo[c] = <<q>> /\ Tail(todo[c]) = <<>>
      BY <2>1, QueryOf
    <2>3. todo' = [todo EXCEPT ![c] = <<>>]
      BY <2>1, <2>2
    <2>4. QED
      BY <1>3, <2>1, <2>2, <2>3, OneQueryEnds DEF Did, Done
  <1>4. QED
    BY <1>2, <1>3 DEF OneQuery, S

\* Whatever another call does crowds the rivals that a call is about to insert.
LEMMA DoneCrowds ==
  ASSUME NEW c \in Call, NEW q, Done(c, q), NEW d \in Call \ {c}, NEW p, todo[d] = <<p>>,
         p.do = "write", NEW i \in Id \cap Rival, i \in DOMAIN p.on, p.on[i].saw = None
  PROVE  i \in crowded'
  <1>1. i \in Inserting(todo[d])
    BY InsertingOf
  <1>2. i \in Crowding(c)
    BY <1>1 DEF Crowding
  <1>3. QED
    BY <1>2 DEF Done

\* The record that a name belongs to which a call may take is nobody's.
LEMMA UnusedIsFree ==
  ASSUME NEW T, NEW i \in Unused(T), NEW d \in Call, NEW p, todo[d] = <<p>>, p.do = "write"
  PROVE  i \in T /\ row[i] = None /\ i \notin DOMAIN p.on
  <1>1. DOMAIN <<p>> = {1} /\ <<p>>[1] = p
    OBVIOUS
  <1>2. p.on \in Writes(todo[d])
    BY <1>1 DEF Writes
  <1>3. QED
    BY <1>2 DEF Unused, Pending


-------------------------------------------------------------------------------
(***************************************************************************)
(* Sums over finite sets.  A statement about a finite set is proved by its *)
(* smallest counterexample: the subsets of a finite set are well-founded.  *)
(***************************************************************************)

\* A smallest set among finite ones.
LEMMA SmallestSet ==
  ASSUME NEW S, IsFiniteSet(S), NEW Z \in SUBSET (SUBSET S), Z # {}
  PROVE  \E T \in Z : \A U \in Z : U \subseteq T => U = T
  <1>1. IsWellFoundedOn(StrictSubsetOrdering(S), FiniteSubsetsOf(S))
    BY FS_StrictSubsetOrderingWellFounded
  <1>2. Z \subseteq FiniteSubsetsOf(S)
    BY FS_Subset DEF FiniteSubsetsOf
  <1>3. PICK T \in Z : \A U \in Z : ~(<<U, T>> \in StrictSubsetOrdering(S))
    BY <1>1, <1>2, WFMin
  <1>4. ASSUME NEW U \in Z, U \subseteq T, U # T
        PROVE  FALSE
    <2>1. <<U, T>> \in StrictSubsetOrdering(S)
      BY <1>4 DEF StrictSubsetOrdering
    <2>2. QED
      BY <1>3, <2>1
  <1>5. \A U \in Z : U \subseteq T => U = T
    BY <1>4
  <1>6. QED
    BY <1>5

\* Induction over the subsets of a finite set.
LEMMA SubsetInduction ==
  ASSUME NEW S, IsFiniteSet(S), NEW Z,
         \A T \in SUBSET S : (\A U \in SUBSET T : U # T => U \in Z) => T \in Z
  PROVE  S \in Z
  <1> SUFFICES ASSUME S \notin Z PROVE FALSE
    OBVIOUS
  <1> DEFINE W == (SUBSET S) \ Z
  <1>1. W \in SUBSET (SUBSET S) /\ W # {}
    OBVIOUS
  <1> HIDE DEF W
  <1>2. PICK T \in W : \A U \in W : U \subseteq T => U = T
    BY <1>1, SmallestSet
  <1>3. QED
    BY <1>1, <1>2 DEF W

\* Induction over the natural numbers.
LEMMA NumberInduction ==
  ASSUME NEW Z, 0 \in Z, \A n \in Nat : n \in Z => n + 1 \in Z, NEW n \in Nat
  PROVE  n \in Z
  <1> SUFFICES ASSUME n \notin Z PROVE FALSE
    OBVIOUS
  <1> DEFINE W == {0..m : m \in {k \in 0..n : k \notin Z}}
  <1>1. IsFiniteSet(0..n)
    BY FS_Interval
  <1>2. W \in SUBSET (SUBSET (0..n)) /\ 0..n \in W
    OBVIOUS
  <1>3. PICK T \in W : \A U \in W : U \subseteq T => U = T
    <2> DEFINE S == 0..n
    <2>1. IsFiniteSet(S) /\ W \in SUBSET (SUBSET S) /\ W # {}
      BY <1>1, <1>2
    <2> HIDE DEF W, S
    <2>2. QED
      BY <2>1, SmallestSet
  <1>4. PICK m \in 0..n : m \notin Z /\ T = 0..m
    OBVIOUS
  <1>5. m - 1 \in 0..n /\ m - 1 \notin Z
    BY <1>4
  <1>6. 0..(m-1) \in W /\ 0..(m-1) \subseteq T
    BY <1>4, <1>5
  <1>7. 0..(m-1) = T
    <2> HIDE DEF W
    <2> QED BY <1>3, <1>6
  <1>8. m \in 0..m /\ m \notin 0..(m-1)
    BY <1>4
  <1>9. QED
    BY <1>4, <1>7, <1>8

-------------------------------------------------------------------------------
(* Sums *)

Pick(S) == CHOOSE x \in S : TRUE

\* F gives the sums of subsets of S.
SumsUp(F, f, S) ==
  F = [T \in SUBSET S |-> IF T = {} THEN 0 ELSE f[Pick(T)] + F[T \ {Pick(T)}]]

LEMMA SumIs ==
  ASSUME NEW f, NEW S
  PROVE  SumFunctionOnSet(f, S) = (CHOOSE F : SumsUp(F, f, S))[S]
  BY DEF SumFunctionOnSet, FoldFunctionOnSet, MapThenFoldSet, SumsUp, Pick

\* The same, for the subsets of so many elements.
SumsUpTo(F, f, S, n) ==
  F = [T \in {U \in SUBSET S : Cardinality(U) <= n} |->
         IF T = {} THEN 0 ELSE f[Pick(T)] + F[T \ {Pick(T)}]]

\* The step of SumExists.
LEMMA OneMore ==
  ASSUME NEW f, NEW S, IsFiniteSet(S), NEW n \in Nat, NEW F, SumsUpTo(F, f, S, n)
  PROVE  \E G : SumsUpTo(G, f, S, n + 1)
  <1> DEFINE D == {U \in SUBSET S : Cardinality(U) <= n}
             E == {U \in SUBSET S : Cardinality(U) <= n + 1}
             G == [T \in E |-> IF T = {} THEN 0 ELSE f[Pick(T)] + F[T \ {Pick(T)}]]
  <1>1. ASSUME NEW T \in E, T # {} PROVE T \ {Pick(T)} \in D
    <2>1. Pick(T) \in T
      BY <1>1 DEF Pick
    <2>2. IsFiniteSet(T) /\ T \in SUBSET S
      BY FS_Subset
    <2>3. Cardinality(T \ {Pick(T)}) = Cardinality(T) - 1 /\ Cardinality(T) \in Nat
      BY <2>1, <2>2, FS_RemoveElement, FS_CardinalityType
    <2>4. QED
      BY <2>2, <2>3
  <1>2. ASSUME NEW T \in D PROVE G[T] = F[T]
    <2>1. T \in E
      <3>1. Cardinality(T) \in Nat
        BY FS_Subset, FS_CardinalityType
      <3>2. QED
        BY <3>1
    <2>2. F[T] = IF T = {} THEN 0 ELSE f[Pick(T)] + F[T \ {Pick(T)}]
      BY <1>2 DEF SumsUpTo
    <2>3. QED
      BY <2>1, <2>2
  <1> HIDE DEF D
  <1>3. G = [T \in E |-> IF T = {} THEN 0 ELSE f[Pick(T)] + G[T \ {Pick(T)}]]
    <2>1. ASSUME NEW T \in E
          PROVE  G[T] = IF T = {} THEN 0 ELSE f[Pick(T)] + G[T \ {Pick(T)}]
      BY <1>1, <1>2
    <2> DEFINE H == [T \in E |-> IF T = {} THEN 0 ELSE f[Pick(T)] + G[T \ {Pick(T)}]]
    <2>2. \A T \in E : G[T] = H[T]
      BY <2>1
    <2>3. QED
      BY <2>2
  <1>4. SumsUpTo(G, f, S, n + 1)
    BY <1>3 DEF SumsUpTo
  <1>5. QED
    BY <1>4

LEMMA SumExists ==
  ASSUME NEW f, NEW S, IsFiniteSet(S)
  PROVE  \E F : SumsUp(F, f, S)
  <1> DEFINE Z == {n \in Nat : \E F : SumsUpTo(F, f, S, n)}
  <1>1. 0 \in Z
    <2> DEFINE F == [T \in {U \in SUBSET S : Cardinality(U) <= 0} |-> 0]
    <2>1. ASSUME NEW T \in SUBSET S, Cardinality(T) <= 0 PROVE T = {}
      <3>1. IsFiniteSet(T) /\ Cardinality(T) \in Nat
        BY FS_Subset, FS_CardinalityType
      <3>2. QED
        BY <2>1, <3>1, FS_EmptySet
    <2>2. SumsUpTo(F, f, S, 0)
      BY <2>1 DEF SumsUpTo
    <2>3. QED
      BY <2>2
  <1>2. \A n \in Nat : n \in Z => n + 1 \in Z
    BY OneMore
  <1>3. Cardinality(S) \in Nat
    BY FS_CardinalityType
  <1>4. Cardinality(S) \in Z
    <2> HIDE DEF Z
    <2>1. QED
      BY <1>1, <1>2, <1>3, NumberInduction
  <1>5. PICK F : SumsUpTo(F, f, S, Cardinality(S))
    BY <1>4
  <1>6. {U \in SUBSET S : Cardinality(U) <= Cardinality(S)} = SUBSET S
    BY FS_Subset
  <1>7. SumsUp(F, f, S)
    BY <1>5, <1>6 DEF SumsUp, SumsUpTo
  <1>8. QED
    BY <1>7

LEMMA SumsAgree ==
  ASSUME NEW f, NEW S, IsFiniteSet(S), NEW T \in SUBSET S,
         NEW F, SumsUp(F, f, S), NEW G, SumsUp(G, f, T)
  PROVE  F[T] = G[T]
  <1> DEFINE Z == {U \in SUBSET T : F[U] = G[U]}
  <1>1. ASSUME NEW U \in SUBSET T, \A V \in SUBSET U : V # U => V \in Z
        PROVE  U \in Z
    <2>1. /\ F[U] = IF U = {} THEN 0 ELSE f[Pick(U)] + F[U \ {Pick(U)}]
          /\ G[U] = IF U = {} THEN 0 ELSE f[Pick(U)] + G[U \ {Pick(U)}]
      <3>1. U \in SUBSET S
        OBVIOUS
      <3>2. QED
        BY <3>1 DEF SumsUp
    <2>2. CASE U = {}
      BY <2>1, <2>2
    <2>3. CASE U # {}
      <3>1. Pick(U) \in U
        BY <2>3 DEF Pick
      <3>2. U \ {Pick(U)} \in Z
        BY <1>1, <3>1
      <3>3. QED
        BY <2>1, <2>3, <3>2
    <2>4. QED
      BY <2>2, <2>3
  <1>2. IsFiniteSet(T)
    BY FS_Subset
  <1>3. T \in Z
    <2> HIDE DEF Z
    <2>1. QED
      BY <1>1, <1>2, SubsetInduction
  <1>4. QED
    BY <1>3

\* The definition of the sum, unfolded once.
LEMMA SumUnfolds ==
  ASSUME NEW f, NEW S, IsFiniteSet(S)
  PROVE  SumFunctionOnSet(f, S) =
           IF S = {} THEN 0 ELSE f[Pick(S)] + SumFunctionOnSet(f, S \ {Pick(S)})
  <1> DEFINE T == S \ {Pick(S)}
             F == CHOOSE F : SumsUp(F, f, S)
             G == CHOOSE G : SumsUp(G, f, T)
  <1>1. T \in SUBSET S /\ IsFiniteSet(T)
    BY FS_Subset
  <1>2. SumsUp(F, f, S)
    BY SumExists
  <1>3. SumsUp(G, f, T)
    <2> HIDE DEF T
    <2>1. QED
      BY <1>1, SumExists
  <1>4. SumFunctionOnSet(f, S) = F[S] /\ SumFunctionOnSet(f, T) = G[T]
    <2>1. SumFunctionOnSet(f, S) = F[S]
      BY SumIs
    <2>2. SumFunctionOnSet(f, T) = G[T]
      BY SumIs
    <2>3. QED
      BY <2>1, <2>2
  <1> HIDE DEF F, G
  <1>5. F[T] = G[T]
    <2> HIDE DEF T
    <2>1. QED
      BY <1>1, <1>2, <1>3, SumsAgree
  <1>6. F[S] = IF S = {} THEN 0 ELSE f[Pick(S)] + F[T]
    BY <1>2 DEF SumsUp
  <1>7. QED
    BY <1>4, <1>5, <1>6

\* A sum of naturals is one.
LEMMA SumIsNat ==
  ASSUME NEW f, NEW S, IsFiniteSet(S), \A x \in S : f[x] \in Nat
  PROVE  SumFunctionOnSet(f, S) \in Nat
  <1> DEFINE Z == {T \in SUBSET S : SumFunctionOnSet(f, T) \in Nat}
  <1>1. ASSUME NEW T \in SUBSET S, \A U \in SUBSET T : U # T => U \in Z
        PROVE  T \in Z
    <2>1. IsFiniteSet(T)
      BY FS_Subset
    <2>2. SumFunctionOnSet(f, T) =
            IF T = {} THEN 0 ELSE f[Pick(T)] + SumFunctionOnSet(f, T \ {Pick(T)})
      BY <2>1, SumUnfolds
    <2>3. CASE T # {}
      <3>1. Pick(T) \in T
        BY <2>3 DEF Pick
      <3>2. T \ {Pick(T)} \in Z
        BY <1>1, <3>1
      <3>3. QED
        BY <2>2, <2>3, <3>1, <3>2
    <2>4. QED
      BY <2>2, <2>3
  <1>2. S \in Z
    <2> HIDE DEF Z
    <2>1. QED
      BY <1>1, SubsetInduction
  <1>3. QED
    BY <1>2

\* Any of the summands may be the first.
LEMMA SumWithout ==
  ASSUME NEW f, NEW S, IsFiniteSet(S), \A x \in S : f[x] \in Nat, NEW x \in S
  PROVE  SumFunctionOnSet(f, S) = f[x] + SumFunctionOnSet(f, S \ {x})
  <1> DEFINE Sum(T) == SumFunctionOnSet(f, T)
             Z == {T \in SUBSET S : \A y \in T : Sum(T) = f[y] + Sum(T \ {y})}
  <1>1. ASSUME NEW T \in SUBSET S, \A U \in SUBSET T : U # T => U \in Z
        PROVE  T \in Z
    <2> SUFFICES ASSUME NEW y \in T PROVE Sum(T) = f[y] + Sum(T \ {y})
      OBVIOUS
    <2> DEFINE p == Pick(T)
    <2>1. p \in T
      BY DEF Pick
    <2>2. IsFiniteSet(T)
      BY FS_Subset
    <2>3. Sum(T) = f[p] + Sum(T \ {p})
      BY <2>2, SumUnfolds
    <2> HIDE DEF p
    <2>4. CASE p = y
      BY <2>3, <2>4
    <2>5. CASE p # y
      <3>1. T \ {p} \in Z /\ T \ {y} \in Z
        BY <1>1, <2>1
      <3>2. Sum(T \ {p}) = f[y] + Sum((T \ {p}) \ {y})
        BY <2>5, <3>1
      <3>3. Sum(T \ {y}) = f[p] + Sum((T \ {y}) \ {p})
        BY <2>1, <2>5, <3>1
      <3>4. (T \ {p}) \ {y} = (T \ {y}) \ {p}
        OBVIOUS
      <3>5. Sum((T \ {y}) \ {p}) \in Nat
        <4>1. IsFiniteSet((T \ {y}) \ {p})
          BY FS_Subset
        <4>2. QED
          BY <4>1, SumIsNat
      <3>6. f[p] \in Nat /\ f[y] \in Nat
        BY <2>1
      <3> HIDE DEF Sum
      <3>7. QED
        BY <2>3, <3>2, <3>3, <3>4, <3>5, <3>6
    <2>6. QED
      BY <2>4, <2>5
  <1>2. S \in Z
    <2> HIDE DEF Z
    <2>1. QED
      BY <1>1, SubsetInduction
  <1>3. QED
    BY <1>2

\* A sum of summands that are no less.
LEMMA SumIsNoLess ==
  ASSUME NEW f, NEW g, NEW S, IsFiniteSet(S), \A x \in S : f[x] \in Nat /\ g[x] \in Nat /\ f[x] <= g[x]
  PROVE  SumFunctionOnSet(f, S) <= SumFunctionOnSet(g, S)
  <1> DEFINE Z == {T \in SUBSET S : SumFunctionOnSet(f, T) <= SumFunctionOnSet(g, T)}
  <1>1. ASSUME NEW T \in SUBSET S, \A U \in SUBSET T : U # T => U \in Z
        PROVE  T \in Z
    <2>1. IsFiniteSet(T)
      BY FS_Subset
    <2>2. /\ SumFunctionOnSet(f, T) =
               IF T = {} THEN 0 ELSE f[Pick(T)] + SumFunctionOnSet(f, T \ {Pick(T)})
          /\ SumFunctionOnSet(g, T) =
               IF T = {} THEN 0 ELSE g[Pick(T)] + SumFunctionOnSet(g, T \ {Pick(T)})
      BY <2>1, SumUnfolds
    <2>3. CASE T # {}
      <3>1. Pick(T) \in T
        BY <2>3 DEF Pick
      <3>2. T \ {Pick(T)} \in Z
        BY <1>1, <3>1
      <3>3. SumFunctionOnSet(f, T \ {Pick(T)}) \in Nat /\ SumFunctionOnSet(g, T \ {Pick(T)}) \in Nat
        <4>1. IsFiniteSet(T \ {Pick(T)})
          BY FS_Subset
        <4>2. QED
          BY <4>1, SumIsNat
      <3>4. QED
        BY <2>2, <2>3, <3>1, <3>2, <3>3
    <2>4. QED
      BY <2>2, <2>3
  <1>2. S \in Z
    <2> HIDE DEF Z
    <2>1. QED
      BY <1>1, SubsetInduction
  <1>3. QED
    BY <1>2

LEMMA SumIsSame ==
  ASSUME NEW f, NEW g, NEW S, IsFiniteSet(S), \A x \in S : f[x] \in Nat /\ f[x] = g[x]
  PROVE  SumFunctionOnSet(f, S) = SumFunctionOnSet(g, S)
  <1>1. /\ SumFunctionOnSet(f, S) <= SumFunctionOnSet(g, S)
        /\ SumFunctionOnSet(g, S) <= SumFunctionOnSet(f, S)
    BY SumIsNoLess
  <1>2. SumFunctionOnSet(f, S) \in Nat /\ SumFunctionOnSet(g, S) \in Nat
    BY SumIsNat
  <1>3. QED
    BY <1>1, <1>2

\* Fewer summands make no more.
LEMMA SumOfFewer ==
  ASSUME NEW f, NEW S, IsFiniteSet(S), \A x \in S : f[x] \in Nat, NEW T \in SUBSET S
  PROVE  SumFunctionOnSet(f, T) <= SumFunctionOnSet(f, S)
  <1> DEFINE Z == {U \in SUBSET S : SumFunctionOnSet(f, U \cap T) <= SumFunctionOnSet(f, U)}
  <1>1. ASSUME NEW U \in SUBSET S, \A V \in SUBSET U : V # U => V \in Z
        PROVE  U \in Z
    <2>1. IsFiniteSet(U) /\ IsFiniteSet(U \cap T)
      BY FS_Subset
    <2>2. CASE U = {}
      <3>1. U \cap T = U
        BY <2>2
      <3>2. SumFunctionOnSet(f, U) = 0
        BY <2>1, <2>2, SumUnfolds
      <3>3. SumFunctionOnSet(f, U \cap T) = SumFunctionOnSet(f, U)
        BY <3>1
      <3>4. QED
        BY <3>2, <3>3
    <2>3. CASE U # {}
      <3>1. PICK x \in U : TRUE
        BY <2>3
      <3> DEFINE V == U \ {x}
      <3>2. V \in Z /\ IsFiniteSet(V) /\ IsFiniteSet(V \cap T)
        BY <1>1, FS_Subset
      <3>3. SumFunctionOnSet(f, U) = f[x] + SumFunctionOnSet(f, V)
        BY <2>1, SumWithout
      <3>4. /\ SumFunctionOnSet(f, V) \in Nat /\ f[x] \in Nat
            /\ SumFunctionOnSet(f, V \cap T) \in Nat
        BY <3>2, SumIsNat
      <3>5. CASE x \in T
        <4>1. (U \cap T) \ {x} = V \cap T /\ x \in U \cap T
          BY <3>5
        <4>2. SumFunctionOnSet(f, U \cap T) = f[x] + SumFunctionOnSet(f, (U \cap T) \ {x})
          <5> DEFINE W == U \cap T
          <5>1. IsFiniteSet(W) /\ x \in W /\ \A y \in W : f[y] \in Nat
            BY <2>1, <4>1
          <5> HIDE DEF W
          <5>2. SumFunctionOnSet(f, W) = f[x] + SumFunctionOnSet(f, W \ {x})
            BY <5>1, SumWithout
          <5>3. QED
            BY <5>2 DEF W
        <4>3. SumFunctionOnSet(f, U \cap T) = f[x] + SumFunctionOnSet(f, V \cap T)
          BY <4>1, <4>2
        <4> HIDE DEF V
        <4>4. QED
          BY <3>2, <3>3, <3>4, <4>3
      <3>6. CASE x \notin T
        <4>1. U \cap T = V \cap T
          BY <3>6
        <4> HIDE DEF V
        <4>2. QED
          BY <3>2, <3>3, <3>4, <4>1
      <3>7. QED
        BY <3>5, <3>6
    <2>4. QED
      BY <2>2, <2>3
  <1>2. S \in Z
    <2> HIDE DEF Z
    <2>1. QED
      BY <1>1, SubsetInduction
  <1>3. S \cap T = T
    OBVIOUS
  <1>4. QED
    BY <1>2, <1>3

\* The amount that is added to the sum is the one by which an addend grows.
LEMMA SumChanges ==
  ASSUME NEW f, NEW g, NEW S, IsFiniteSet(S), \A x \in S : f[x] \in Nat /\ g[x] \in Nat,
         NEW x \in S, \A y \in S \ {x} : g[y] = f[y]
  PROVE  SumFunctionOnSet(g, S) + f[x] = SumFunctionOnSet(f, S) + g[x]
  <1> DEFINE T == S \ {x}
  <1>1. IsFiniteSet(T)
    BY FS_Subset
  <1>2. SumFunctionOnSet(f, S) = f[x] + SumFunctionOnSet(f, T)
    BY SumWithout
  <1>3. SumFunctionOnSet(g, S) = g[x] + SumFunctionOnSet(g, T)
    BY SumWithout
  <1>4. SumFunctionOnSet(f, T) = SumFunctionOnSet(g, T)
    BY <1>1, SumIsSame
  <1>5. SumFunctionOnSet(f, T) \in Nat
    BY <1>1, SumIsNat
  <1>6. QED
    BY <1>2, <1>3, <1>4, <1>5

LEMMA SumOfZeros ==
  ASSUME NEW f, NEW S, IsFiniteSet(S), \A x \in S : f[x] = 0
  PROVE  SumFunctionOnSet(f, S) = 0
  <1> DEFINE Z == {T \in SUBSET S : SumFunctionOnSet(f, T) = 0}
  <1>1. ASSUME NEW T \in SUBSET S, \A U \in SUBSET T : U # T => U \in Z PROVE T \in Z
    <2>1. IsFiniteSet(T)
      BY FS_Subset
    <2>2. SumFunctionOnSet(f, T) = IF T = {} THEN 0 ELSE f[Pick(T)] + SumFunctionOnSet(f, T \ {Pick(T)})
      BY <2>1, SumUnfolds
    <2>3. CASE T = {}
      BY <2>2, <2>3
    <2>4. CASE T # {}
      <3>1. Pick(T) \in T
        BY <2>4 DEF Pick
      <3>2. T \ {Pick(T)} \in Z
        BY <1>1, <3>1
      <3>3. QED
        BY <2>2, <2>4, <3>1, <3>2
    <2>5. QED
      BY <2>3, <2>4
  <1> HIDE DEF Z
  <1>2. S \in Z
    BY <1>1, SubsetInduction
  <1>3. QED
    BY <1>2 DEF Z

-------------------------------------------------------------------------------
(* Folds over a set of numbers, from the least to the largest *)

LEMMA LargestIsIn ==
  ASSUME NEW T \in SUBSET Nat, IsFiniteSet(T), T # {}
  PROVE  Max(T) \in T
  <1> DEFINE Z == {U \in SUBSET T : U # {} => \E m \in U : \A n \in U : m >= n}
  <1>1. ASSUME NEW U \in SUBSET T, \A V \in SUBSET U : V # U => V \in Z
        PROVE  U \in Z
    <2> SUFFICES ASSUME U # {} PROVE \E m \in U : \A n \in U : m >= n
      OBVIOUS
    <2>1. PICK x \in U : TRUE
      OBVIOUS
    <2> DEFINE V == U \ {x}
    <2>2. V \in Z
      BY <1>1
    <2>3. CASE V = {}
      <3>1. U = {x} /\ x \in Nat
        BY <2>3
      <3>2. QED
        BY <3>1
    <2>4. CASE V # {}
      <3>1. PICK m \in V : \A n \in V : m >= n
        BY <2>2, <2>4
      <3>2. m \in Nat /\ x \in Nat /\ \A n \in U : n \in Nat /\ (n = x \/ n \in V)
        OBVIOUS
      <3>3. CASE m >= x
        BY <3>1, <3>2, <3>3
      <3>4. CASE ~(m >= x)
        <4>1. \A n \in U : x >= n
          BY <3>1, <3>2, <3>4
        <4>2. QED
          BY <4>1
      <3>5. QED
        BY <3>3, <3>4
    <2>5. QED
      BY <2>3, <2>4
  <1>2. T \in Z
    <2> HIDE DEF Z
    <2>1. QED
      BY <1>1, SubsetInduction
  <1>3. \E m \in T : \A n \in T : m >= n
    BY <1>2
  <1>4. QED
    BY <1>3 DEF Max

\* F gives what the steps h of the elements of a subset of D make of base, the largest last.
Folds(F, h, base, D) ==
  F = [T \in SUBSET D |-> IF T = {} THEN base ELSE h[Max(T)][F[T \ {Max(T)}]]]

\* The same, for the subsets of so many elements.
FoldsUpTo(F, h, base, D, n) ==
  F = [T \in {U \in SUBSET D : Cardinality(U) <= n} |->
         IF T = {} THEN base ELSE h[Max(T)][F[T \ {Max(T)}]]]

\* The step of FoldExists.
LEMMA OneStepMore ==
  ASSUME NEW D \in SUBSET Nat, IsFiniteSet(D), NEW h, NEW base, NEW n \in Nat, NEW F, FoldsUpTo(F, h, base, D, n)
  PROVE  \E G : FoldsUpTo(G, h, base, D, n + 1)
  <1> DEFINE B == {U \in SUBSET D : Cardinality(U) <= n}
             E == {U \in SUBSET D : Cardinality(U) <= n + 1}
             G == [T \in E |-> IF T = {} THEN base ELSE h[Max(T)][F[T \ {Max(T)}]]]
  <1>1. ASSUME NEW T \in E, T # {} PROVE T \ {Max(T)} \in B
    <2>1. IsFiniteSet(T) /\ T \in SUBSET D
      BY FS_Subset
    <2>2. Max(T) \in T
      BY <1>1, <2>1, LargestIsIn
    <2>3. Cardinality(T \ {Max(T)}) = Cardinality(T) - 1 /\ Cardinality(T) \in Nat
      BY <2>1, <2>2, FS_RemoveElement, FS_CardinalityType
    <2> DEFINE U == T \ {Max(T)}
    <2>4. U \in SUBSET D /\ Cardinality(U) = Cardinality(T) - 1 /\ Cardinality(T) <= n + 1
      BY <2>1, <2>3
    <2> HIDE DEF U
    <2>5. Cardinality(U) <= n
      BY <2>3, <2>4
    <2>6. QED
      BY <2>4, <2>5 DEF U
  <1>2. ASSUME NEW T \in B PROVE G[T] = F[T]
    <2>1. T \in E
      <3>1. Cardinality(T) \in Nat
        BY FS_Subset, FS_CardinalityType
      <3>2. QED
        BY <3>1
    <2>2. F[T] = IF T = {} THEN base ELSE h[Max(T)][F[T \ {Max(T)}]]
      BY <1>2 DEF FoldsUpTo
    <2>3. QED
      BY <2>1, <2>2
  <1> HIDE DEF B
  <1>3. G = [T \in E |-> IF T = {} THEN base ELSE h[Max(T)][G[T \ {Max(T)}]]]
    <2>1. ASSUME NEW T \in E
          PROVE  G[T] = IF T = {} THEN base ELSE h[Max(T)][G[T \ {Max(T)}]]
      BY <1>1, <1>2
    <2> DEFINE H == [T \in E |-> IF T = {} THEN base ELSE h[Max(T)][G[T \ {Max(T)}]]]
    <2>2. \A T \in E : G[T] = H[T]
      BY <2>1
    <2>3. QED
      BY <2>2
  <1>4. FoldsUpTo(G, h, base, D, n + 1)
    BY <1>3 DEF FoldsUpTo
  <1>5. QED
    BY <1>4

LEMMA FoldExists ==
  ASSUME NEW D \in SUBSET Nat, IsFiniteSet(D), NEW h, NEW base
  PROVE  \E F : Folds(F, h, base, D)
  <1> DEFINE Z == {n \in Nat : \E F : FoldsUpTo(F, h, base, D, n)}
  <1>1. 0 \in Z
    <2> DEFINE F == [T \in {U \in SUBSET D : Cardinality(U) <= 0} |-> base]
    <2>1. ASSUME NEW T \in SUBSET D, Cardinality(T) <= 0 PROVE T = {}
      <3>1. IsFiniteSet(T) /\ Cardinality(T) \in Nat
        BY FS_Subset, FS_CardinalityType
      <3>2. QED
        BY <2>1, <3>1, FS_EmptySet
    <2>2. FoldsUpTo(F, h, base, D, 0)
      BY <2>1 DEF FoldsUpTo
    <2>3. QED
      BY <2>2
  <1>2. \A n \in Nat : n \in Z => n + 1 \in Z
    BY OneStepMore
  <1>3. Cardinality(D) \in Nat
    BY FS_CardinalityType
  <1>4. Cardinality(D) \in Z
    <2> HIDE DEF Z
    <2>1. QED
      BY <1>1, <1>2, <1>3, NumberInduction
  <1>5. PICK F : FoldsUpTo(F, h, base, D, Cardinality(D))
    BY <1>4
  <1>6. {U \in SUBSET D : Cardinality(U) <= Cardinality(D)} = SUBSET D
    BY FS_Subset
  <1>7. Folds(F, h, base, D)
    BY <1>5, <1>6 DEF Folds, FoldsUpTo
  <1>8. QED
    BY <1>7

\* Steps that stay in X.
LEMMA FoldStaysIn ==
  ASSUME NEW D \in SUBSET Nat, IsFiniteSet(D), NEW X, NEW base \in X, NEW h,
         \A k \in D, v \in X : h[k][v] \in X, NEW F, Folds(F, h, base, D), NEW T \in SUBSET D
  PROVE  F[T] \in X
  <1> DEFINE Z == {U \in SUBSET D : F[U] \in X}
  <1>1. ASSUME NEW U \in SUBSET D, \A V \in SUBSET U : V # U => V \in Z
        PROVE  U \in Z
    <2>1. F[U] = IF U = {} THEN base ELSE h[Max(U)][F[U \ {Max(U)}]]
      BY DEF Folds
    <2>2. CASE U # {}
      <3>1. Max(U) \in U
        BY <2>2, FS_Subset, LargestIsIn
      <3>2. U \ {Max(U)} \in Z
        BY <1>1, <3>1
      <3>3. QED
        BY <2>1, <2>2, <3>1, <3>2
    <2>3. QED
      BY <2>1, <2>2
  <1>2. T \in Z
    <2>1. IsFiniteSet(T) /\ \A U \in SUBSET T : (\A V \in SUBSET U : V # U => V \in Z) => U \in Z
      BY <1>1, FS_Subset
    <2> HIDE DEF Z
    <2>2. QED
      BY <2>1, SubsetInduction
  <1>3. QED
    BY <1>2

\* A gives the steps of G from values in X, and these stay there.
StepsOf(A, G, h, D, X) ==
  /\ \A k \in D, v \in X : h[k][v] \in X
  /\ \A T \in SUBSET D : T # {} /\ G[T \ {Max(T)}] \in X => A[T] = h[Max(T)][G[T \ {Max(T)}]]

UnfoldsTo(B, A, base, D) == B = [T \in SUBSET D |-> IF T = {} THEN base ELSE A[T]]

\* A function is a fold if its values are what the steps make of the value before.
LEMMA SameFold ==
  ASSUME NEW D \in SUBSET Nat, IsFiniteSet(D), NEW X, NEW base \in X,
         NEW h, NEW G, NEW A, StepsOf(A, G, h, D, X),
         NEW B, UnfoldsTo(B, A, base, D)
  PROVE  G = B <=> Folds(G, h, base, D)
  <1> DEFINE C == [T \in SUBSET D |-> IF T = {} THEN base ELSE h[Max(T)][G[T \ {Max(T)}]]]
  <1> USE DEF UnfoldsTo
  <1>1. ASSUME \A T \in SUBSET D : G[T] \in X PROVE B = C
    <2>1. ASSUME NEW T \in SUBSET D PROVE B[T] = C[T]
      <3>1. T # {} => T \ {Max(T)} \in SUBSET D
        OBVIOUS
      <3>2. QED
        BY <1>1, <3>1 DEF StepsOf
    <2>2. QED
      BY <2>1
  <1>2. ASSUME Folds(G, h, base, D) PROVE G = B
    <2>1. \A T \in SUBSET D : G[T] \in X
      BY <1>2, FoldStaysIn DEF StepsOf
    <2>2. QED
      BY <1>1, <1>2, <2>1 DEF Folds
  <1>3. ASSUME G = B PROVE Folds(G, h, base, D)
    <2> DEFINE Z == {T \in SUBSET D : G[T] \in X}
    <2>1. ASSUME NEW T \in SUBSET D, \A U \in SUBSET T : U # T => U \in Z
          PROVE  T \in Z
      <3>1. G[T] = IF T = {} THEN base ELSE A[T]
        BY <1>3
      <3>2. CASE T # {}
        <4>1. Max(T) \in T
          BY <3>2, FS_Subset, LargestIsIn
        <4>2. T \ {Max(T)} \in Z
          BY <2>1, <4>1
        <4>3. A[T] = h[Max(T)][G[T \ {Max(T)}]] /\ G[T \ {Max(T)}] \in X
          BY <3>2, <4>2 DEF StepsOf
        <4>4. QED
          BY <3>1, <3>2, <4>1, <4>3 DEF StepsOf
      <3>3. QED
        BY <3>1, <3>2
    <2>2. ASSUME NEW T \in SUBSET D PROVE T \in Z
      <3>1. IsFiniteSet(T) /\ \A U \in SUBSET T : (\A V \in SUBSET U : V # U => V \in Z) => U \in Z
        BY <2>1, FS_Subset
      <3> HIDE DEF Z
      <3>2. QED
        BY <3>1, SubsetInduction
    <2>3. \A T \in SUBSET D : G[T] \in X
      BY <2>2
    <2>4. QED
      BY <1>1, <1>3, <2>3 DEF Folds
  <1>4. QED
    BY <1>2, <1>3

-------------------------------------------------------------------------------
(* Folds in another order *)

\* Steps that come to the same in either order, from X[n] down to X[0].
Commute(h, X, D) ==
  /\ \A k \in D, n \in Nat : \A v \in X[n + 1] : h[k][v] \in X[n]
  /\ \A j, k \in D, n \in Nat : \A v \in X[n + 2] : h[j][h[k][v]] = h[k][h[j][v]]

LEMMA FoldDescends ==
  ASSUME NEW D \in SUBSET Nat, IsFiniteSet(D), NEW X, NEW N \in Nat, Cardinality(D) <= N,
         NEW base \in X[N], NEW h, Commute(h, X, D), NEW F, Folds(F, h, base, D), NEW T \in SUBSET D
  PROVE  IsFiniteSet(T) /\ Cardinality(T) \in 0..N /\ F[T] \in X[N - Cardinality(T)]
  <1> DEFINE Z == {U \in SUBSET D : F[U] \in X[N - Cardinality(U)]}
  <1>1. \A U \in SUBSET D : IsFiniteSet(U) /\ Cardinality(U) \in Nat /\ Cardinality(U) <= N
    <2> SUFFICES ASSUME NEW U \in SUBSET D PROVE IsFiniteSet(U) /\ Cardinality(U) \in Nat /\ Cardinality(U) <= N
      OBVIOUS
    <2>1. IsFiniteSet(U) /\ Cardinality(U) <= Cardinality(D) /\ Cardinality(U) \in Nat /\ Cardinality(D) \in Nat
      BY FS_Subset, FS_CardinalityType
    <2>2. QED
      BY <2>1
  <1>2. ASSUME NEW U \in SUBSET D, \A V \in SUBSET U : V # U => V \in Z
        PROVE  U \in Z
    <2>1. F[U] = IF U = {} THEN base ELSE h[Max(U)][F[U \ {Max(U)}]]
      BY DEF Folds
    <2>2. CASE U = {}
      <3>1. Cardinality(U) = 0 /\ N - 0 = N
        BY <2>2, FS_EmptySet
      <3>2. QED
        BY <2>1, <2>2, <3>1
    <2>3. CASE U # {}
      <3> DEFINE V == U \ {Max(U)}
                 n == Cardinality(V)
                 m == N - Cardinality(U)
      <3>1. Max(U) \in U
        BY <1>1, <2>3, LargestIsIn
      <3>2. V \in Z
        BY <1>2, <3>1
      <3>3. n = Cardinality(U) - 1
        BY <1>1, <3>1, FS_RemoveElement
      <3>4. m \in Nat /\ N - n = m + 1
        BY <1>1, <3>3
      <3>5. F[V] \in X[m + 1]
        BY <3>2, <3>4
      <3>6. F[U] = h[Max(U)][F[V]] /\ Max(U) \in D
        BY <2>1, <2>3, <3>1
      <3> HIDE DEF V, n, m
      <3>7. F[U] \in X[m]
        BY <3>4, <3>5, <3>6 DEF Commute
      <3>8. QED
        BY <3>7 DEF m
    <2>4. QED
      BY <2>2, <2>3
  <1>3. T \in Z
    <2>1. IsFiniteSet(T) /\ \A U \in SUBSET T : (\A V \in SUBSET U : V # U => V \in Z) => U \in Z
      BY <1>1, <1>2
    <2> HIDE DEF Z
    <2>2. QED
      BY <2>1, SubsetInduction
  <1>4. QED
    BY <1>1, <1>3

\* Any of the steps may be the last.
LEMMA AnyIsLast ==
  ASSUME NEW D \in SUBSET Nat, IsFiniteSet(D), NEW X, NEW N \in Nat, Cardinality(D) <= N,
         NEW base \in X[N], NEW h, Commute(h, X, D), NEW F, Folds(F, h, base, D),
         NEW T \in SUBSET D, NEW k \in T
  PROVE  F[T] = h[k][F[T \ {k}]]
  <1> DEFINE Z == {U \in SUBSET D : \A j \in U : F[U] = h[j][F[U \ {j}]]}
  <1>1. ASSUME NEW U \in SUBSET D, \A V \in SUBSET U : V # U => V \in Z
        PROVE  U \in Z
    <2> SUFFICES ASSUME NEW j \in U PROVE F[U] = h[j][F[U \ {j}]]
      OBVIOUS
    <2> DEFINE p == Max(U)
    <2>1. p \in U
      BY FS_Subset, LargestIsIn
    <2>2. F[U] = h[p][F[U \ {p}]]
      BY DEF Folds
    <2> HIDE DEF p
    <2>3. CASE p = j
      BY <2>2, <2>3
    <2>4. CASE p # j
      <3> DEFINE W == (U \ {p}) \ {j}
                 n == N - Cardinality(U)
      <3>1. U \ {p} \in Z /\ U \ {j} \in Z
        BY <1>1, <2>1
      <3>2. F[U \ {p}] = h[j][F[W]]
        BY <2>4, <3>1
      <3>3. (U \ {j}) \ {p} = W
        OBVIOUS
      <3>4. F[U \ {j}] = h[p][F[W]]
        BY <2>1, <2>4, <3>1, <3>3
      <3>5. n \in Nat /\ F[W] \in X[n + 2]
        <4>1. W \in SUBSET D /\ p \in U \ {j} /\ j \in U
          BY <2>1, <2>4
        <4>2. IsFiniteSet(U) /\ Cardinality(U) \in 0..N
          BY FoldDescends
        <4>3. IsFiniteSet(U \ {p}) /\ Cardinality(U \ {p}) = Cardinality(U) - 1
          BY <2>1, <4>2, FS_RemoveElement
        <4>4. Cardinality(W) = Cardinality(U) - 2
          <5>1. j \in U \ {p}
            BY <2>4
          <5>2. Cardinality(W) = Cardinality(U \ {p}) - 1
            BY <4>3, <5>1, FS_RemoveElement
          <5>3. QED
            BY <4>2, <4>3, <5>2
        <4>5. F[W] \in X[N - Cardinality(W)]
          BY <4>1, FoldDescends
        <4>6. N - Cardinality(W) = n + 2
          BY <4>2, <4>4
        <4>7. QED
          BY <4>2, <4>5, <4>6
      <3>6. j \in D /\ p \in D
        BY <2>1
      <3> HIDE DEF W, n
      <3>7. h[p][h[j][F[W]]] = h[j][h[p][F[W]]]
        BY <3>5, <3>6 DEF Commute
      <3>8. QED
        BY <2>2, <3>2, <3>4, <3>7
    <2>5. QED
      BY <2>3, <2>4
  <1>2. T \in Z
    <2>1. IsFiniteSet(T) /\ \A U \in SUBSET T : (\A V \in SUBSET U : V # U => V \in Z) => U \in Z
      BY <1>1, FS_Subset
    <2> HIDE DEF Z
    <2>2. QED
      BY <2>1, SubsetInduction
  <1>3. QED
    BY <1>2

\* Steps that commute make the same of a base in the order q, in which each comes once.
LEMMA FoldsAgree ==
  ASSUME NEW D \in SUBSET Nat, IsFiniteSet(D), NEW X, NEW N \in Nat, Cardinality(D) <= N,
         NEW base \in X[N], NEW h, Commute(h, X, D), NEW F, Folds(F, h, base, D),
         NEW q \in [D -> D], \A j, k \in D : j # k => q[j] # q[k], \A k \in D : \E j \in D : q[j] = k,
         NEW g, \A k \in D : g[k] = h[q[k]], NEW G, Folds(G, g, base, D)
  PROVE  G[D] = F[D]
  <1> DEFINE Img(U) == {q[k] : k \in U}
             Z == {U \in SUBSET D : G[U] = F[Img(U)]}
  <1>1. ASSUME NEW U \in SUBSET D, \A V \in SUBSET U : V # U => V \in Z
        PROVE  U \in Z
    <2>1. G[U] = IF U = {} THEN base ELSE g[Max(U)][G[U \ {Max(U)}]]
      BY DEF Folds
    <2>2. CASE U = {}
      <3>1. Img(U) = {}
        BY <2>2
      <3>2. F[{}] = base
        BY DEF Folds
      <3>3. QED
        BY <2>1, <2>2, <3>1, <3>2
    <2>3. CASE U # {}
      <3> DEFINE p == Max(U)
                 V == U \ {p}
      <3>1. p \in U
        BY <2>3, FS_Subset, LargestIsIn
      <3>2. V \in Z
        BY <1>1, <3>1
      <3>3. G[U] = h[q[p]][F[Img(V)]]
        BY <2>1, <2>3, <3>1, <3>2
      <3> HIDE DEF p
      <3>4. Img(V) = Img(U) \ {q[p]} /\ q[p] \in Img(U) /\ Img(U) \in SUBSET D
        BY <3>1
      <3> DEFINE W == Img(U)
                 r == q[p]
      <3>5. W \in SUBSET D /\ r \in W
        BY <3>4
      <3> HIDE DEF W, r
      <3>6. F[W] = h[r][F[W \ {r}]]
        BY <3>5, AnyIsLast
      <3>7. QED
        BY <3>3, <3>4, <3>6 DEF W, r
    <2>4. QED
      BY <2>2, <2>3
  <1>2. D \in Z
    <2> HIDE DEF Z
    <2>1. QED
      BY <1>1, SubsetInduction
  <1>3. Img(D) = D
    OBVIOUS
  <1>4. QED
    BY <1>2, <1>3
===============================================================================
