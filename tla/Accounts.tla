-------------------------------- MODULE Accounts --------------------------------
(***************************************************************************)
(* AuthService and UsersService: one user, the codes sent to verify him,   *)
(* and his refresh tokens.  A token is the signature of who he is and the  *)
(* second in which it is signed.  One that expires, like a code that does, *)
(* is refused from then on; this is like its not being used any more.      *)
(* Whoever registers with the address of a user who was removed is another *)
(* one, with tokens of his own: removal is left out.                       *)
(***************************************************************************)
EXTENDS Calls

CONSTANTS
  User,       \* the row of User with a certain address
  Code,       \* rows of OtpCode for that address
  Token,      \* strings of refresh tokens; each is unique among the rows of RefreshToken
  Clock,      \* the time of day
  MaxSecond,  \* bound: seconds told apart
  TokenOf     \* TokenOf[n]: what is signed in second n

ASSUME TokenOfAssumption == MaxSecond \in Nat /\ TokenOf \in [0..MaxSecond -> Token]

UserRow == [verified : BOOLEAN, password : BOOLEAN]
CodeRow == [verified : BOOLEAN]

\* in place of which token a token was given is not stored.
TokenRow == [revoked : BOOLEAN, for : Token \cup {None}]

ASSUME AccountsAssumption ==
  /\ {User, Clock} \cup Code \cup Token \subseteq Id /\ User # Clock
  /\ {User, Clock} \cap (Code \cup Token) = {} /\ Code \cap Token = {}
  /\ None # NoField /\ None \notin Token /\ None \notin UserRow \cup CodeRow \cup TokenRow
  /\ None \notin [revoked : BOOLEAN] /\ Unseen \notin TokenRow

AccountsRows(records) ==
  /\ records[User] \in UserRow \cup {None}
  /\ \A o \in Code : records[o] \in CodeRow \cup {None}
  /\ \A t \in Token : records[t] \in TokenRow \cup {None}
  /\ records[Clock] \in [second : 0..MaxSecond]

NoAccounts == [i \in {Clock} |-> [second |-> 0]]

SecondPasses ==
  /\ row[Clock].second < MaxSecond
  /\ Outside(Clock, [second |-> row[Clock].second + 1])

-------------------------------------------------------------------------------
(* Users *)

NewUser(verified, password) == [verified |-> verified, password |-> password]

\* generateTokens, in place of the token t.
GenerateTokens(t) == Then("sign", t)

\* The address is unique: of two registrations at once, one throws.
Register(c) ==
  /\ row[User] = None
  /\ Decide(c, <<Insert(User, NewUser(FALSE, TRUE)), GenerateTokens(None)>>)

\* An administrator creates a user.
CreateUser(c) == Decide(c, <<Insert(User, NewUser(FALSE, TRUE))>>)

Login(c) ==
  row[User] # None /\ row[User].password /\ Decide(c, <<GenerateTokens(None)>>)

\* Google vouches for the address.
SocialLogin(c) ==
  Decide(c, IF row[User] = None THEN <<Insert(User, NewUser(TRUE, FALSE)), GenerateTokens(None)>>
            ELSE <<GenerateTokens(None)>>)

-------------------------------------------------------------------------------
(* Codes *)

\* Whether the code reaches the user makes no difference here; resendOtp is the same.
SendOtp(c) == \E o \in Unused(Code) : Decide(c, <<Insert(o, [verified |-> FALSE])>>)

\* The code, then the user, if there is one with the address.
VerifyOtp(c) ==
  \E o \in Rows(Code) :
    /\ ~row[o].verified
    /\ Decide(c, <<Put(o, [verified |-> TRUE]), Overwrite(User, [verified |-> TRUE])>>)

-------------------------------------------------------------------------------
(* Tokens *)

\* Whether the token was revoked is not asked.
Mutant_MayRefresh(t) == TRUE

MayRefresh(t) == ~row[t].revoked

\* The old token is revoked, then the new one is made: when that fails the user has none.
RefreshTokens(c) ==
  \E t \in Rows(Token) :
    MayRefresh(t) /\ Decide(c, <<Put(t, [revoked |-> TRUE]), GenerateTokens(t)>>)

\* A token that is signed in the same second as another is the same, and refused by the
\* database.
Sign(c) ==
  /\ At(c, "sign")
  /\ Continue(c, "sign",
       <<Both(Insert(TokenOf[row[Clock].second], [revoked |-> FALSE, for |-> Subject(c)]),
              Exists(User))>>)

-------------------------------------------------------------------------------
AccountsNext(c) ==
  \/ Register(c) \/ CreateUser(c) \/ Login(c) \/ SocialLogin(c)
  \/ SendOtp(c) \/ VerifyOtp(c)
  \/ RefreshTokens(c) \/ Sign(c)

\* The services on their own.
AccountsSpec ==
  /\ CallsInit(NoAccounts)
  /\ [][(\E c \in Call : AccountsNext(c) \/ Step(c)) \/ SecondPasses \/ Restart]_vars

-------------------------------------------------------------------------------
(* Properties *)

\* A refresh token is given in exchange for another one time only, unless two refreshes read
\* it before either had revoked it.
TokenIsExchangedOnce ==
  \A s, t \in Rows(Token) :
    s # t /\ row[s].for = row[t].for => row[s].for \in {None} \cup raced
===============================================================================
