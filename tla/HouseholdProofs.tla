--------------------------- MODULE HouseholdProofs ---------------------------
(***************************************************************************)
(* Proofs about sign-in, for any number of profiles, credentials, requests *)
(* and restarts: the memory of credentials and profiles agrees with the    *)
(* tables, no session outlives the credential that opened it, and a lock   *)
(* holds against the requests that were hashing when it was set.           *)
(***************************************************************************)
EXTENDS Household, TLAPS

\* What a request that crossed a critical section still knows.  A claim has a
\* password; a saved claim's password is the owner's; the owner credential a
\* login has read is the owner's now, because only the first claim and the
\* recovery of a stopped server write it.
GuestsCurrent ==
  \A g \in Guests :
    /\ guest[g].at \notin Answers \cup {"idle"} => running
    /\ guest[g].at = "claiming" => guest[g].guess \in Secrets
    /\ guest[g].at \in {"saved", "assigned"} => guest[g].guess \in Secrets /\ guest[g].guess = ownerRow
    /\ guest[g].at \in {"hashing", "hashed"} /\ guest[g].for = "owner" /\ guest[g].seen # NoSecret
         => guest[g].seen = ownerRow

\* A stopped server holds nothing; an owner session was opened with a password.
Stopped == ~running => creating = {} /\ ownerMem = NoSecret
OwnerGrants == \A s \in grants : s.subject = "owner" => s.secret # NoSecret

HouseIInv == HouseInv /\ SessionsCurrent /\ GuestsCurrent /\ Stopped /\ OwnerGrants

-----------------------------------------------------------------------------

Guards == [attempts : 0 .. MaxGuesses - 1, locked : BOOLEAN]

\* The values the actions give to guards and profile rows are well typed.
LEMMA GuardTypes ==
  /\ NoGuard \in Guards
  /\ \A n \in 0 .. MaxGuesses - 1 : AfterWrong(n) \in Guards
  /\ \A b \in BOOLEAN : [attempts |-> 0, locked |-> b] \in Guards
  /\ \A guard \in Guards : [guard EXCEPT !.attempts = 0] \in Guards /\ [guard EXCEPT !.locked = FALSE] \in Guards
  <1> USE HouseholdAssumption DEF Guards
  <1>1. \A b \in BOOLEAN, n \in 0 .. MaxGuesses - 1 : [attempts |-> n, locked |-> b] \in Guards
    OBVIOUS
  <1>2. NoGuard \in Guards
    BY <1>1 DEF NoGuard
  <1>3. \A n \in 0 .. MaxGuesses - 1 : AfterWrong(n) \in Guards
    BY <1>1 DEF AfterWrong
  <1>4. \A guard \in Guards : [guard EXCEPT !.attempts = 0] \in Guards
    OBVIOUS
  <1>5. \A guard \in Guards : [guard EXCEPT !.locked = FALSE] \in Guards
    OBVIOUS
  <1> QED
    BY <1>1, <1>2, <1>3, <1>4, <1>5

\* The rows the sign-in attempts, PIN changes and recoveries write are well typed.
LEMMA RowTypes ==
  /\ Unknown \in ProfileRows
  /\ \A x \in Credentials : [exists |-> TRUE, secret |-> x, attempts |-> 0, locked |-> FALSE] \in ProfileRows
  /\ \A f \in [HouseProfiles -> ProfileRows], p \in HouseProfiles :
       /\ \A guard \in Guards : Persisted(f, p, guard) \in [HouseProfiles -> ProfileRows]
       /\ \A x \in Credentials : [f EXCEPT ![p].secret = x] \in [HouseProfiles -> ProfileRows]
       /\ [f EXCEPT ![p].locked = FALSE] \in [HouseProfiles -> ProfileRows]
       /\ \A r \in ProfileRows : [f EXCEPT ![p] = r] \in [HouseProfiles -> ProfileRows]
  <1>1. Unknown \in ProfileRows
    BY HouseholdAssumption DEF ProfileRows, Unknown, Credentials
  <1>2. \A x \in Credentials : [exists |-> TRUE, secret |-> x, attempts |-> 0, locked |-> FALSE] \in ProfileRows
    BY HouseholdAssumption DEF ProfileRows
  <1>3. \A r \in ProfileRows :
          /\ \A guard \in Guards : [[r EXCEPT !.attempts = guard.attempts] EXCEPT !.locked = guard.locked] \in ProfileRows
          /\ \A x \in Credentials : [r EXCEPT !.secret = x] \in ProfileRows
          /\ [r EXCEPT !.locked = FALSE] \in ProfileRows
    BY DEF ProfileRows, Guards
  <1>4. ASSUME NEW f \in [HouseProfiles -> ProfileRows], NEW p \in HouseProfiles
        PROVE  /\ \A guard \in Guards : Persisted(f, p, guard) \in [HouseProfiles -> ProfileRows]
               /\ \A x \in Credentials : [f EXCEPT ![p].secret = x] \in [HouseProfiles -> ProfileRows]
               /\ [f EXCEPT ![p].locked = FALSE] \in [HouseProfiles -> ProfileRows]
               /\ \A r \in ProfileRows : [f EXCEPT ![p] = r] \in [HouseProfiles -> ProfileRows]
    BY <1>3 DEF Persisted
  <1> QED
    BY <1>1, <1>2, <1>4

\* Every step keeps memory, tables and requests well typed.
LEMMA HouseTypeStep == HouseTypeOK /\ [HouseNext]_houseVars => HouseTypeOK'
  <1> SUFFICES ASSUME HouseTypeOK, [HouseNext]_houseVars PROVE HouseTypeOK'
    OBVIOUS
  <1>0. /\ profileRow \in [HouseProfiles -> ProfileRows] /\ profileMem \in [HouseProfiles -> ProfileRows]
        /\ ownerGuard \in Guards
    BY DEF HouseTypeOK, Guards
  <1>17. ASSUME NEW p \in HouseProfiles, NEW x \in Credentials, CreateProfile(p, x) \/ UpdateProfile(p, x)
         PROVE  profileRow' \in [HouseProfiles -> ProfileRows] /\ profileMem' \in [HouseProfiles -> ProfileRows]
    <2>1. /\ [profileRow EXCEPT ![p].secret = x] \in [HouseProfiles -> ProfileRows]
          /\ [profileMem EXCEPT ![p].secret = x] \in [HouseProfiles -> ProfileRows]
          /\ [profileRow EXCEPT ![p] = [exists |-> TRUE, secret |-> x, attempts |-> 0, locked |-> FALSE]]
               \in [HouseProfiles -> ProfileRows]
      BY <1>0, RowTypes
    <2> QED
      BY <1>0, <1>17, <2>1 DEF CreateProfile, UpdateProfile
  <1>18. ownerGuard' = [ownerGuard EXCEPT !.locked = FALSE] => ownerGuard' \in Guards
    BY <1>0, GuardTypes
  <1> USE HouseholdAssumption DEF HouseTypeOK, Credentials, Answers
  <1>1. ASSUME NEW g \in Guests, NEW x \in Secrets, NEW token \in BOOLEAN, BeginClaim(g, x, token)
        PROVE  HouseTypeOK'
    BY <1>1 DEF BeginClaim, IdleGuest
  <1>2. ASSUME NEW g \in Guests, SaveOwner(g)
        PROVE  HouseTypeOK'
    BY <1>2 DEF SaveOwner, Step, Answer, IdleGuest
  <1>3. ASSUME NEW g \in Guests, AssignOwner(g) \/ FinishClaim(g)
        PROVE  HouseTypeOK'
    BY <1>3 DEF AssignOwner, FinishClaim, Granted, Step, Answer, IdleGuest
  <1>4. ASSUME NEW g \in Guests, NEW s \in HouseProfiles \cup {"owner"}, NEW x \in Credentials,
               ReadCredential(g, s, x)
        PROVE  HouseTypeOK'
    <2>1. Current(s) \in Credentials
      BY DEF Current, ProfileRows
    <2> QED
      BY <1>4, <2>1 DEF ReadCredential, IdleGuest
  <1>5. ASSUME NEW g \in Guests, Derived(g)
        PROVE  HouseTypeOK'
    BY <1>5 DEF Derived, Step
  <1>6. ASSUME NEW g \in Guests, SettleLogin(g)
        PROVE  HouseTypeOK'
    <2>1. ownerGuard' \in Guards
      BY <1>6, GuardTypes DEF SettleLogin, Guards
    <2>2. grants' \subseteq [subject : HouseProfiles \cup {"owner"}, secret : Credentials]
      BY <1>6 DEF SettleLogin, Granted
    <2> QED
      BY <1>6, <2>1, <2>2 DEF SettleLogin, Answer, IdleGuest, Guards
  <1>7. ASSUME NEW g \in Guests, SettleSelect(g)
        PROVE  HouseTypeOK'
    <2> DEFINE p == guest[g].for
               guard == IF Valid(g) THEN [attempts |-> 0, locked |-> FALSE] ELSE AfterWrong(profileMem[p].attempts)
    <2>1. p \in HouseProfiles /\ guard \in Guards
      <3>1. p \in HouseProfiles
        BY <1>7 DEF SettleSelect
      <3>2. profileMem[p].attempts \in 0 .. MaxGuesses - 1
        BY <3>1 DEF ProfileRows
      <3> QED
        BY <3>1, <3>2, GuardTypes
    <2>2. profileRow' \in [HouseProfiles -> ProfileRows] /\ profileMem' \in [HouseProfiles -> ProfileRows]
      <3>1. \/ profileRow' = profileRow /\ profileMem' = profileMem
            \/ profileRow' = Persisted(profileRow, p, guard) /\ profileMem' = Persisted(profileMem, p, guard)
        BY <1>7 DEF SettleSelect, Persisted
      <3> HIDE DEF p, guard
      <3>2. /\ Persisted(profileRow, p, guard) \in [HouseProfiles -> ProfileRows]
            /\ Persisted(profileMem, p, guard) \in [HouseProfiles -> ProfileRows]
        BY <2>1, RowTypes DEF HouseTypeOK
      <3> QED
        BY <3>1, <3>2 DEF HouseTypeOK
    <2>3. grants' \subseteq [subject : HouseProfiles \cup {"owner"}, secret : Credentials]
      BY <1>7, <2>1 DEF SettleSelect, Granted
    <2> QED
      BY <1>7, <2>2, <2>3 DEF SettleSelect, Answer, IdleGuest
  <1>8. ASSUME NEW p \in HouseProfiles, FinishCreate(p)
        PROVE  HouseTypeOK'
    BY <1>8 DEF FinishCreate
  <1>9. ASSUME NEW p \in HouseProfiles, UpdatePolicy(p) \/ DeleteProfile(p)
        PROVE  HouseTypeOK'
    <2>1. profileRow' \in [HouseProfiles -> ProfileRows] /\ profileMem' \in [HouseProfiles -> ProfileRows]
      BY <1>9, RowTypes DEF UpdatePolicy, DeleteProfile
    <2> QED
      BY <1>9, <2>1 DEF UpdatePolicy, DeleteProfile, GrantsAfter, Without, OwnerActs
  <1>10. ASSUME NEW p \in HouseProfiles, NEW x \in Credentials, CreateProfile(p, x) \/ UpdateProfile(p, x)
        PROVE  HouseTypeOK'
    <2>1. profileRow' \in [HouseProfiles -> ProfileRows] /\ profileMem' \in [HouseProfiles -> ProfileRows]
      BY <1>10, <1>17
    <2> QED
      BY <1>10, <2>1 DEF CreateProfile, UpdateProfile, GrantsAfter, Without, OwnerActs
  <1>11. ASSUME NEW s \in grants, EndSession(s)
        PROVE  HouseTypeOK'
    BY <1>11 DEF EndSession
  <1>12. CASE LockEnds
    <2>1. profileRow' \in [HouseProfiles -> ProfileRows] /\ profileMem' \in [HouseProfiles -> ProfileRows]
      BY <1>12, RowTypes DEF LockEnds
    <2>2. ownerGuard' \in Guards
      BY <1>0, <1>12, <1>18 DEF LockEnds
    <2> QED
      BY <1>12, <2>1, <2>2 DEF LockEnds, Guards
  <1>13. CASE StopHouse \/ Open
    <2>1. profileRow' \in [HouseProfiles -> ProfileRows] /\ profileMem' \in [HouseProfiles -> ProfileRows]
      BY <1>13, RowTypes DEF StopHouse, Open
    <2>2. ownerGuard' \in Guards
      BY <1>13, GuardTypes DEF StopHouse, Open, Guards
    <2>3. CASE StopHouse
      <3>1. guest' \in [Guests -> [at : Answers \cup {"idle", "claiming", "saved", "assigned", "hashing", "hashed"},
                                  for : HouseProfiles \cup {"owner"}, guess : Credentials, seen : Credentials]]
        BY <2>3 DEF StopHouse, IdleGuest
      <3>2. ownerRow' \in Credentials /\ ownerMem' \in Credentials /\ creating' \subseteq HouseProfiles
        BY <2>3 DEF StopHouse
      <3>3. grants' \subseteq [subject : HouseProfiles \cup {"owner"}, secret : Credentials]
        BY <2>3 DEF StopHouse
      <3>4. running' \in BOOLEAN /\ changes' = changes
        BY <2>3 DEF StopHouse
      <3>5. houseRestarts' \in 0 .. MaxHouseRestarts
        BY <2>3 DEF StopHouse
      <3> QED
        BY <2>1, <2>2, <3>1, <3>2, <3>3, <3>4, <3>5 DEF Guards
    <2>4. CASE Open
      BY <2>1, <2>2, <2>4 DEF Open, Guards
    <2> QED
      BY <1>13, <2>3, <2>4
  <1>14. ASSUME NEW x \in Secrets, RecoverOwner(x)
        PROVE  HouseTypeOK'
    BY <1>14 DEF RecoverOwner, Without
  <1>15. CASE UNCHANGED houseVars
    BY <1>15 DEF houseVars
  <1>16. ASSUME NEW g \in Guests, SelectAgain(g)
        PROVE  HouseTypeOK'
    BY <1>4, <1>16 DEF SelectAgain
  <1> QED
    BY <1>1, <1>2, <1>3, <1>4, <1>5, <1>6, <1>7, <1>8, <1>9, <1>10, <1>11, <1>12, <1>13, <1>14,
       <1>15, <1>16 DEF HouseNext, Login

-----------------------------------------------------------------------------

\* What the typing gives of single requests, rows and sessions.
LEMMA HouseTypeFacts ==
  ASSUME HouseTypeOK
  PROVE  /\ guest \in [Guests -> [at : Answers \cup {"idle", "claiming", "saved", "assigned", "hashing", "hashed"},
                                  for : HouseProfiles \cup {"owner"}, guess : Credentials, seen : Credentials]]
         /\ profileRow \in [HouseProfiles -> ProfileRows] /\ profileMem \in [HouseProfiles -> ProfileRows]
         /\ \A s \in grants : s.subject \in HouseProfiles \cup {"owner"}
         /\ running \in BOOLEAN
  BY DEF HouseTypeOK

\* Every step keeps memory and tables in agreement while the server runs.
LEMMA MirrorsStep == HouseIInv /\ [HouseNext]_houseVars => MirrorsTables'
  <1> SUFFICES ASSUME HouseIInv, [HouseNext]_houseVars PROVE MirrorsTables'
    OBVIOUS
  <1>0. /\ MirrorsTables /\ GuestsCurrent /\ Stopped
        /\ guest \in [Guests -> [at : Answers \cup {"idle", "claiming", "saved", "assigned", "hashing", "hashed"},
                                 for : HouseProfiles \cup {"owner"}, guess : Credentials, seen : Credentials]]
        /\ profileRow \in [HouseProfiles -> ProfileRows] /\ profileMem \in [HouseProfiles -> ProfileRows]
    BY HouseTypeFacts DEF HouseIInv, HouseInv
  <1> DEFINE Owner == \/ ownerMem = ownerRow
                      \/ ownerMem = NoSecret /\ \E g \in Guests : guest[g].at = "saved" /\ guest[g].guess = ownerRow
             Row(p) == profileMem[p] = profileRow[p] \/ (p \in creating /\ ~profileMem[p].exists)
  <1> USE <1>0
  <1>1. ASSUME NEW g \in Guests, guest[g].at # "saved", UNCHANGED <<ownerRow, ownerMem, running>>,
               \A h \in Guests \ {g} : guest'[h] = guest[h]
        PROVE  running' => Owner'
    BY <1>1 DEF MirrorsTables
  <1>2. ASSUME UNCHANGED <<profileRow, profileMem, creating, running>>
        PROVE  \A p \in HouseProfiles : running' => Row(p)'
    BY <1>2 DEF MirrorsTables
  <1>3. ASSUME NEW g \in Guests, SaveOwner(g)
        PROVE  running' => Owner'
    BY <1>3 DEF SaveOwner, OwnerInsertable, Step, Answer, IdleGuest, MirrorsTables
  <1>4. ASSUME NEW g \in Guests, SettleSelect(g)
        PROVE  \A p \in HouseProfiles : running' => Row(p)'
    <2> SUFFICES ASSUME NEW q \in HouseProfiles, running' PROVE Row(q)'
      OBVIOUS
    <2>1. Row(q)
      BY <1>4 DEF SettleSelect, MirrorsTables
    <2>2. CASE UNCHANGED <<profileMem, profileRow>>
      BY <1>4, <2>1, <2>2 DEF SettleSelect
    <2>3. ASSUME NEW guard, KnownSubject(guest[g].for), guest[g].for \in HouseProfiles,
                 profileRow' = Persisted(profileRow, guest[g].for, guard),
                 profileMem' = Persisted(profileMem, guest[g].for, guard)
          PROVE  Row(q)'
      <3>1. CASE q # guest[g].for
        BY <1>4, <2>1, <2>3, <3>1 DEF SettleSelect, Persisted
      <3>2. CASE q = guest[g].for
        <4>1. profileMem[q] = profileRow[q]
          BY HouseholdAssumption, <2>1, <2>3, <3>2 DEF KnownSubject
        <4> QED
          BY <2>3, <3>2, <4>1 DEF Persisted
      <3> QED
        BY <3>1, <3>2
    <2> QED
      BY <1>4, <2>2, <2>3 DEF SettleSelect, Persisted
  <1>5. ASSUME NEW p \in HouseProfiles, FinishCreate(p)
        PROVE  MirrorsTables'
    BY <1>5 DEF FinishCreate, MirrorsTables
  <1>6. ASSUME NEW p \in HouseProfiles, NEW x \in Credentials, CreateProfile(p, x)
        PROVE  MirrorsTables'
    <2>1. \A q \in HouseProfiles : Row(q)
      BY <1>6 DEF CreateProfile, OwnerActs, MirrorsTables
    <2>2. ~profileMem[p].exists
      BY <1>6, <2>1 DEF CreateProfile
    <2> QED
      BY <1>6, <2>1, <2>2 DEF CreateProfile, OwnerActs, MirrorsTables
  <1>7. ASSUME NEW p \in HouseProfiles, NEW x \in Credentials, UpdateProfile(p, x)
        PROVE  MirrorsTables'
    <2>1. profileMem[p] = profileRow[p]
      BY <1>7 DEF UpdateProfile, OwnerActs, MirrorsTables
    <2> QED
      BY <1>7, <2>1 DEF UpdateProfile, OwnerActs, MirrorsTables
  <1>8. ASSUME NEW p \in HouseProfiles, UpdatePolicy(p) \/ DeleteProfile(p)
        PROVE  MirrorsTables'
    BY <1>8 DEF UpdatePolicy, DeleteProfile, OwnerActs, MirrorsTables
  <1>9. CASE LockEnds
    <2>1. running' => Owner'
      BY <1>9 DEF LockEnds, MirrorsTables
    <2>2. \A q \in HouseProfiles : running' => Row(q)'
      <3>1. ASSUME NEW p \in HouseProfiles, NEW q \in HouseProfiles, running', UNCHANGED <<running, creating>>,
                   profileRow' = [profileRow EXCEPT ![p].locked = FALSE],
                   profileMem' = [profileMem EXCEPT ![p].locked = FALSE]
            PROVE  Row(q)'
        <4>1. Row(q)
          BY <3>1 DEF MirrorsTables
        <4> QED
          BY <3>1, <4>1 DEF ProfileRows
      <3> QED
        BY <1>2, <1>9, <3>1 DEF LockEnds
    <2> QED
      BY <2>1, <2>2 DEF MirrorsTables
  <1>10. CASE StopHouse
    BY <1>10 DEF StopHouse, MirrorsTables
  <1>11. CASE Open
    BY <1>11 DEF Open, MirrorsTables, Stopped
  <1>12. ASSUME NEW x \in Secrets, RecoverOwner(x)
         PROVE  MirrorsTables'
    BY <1>12 DEF RecoverOwner, MirrorsTables
  <1>13. ASSUME NEW s \in grants, EndSession(s)
         PROVE  MirrorsTables'
    BY <1>13 DEF EndSession, MirrorsTables
  <1>14. CASE UNCHANGED houseVars
    BY <1>14 DEF houseVars, MirrorsTables
  <1>15. ASSUME NEW g \in Guests, AssignOwner(g) \/ FinishClaim(g)
         PROVE  running' => Owner'
    <2>1. CASE AssignOwner(g)
      BY <2>1 DEF AssignOwner, GuestsCurrent
    <2>2. CASE FinishClaim(g)
      <3>1. guest[g].at # "saved" /\ \A h \in Guests \ {g} : guest'[h] = guest[h]
        BY <2>2 DEF FinishClaim, Answer
      <3> QED
        BY <1>1, <2>2, <3>1 DEF FinishClaim
    <2> QED
      BY <1>15, <2>1, <2>2
  <1>16. ASSUME NEW g \in Guests, NEW s, NEW x, ReadCredential(g, s, x), guest[g].at # "saved"
         PROVE  MirrorsTables'
    <2>1. \A h \in Guests \ {g} : guest'[h] = guest[h]
      BY <1>16 DEF ReadCredential
    <2> QED
      BY <1>1, <1>2, <1>16, <2>1 DEF ReadCredential, MirrorsTables
  <1>17. ASSUME NEW g \in Guests, NEW x \in Secrets, NEW token \in BOOLEAN, BeginClaim(g, x, token)
         PROVE  MirrorsTables'
    <2>1. guest[g].at # "saved" /\ \A h \in Guests \ {g} : guest'[h] = guest[h]
      BY <1>17 DEF BeginClaim, Ready, Answers
    <2> QED
      BY <1>1, <1>2, <1>17, <2>1 DEF BeginClaim, MirrorsTables
  <1>18. ASSUME NEW g \in Guests, Derived(g) \/ SettleLogin(g)
         PROVE  MirrorsTables'
    <2>1. guest[g].at # "saved" /\ \A h \in Guests \ {g} : guest'[h] = guest[h]
      BY <1>18 DEF Derived, SettleLogin, Step, Answer
    <2> QED
      BY <1>1, <1>2, <1>18, <2>1 DEF Derived, SettleLogin, MirrorsTables
  <1>19. ASSUME NEW g \in Guests, SettleSelect(g)
         PROVE  MirrorsTables'
    <2>1. guest[g].at # "saved" /\ \A h \in Guests \ {g} : guest'[h] = guest[h]
      BY <1>19 DEF SettleSelect, Answer
    <2> QED
      BY <1>1, <1>4, <1>19, <2>1 DEF SettleSelect, MirrorsTables
  <1>20. ASSUME NEW g \in Guests, SaveOwner(g) \/ AssignOwner(g) \/ FinishClaim(g)
         PROVE  MirrorsTables'
    BY <1>2, <1>3, <1>15, <1>20 DEF SaveOwner, AssignOwner, FinishClaim, MirrorsTables
  <1>21. ASSUME NEW g \in Guests, SelectAgain(g)
         PROVE  MirrorsTables'
    BY <1>16, <1>21 DEF SelectAgain
  <1>22. ASSUME NEW g \in Guests, NEW s, NEW x, Login(g, s, x)
         PROVE  MirrorsTables'
    BY <1>16, <1>22 DEF Login, Ready, Answers
  <1> QED
    BY <1>5, <1>6, <1>7, <1>8, <1>9, <1>10, <1>11, <1>12, <1>13, <1>14, <1>17, <1>18, <1>19, <1>20,
       <1>21, <1>22 DEF HouseNext

\* The owner credential a request holds is the owner's after every step.
LEMMA GuestsStep == HouseIInv /\ [HouseNext]_houseVars => GuestsCurrent' /\ Stopped'
  <1> SUFFICES ASSUME HouseIInv, [HouseNext]_houseVars PROVE GuestsCurrent' /\ Stopped'
    OBVIOUS
  <1>0. /\ MirrorsTables /\ GuestsCurrent /\ Stopped /\ OwnerGrants
        /\ guest \in [Guests -> [at : Answers \cup {"idle", "claiming", "saved", "assigned", "hashing", "hashed"},
                                 for : HouseProfiles \cup {"owner"}, guess : Credentials, seen : Credentials]]
    BY HouseTypeFacts DEF HouseIInv, HouseInv
  <1> USE <1>0, HouseholdAssumption
  <1>1. ASSUME NEW g \in Guests, NEW x \in Secrets, NEW token \in BOOLEAN, BeginClaim(g, x, token)
        PROVE  GuestsCurrent' /\ Stopped'
    BY <1>1 DEF BeginClaim, IdleGuest, GuestsCurrent, Stopped, Answers
  <1>2. ASSUME NEW g \in Guests, SaveOwner(g)
        PROVE  GuestsCurrent' /\ Stopped'
    <2>1. CASE ownerRow = NoSecret
      BY <1>2, <2>1 DEF SaveOwner, OwnerInsertable, Step, GuestsCurrent, Stopped, Answers
    <2>2. CASE ownerRow # NoSecret
      BY <1>2, <2>2 DEF SaveOwner, OwnerInsertable, Answer, IdleGuest, GuestsCurrent, Stopped, Answers
    <2> QED
      BY <2>1, <2>2
  <1>3. ASSUME NEW g \in Guests, AssignOwner(g) \/ FinishClaim(g)
        PROVE  GuestsCurrent' /\ Stopped'
    <2>1. CASE AssignOwner(g)
      BY <2>1 DEF AssignOwner, Step, GuestsCurrent, Stopped, Answers
    <2>2. CASE FinishClaim(g)
      BY <2>2 DEF FinishClaim, Answer, IdleGuest, GuestsCurrent, Stopped, Answers
    <2> QED
      BY <1>3, <2>1, <2>2
  <1>4. ASSUME NEW g \in Guests, NEW s, NEW x, ReadCredential(g, s, x)
        PROVE  GuestsCurrent' /\ Stopped'
    <2>1. s = "owner" /\ Current(s) # NoSecret => Current(s) = ownerRow
      BY <1>4 DEF ReadCredential, Current, MirrorsTables
    <2>2. \/ \E at \in {"wrong", "limited", "busy"} : guest' = [guest EXCEPT ![g] = [IdleGuest EXCEPT !.at = at]]
          \/ \E at \in {"hashing", "hashed"} :
               guest' = [guest EXCEPT ![g] = [for |-> s, guess |-> x, seen |-> Current(s), at |-> at]]
      BY <1>4 DEF ReadCredential
    <2>3. GuestsCurrent'
      BY <1>4, <2>1, <2>2 DEF ReadCredential, IdleGuest, GuestsCurrent, Answers
    <2> QED
      BY <1>4, <2>3 DEF ReadCredential, Stopped
  <1>5. ASSUME NEW g \in Guests, Derived(g)
        PROVE  GuestsCurrent' /\ Stopped'
    BY <1>5 DEF Derived, Step, GuestsCurrent, Stopped, Answers
  <1>6. ASSUME NEW g \in Guests, SettleLogin(g) \/ SettleSelect(g)
        PROVE  GuestsCurrent' /\ Stopped'
    <2>1. \E at \in Answers : guest' = [guest EXCEPT ![g] = [IdleGuest EXCEPT !.at = at]]
      BY <1>6 DEF SettleLogin, SettleSelect, Answer, Answers
    <2>2. UNCHANGED <<ownerRow, ownerMem, creating, running>>
      BY <1>6 DEF SettleLogin, SettleSelect
    <2> QED
      BY <2>1, <2>2 DEF IdleGuest, GuestsCurrent, Stopped, Answers
  <1>7. ASSUME UNCHANGED <<ownerRow, ownerMem, guest, running>>, running
        PROVE  GuestsCurrent' /\ Stopped'
    BY <1>7 DEF GuestsCurrent, Stopped
  <1>8. ASSUME UNCHANGED <<ownerRow, ownerMem, guest, running, creating>>
        PROVE  GuestsCurrent' /\ Stopped'
    BY <1>8 DEF GuestsCurrent, Stopped
  <1>9. CASE StopHouse
    BY <1>9 DEF StopHouse, IdleGuest, GuestsCurrent, Stopped, Answers
  <1>10. CASE Open
    BY <1>10 DEF Open, GuestsCurrent, Stopped
  <1>11. ASSUME NEW x \in Secrets, RecoverOwner(x)
         PROVE  GuestsCurrent' /\ Stopped'
    BY <1>11 DEF RecoverOwner, GuestsCurrent, Stopped, Answers
  <1>12. ASSUME NEW p \in HouseProfiles, FinishCreate(p)
         PROVE  GuestsCurrent' /\ Stopped'
    BY <1>12 DEF FinishCreate, GuestsCurrent, Stopped
  <1>13. ASSUME NEW p \in HouseProfiles, UpdatePolicy(p) \/ DeleteProfile(p)
         PROVE  GuestsCurrent' /\ Stopped'
    BY <1>7, <1>13 DEF UpdatePolicy, DeleteProfile, OwnerActs
  <1>14. ASSUME NEW p \in HouseProfiles, NEW x \in Credentials, CreateProfile(p, x) \/ UpdateProfile(p, x)
         PROVE  GuestsCurrent' /\ Stopped'
    BY <1>7, <1>14 DEF CreateProfile, UpdateProfile, OwnerActs
  <1>15. ASSUME NEW s \in grants, EndSession(s)
         PROVE  GuestsCurrent' /\ Stopped'
    BY <1>8, <1>15 DEF EndSession
  <1>16. CASE LockEnds
    BY <1>8, <1>16 DEF LockEnds
  <1>17. CASE UNCHANGED houseVars
    BY <1>8, <1>17 DEF houseVars
  <1> QED
    BY <1>1, <1>2, <1>3, <1>4, <1>5, <1>6, <1>9, <1>10, <1>11, <1>12, <1>13, <1>14, <1>15, <1>16, <1>17
    DEF HouseNext, Login, SelectAgain

\* No step leaves a session behind that another credential opened.
LEMMA SessionsStep == HouseIInv /\ [HouseNext]_houseVars => SessionsCurrent' /\ OwnerGrants'
  <1> SUFFICES ASSUME HouseIInv, [HouseNext]_houseVars PROVE SessionsCurrent' /\ OwnerGrants'
    OBVIOUS
  <1>0. /\ MirrorsTables /\ GuestsCurrent /\ SessionsCurrent /\ OwnerGrants
        /\ guest \in [Guests -> [at : Answers \cup {"idle", "claiming", "saved", "assigned", "hashing", "hashed"},
                                 for : HouseProfiles \cup {"owner"}, guess : Credentials, seen : Credentials]]
        /\ profileRow \in [HouseProfiles -> ProfileRows] /\ profileMem \in [HouseProfiles -> ProfileRows]
        /\ \A s \in grants : s.subject \in HouseProfiles \cup {"owner"}
    BY HouseTypeFacts DEF HouseIInv, HouseInv
  <1> USE <1>0, HouseholdAssumption
  <1>1. ASSUME UNCHANGED ownerRow, grants' \subseteq grants,
               \A s \in grants' : s.subject # "owner" =>
                 /\ profileRow'[s.subject].exists = profileRow[s.subject].exists
                 /\ profileRow'[s.subject].secret = profileRow[s.subject].secret
        PROVE  SessionsCurrent' /\ OwnerGrants'
    BY <1>1 DEF SessionsCurrent, OwnerGrants
  <1>2. ASSUME NEW g \in Guests, SaveOwner(g)
        PROVE  SessionsCurrent' /\ OwnerGrants'
    BY <1>2 DEF SaveOwner, OwnerInsertable, SessionsCurrent, OwnerGrants
  <1>3. ASSUME NEW g \in Guests, FinishClaim(g)
        PROVE  SessionsCurrent' /\ OwnerGrants'
    BY <1>3 DEF FinishClaim, Granted, GuestsCurrent, SessionsCurrent, OwnerGrants
  <1>4. ASSUME NEW g \in Guests, SettleLogin(g)
        PROVE  SessionsCurrent' /\ OwnerGrants'
    BY <1>4 DEF SettleLogin, Granted, GuestsCurrent, SessionsCurrent, OwnerGrants
  <1>5. ASSUME NEW g \in Guests, SettleSelect(g)
        PROVE  SessionsCurrent' /\ OwnerGrants'
    <2> DEFINE p == guest[g].for
    <2>0. p \in HouseProfiles /\ p # "owner" /\ running /\ ownerRow' = ownerRow
      BY <1>5 DEF SettleSelect, GuestsCurrent, Answers
    <2>1. \A q \in HouseProfiles : profileRow'[q].exists = profileRow[q].exists
                                   /\ profileRow'[q].secret = profileRow[q].secret
      <3>1. profileRow' = profileRow \/ \E guard : profileRow' = Persisted(profileRow, p, guard)
        BY <1>5 DEF SettleSelect
      <3>2. ASSUME NEW guard, profileRow' = Persisted(profileRow, p, guard), NEW q \in HouseProfiles
            PROVE  profileRow'[q].exists = profileRow[q].exists /\ profileRow'[q].secret = profileRow[q].secret
        BY <2>0, <3>2 DEF Persisted, ProfileRows
      <3> QED
        BY <3>1, <3>2
    <2>2. CASE grants' = grants
      BY <1>1, <2>0, <2>1, <2>2
    <2>3. CASE grants' = Granted(p, guest[g].seen) /\ KnownSubject(p) /\ SameCredential(g)
      <3>1. profileRow[p].exists /\ guest[g].seen = profileRow[p].secret
        BY <2>0, <2>3 DEF KnownSubject, SameCredential, Current, MirrorsTables
      <3> QED
        BY <2>0, <2>1, <2>3, <3>1 DEF Granted, SessionsCurrent, OwnerGrants
    <2> QED
      BY <1>5, <2>2, <2>3 DEF SettleSelect
  <1>6. ASSUME NEW p \in HouseProfiles, NEW x \in Credentials, CreateProfile(p, x)
        PROVE  SessionsCurrent' /\ OwnerGrants'
    BY <1>1, <1>6 DEF CreateProfile, SessionsCurrent
  <1>7. ASSUME NEW p \in HouseProfiles, NEW x \in Credentials, UpdateProfile(p, x)
        PROVE  SessionsCurrent' /\ OwnerGrants'
    BY <1>1, <1>7 DEF UpdateProfile, GrantsAfter, Without
  <1>8. ASSUME NEW p \in HouseProfiles, UpdatePolicy(p) \/ DeleteProfile(p)
        PROVE  SessionsCurrent' /\ OwnerGrants'
    BY <1>1, <1>8 DEF UpdatePolicy, DeleteProfile, GrantsAfter, Without
  <1>9. CASE LockEnds
    <2>1. \A q \in HouseProfiles : profileRow'[q].exists = profileRow[q].exists
                                   /\ profileRow'[q].secret = profileRow[q].secret
      BY <1>9 DEF LockEnds, ProfileRows
    <2> QED
      BY <1>1, <1>9, <2>1 DEF LockEnds
  <1>10. ASSUME NEW x \in Secrets, RecoverOwner(x)
         PROVE  SessionsCurrent' /\ OwnerGrants'
    BY <1>10 DEF RecoverOwner, Without, SessionsCurrent, OwnerGrants
  <1>11. ASSUME NEW s \in grants, EndSession(s)
         PROVE  SessionsCurrent' /\ OwnerGrants'
    BY <1>1, <1>11 DEF EndSession
  <1>12. ASSUME UNCHANGED <<ownerRow, profileRow, grants>>
         PROVE  SessionsCurrent' /\ OwnerGrants'
    BY <1>1, <1>12
  <1>13. ASSUME NEW g \in Guests,
                \/ AssignOwner(g) \/ Derived(g)
                \/ (\E s, x : ReadCredential(g, s, x)) \/ \E x, token : BeginClaim(g, x, token)
         PROVE  SessionsCurrent' /\ OwnerGrants'
    BY <1>12, <1>13 DEF AssignOwner, ReadCredential, Derived, BeginClaim
  <1>14. CASE UNCHANGED houseVars
    BY <1>12, <1>14 DEF houseVars
  <1>15. ASSUME NEW p \in HouseProfiles, FinishCreate(p)
         PROVE  SessionsCurrent' /\ OwnerGrants'
    BY <1>12, <1>15 DEF FinishCreate
  <1>16. CASE StopHouse \/ Open
    BY <1>12, <1>16 DEF StopHouse, Open
  <1> QED
    BY <1>2, <1>3, <1>4, <1>5, <1>6, <1>7, <1>8, <1>9, <1>10, <1>11, <1>13, <1>14, <1>15, <1>16
    DEF HouseNext, Login, SelectAgain

\* The invariant holds in every reachable state.
LEMMA HouseInductive == HouseSpec => []HouseIInv
  <1>1. HouseInit => HouseIInv
    <2> SUFFICES ASSUME HouseInit PROVE HouseIInv
      OBVIOUS
    <2>1. HouseTypeOK
      BY HouseholdAssumption, RowTypes, GuardTypes
      DEF HouseInit, HouseTypeOK, Credentials, IdleGuest, Answers, Guards
    <2>2. MirrorsTables /\ GuestsCurrent /\ Stopped
      BY DEF HouseInit, MirrorsTables, GuestsCurrent, Stopped, IdleGuest, Answers
    <2>3. SessionsCurrent /\ OwnerGrants
      BY DEF HouseInit, SessionsCurrent, OwnerGrants
    <2> QED
      BY <2>1, <2>2, <2>3 DEF HouseIInv, HouseInv
  <1>2. HouseIInv /\ [HouseNext]_houseVars => HouseIInv'
    BY HouseTypeStep, MirrorsStep, GuestsStep, SessionsStep DEF HouseIInv, HouseInv
  <1> QED
    BY <1>1, <1>2, PTL DEF HouseSpec

\* For any number of profiles, credentials, requests, attempts and restarts: what
\* Manager holds of credentials and of the profiles' attempts and locks is what the
\* tables hold, so Open restores it.  The owner's attempts and lock are not in a
\* table; nothing is claimed of them.
THEOREM HouseCorrect == HouseSpec => []HouseInv
  <1>1. HouseIInv => HouseInv
    BY DEF HouseIInv
  <1> QED
    BY <1>1, HouseInductive, PTL

\* No session outlives the credential that opened it, whatever races the PIN
\* change, the deletion or the recovery.
THEOREM SessionsFollowCredentials == HouseSpec => []SessionsCurrent
  <1>1. HouseIInv => SessionsCurrent
    BY DEF HouseIInv
  <1> QED
    BY <1>1, HouseInductive, PTL

\* A lock is final for its minute: a request that was derived before the lock was
\* set is told that it is limited, and not whether its guess was right.
THEOREM LockIsFinal == HouseSpec => LockHolds
  <1> DEFINE Hold(g) ==
        LET s == guest[g].for IN
        guest[g].at = "hashed" /\ LockedNow(s) /\ Protected(s) /\ KnownSubject(s)
          => guest'[g].at \notin {"granted", "wrong"}
  <1>1. ASSUME HouseIInv, [HouseNext]_houseVars, NEW g \in Guests
        PROVE  Hold(g)
    <2>0. guest \in [Guests -> [at : Answers \cup {"idle", "claiming", "saved", "assigned", "hashing", "hashed"},
                                for : HouseProfiles \cup {"owner"}, guess : Credentials, seen : Credentials]]
      BY <1>1, HouseTypeFacts DEF HouseIInv, HouseInv
    <2> SUFFICES ASSUME guest[g].at = "hashed", LockedNow(guest[g].for), KnownSubject(guest[g].for)
                 PROVE  guest'[g].at \notin {"granted", "wrong"}
      OBVIOUS
    <2> USE <2>0
    <2>2. ASSUME NEW h \in Guests,
                 \/ SaveOwner(h) \/ AssignOwner(h) \/ FinishClaim(h) \/ Derived(h)
                 \/ \E x, token : BeginClaim(h, x, token)
                 \/ \E s, x : Login(h, s, x)
          PROVE  guest'[g].at \notin {"granted", "wrong"}
      <3>1. CASE h # g
        BY <2>2, <3>1
        DEF SaveOwner, AssignOwner, FinishClaim, Derived, BeginClaim, Login, ReadCredential, Step, Answer
      <3>2. CASE h = g
        BY <2>2, <3>2 DEF SaveOwner, AssignOwner, FinishClaim, Derived, BeginClaim, Login, Step, Ready, Answers
      <3> QED
        BY <3>1, <3>2
    <2>3. ASSUME NEW h \in Guests, SettleLogin(h) \/ SettleSelect(h)
          PROVE  guest'[g].at \notin {"granted", "wrong"}
      BY <2>3 DEF SettleLogin, SettleSelect, Answer, IdleGuest, StillLocked
    <2>4. ASSUME NEW h \in Guests, SelectAgain(h)
          PROVE  guest'[g].at \notin {"granted", "wrong"}
      BY <2>4 DEF SelectAgain, ReadCredential, IdleGuest
    <2>5. CASE StopHouse
      BY <2>5 DEF StopHouse, IdleGuest, Answers
    <2>6. CASE guest' = guest
      BY <2>6
    <2>7. \/ guest' = guest \/ StopHouse
          \/ \E h \in Guests : SettleLogin(h) \/ SettleSelect(h) \/ SelectAgain(h)
                \/ SaveOwner(h) \/ AssignOwner(h) \/ FinishClaim(h) \/ Derived(h)
                \/ (\E x, token : BeginClaim(h, x, token)) \/ (\E s, x : Login(h, s, x))
      BY <1>1 DEF HouseNext, houseVars, FinishCreate, UpdatePolicy, DeleteProfile, CreateProfile, UpdateProfile,
                  EndSession, LockEnds, Open, RecoverOwner
    <2> QED
      BY <2>2, <2>3, <2>4, <2>5, <2>6, <2>7
  <1>2. HouseIInv /\ [HouseNext]_houseVars => [\A g \in Guests : Hold(g)]_houseVars
    BY <1>1
  <1> QED
    BY <1>2, HouseInductive, PTL DEF HouseSpec, LockHolds
=============================================================================
