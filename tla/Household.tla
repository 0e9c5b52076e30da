----------------------------- MODULE Household -----------------------------
(**************************************************************************)
(* The owner, profiles and sessions: claiming the server, logging in and    *)
(* selecting a profile with throttled attempts, changing credentials,       *)
(* revoking sessions, restart and owner recovery.                           *)
(*                                                                          *)
(* A request reads the credential under the mutex, derives its hash outside *)
(* it and settles under the mutex again, so another request, a credential   *)
(* change or a restart may come between.  Hash and salt of a credential are *)
(* one value; a random token is the session it opens.                       *)
(**************************************************************************)
EXTENDS Integers, FiniteSets

CONSTANTS
  HouseProfiles,    \* profile identifiers, each created once
  Secrets,          \* passwords and PINs
  NoSecret,         \* no credential: an unclaimed owner, an unprotected profile
  Guests,           \* concurrent requests
  MaxGuesses,       \* wrong guesses before a lock (5 in the code)
  HashSlots,        \* concurrent derivations (2 in the code)
  MaxHouseChanges,  \* bound on the owner's changes to profiles
  MaxHouseRestarts  \* bound on restarts
ASSUME HouseholdAssumption ==
  /\ NoSecret \notin Secrets /\ MaxGuesses \in Nat \ {0} /\ HashSlots \in Nat \ {0}
  /\ MaxHouseChanges \in Nat /\ MaxHouseRestarts \in Nat /\ "owner" \notin HouseProfiles

VARIABLES
  ownerRow,     \* the owner table
  ownerMem,     \* Manager.ownerHash and salt; the setup token is void once set
  ownerGuard,   \* ownerAttempts and ownerLockedUntil, in memory only
  profileRow,   \* the profiles table
  profileMem,   \* Manager.profiles
  grants,       \* the sessions that are not revoked, with the credential that opened them
  guest,        \* the requests
  creating,     \* CreateProfile between its INSERT and the map
  running,      \* the server is up
  changes, houseRestarts

houseVars == <<ownerRow, ownerMem, ownerGuard, profileRow, profileMem, grants, guest, creating,
               running, changes, houseRestarts>>

Credentials == Secrets \cup {NoSecret}
NoGuard == [attempts |-> 0, locked |-> FALSE]
Unknown == [exists |-> FALSE, secret |-> NoSecret, attempts |-> 0, locked |-> FALSE]
ProfileRows == [exists : BOOLEAN, secret : Credentials, attempts : 0 .. MaxGuesses - 1, locked : BOOLEAN]
IdleGuest == [at |-> "idle", for |-> "owner", guess |-> NoSecret, seen |-> NoSecret]
Answers == {"granted", "wrong", "limited", "busy", "refused"}

\* The tables, the memory and the requests are well formed.
HouseTypeOK ==
  /\ ownerRow \in Credentials /\ ownerMem \in Credentials
  /\ ownerGuard \in [attempts : 0 .. MaxGuesses - 1, locked : BOOLEAN]
  /\ profileRow \in [HouseProfiles -> ProfileRows] /\ profileMem \in [HouseProfiles -> ProfileRows]
  /\ grants \subseteq [subject : HouseProfiles \cup {"owner"}, secret : Credentials]
  /\ guest \in [Guests -> [at : Answers \cup {"idle", "claiming", "saved", "assigned", "hashing", "hashed"},
                           for : HouseProfiles \cup {"owner"}, guess : Credentials, seen : Credentials]]
  /\ creating \subseteq HouseProfiles /\ running \in BOOLEAN
  /\ changes \in 0 .. MaxHouseChanges /\ houseRestarts \in 0 .. MaxHouseRestarts

HouseInit ==
  /\ ownerRow = NoSecret /\ ownerMem = NoSecret /\ ownerGuard = NoGuard
  /\ profileRow = [p \in HouseProfiles |-> Unknown] /\ profileMem = profileRow
  /\ grants = {} /\ guest = [g \in Guests |-> IdleGuest] /\ creating = {}
  /\ running = TRUE /\ changes = 0 /\ houseRestarts = 0

-----------------------------------------------------------------------------

Hashing == {g \in Guests : guest[g].at \in {"claiming", "hashing"}}
SlotFree == Cardinality(Hashing) < HashSlots
Ready(g) == guest[g].at \in Answers \cup {"idle"}
Step(g, step) == guest' = [guest EXCEPT ![g].at = step]
Answer(g, answer) == guest' = [guest EXCEPT ![g] = [IdleGuest EXCEPT !.at = answer]]
Granted(subject, secret) == grants \cup {[subject |-> subject, secret |-> secret]}
Without(subject) == {s \in grants : s.subject # subject}

\* Claim: the token is checked against memory, then the password is derived.
BeginClaim(g, password, token) ==
  /\ running /\ Ready(g)
  /\ guest' = [guest EXCEPT ![g] =
       IF ownerMem # NoSecret \/ ~token THEN [IdleGuest EXCEPT !.at = "refused"]
       ELSE IF ~SlotFree THEN [IdleGuest EXCEPT !.at = "busy"]
       ELSE [IdleGuest EXCEPT !.at = "claiming", !.guess = password]]
  /\ UNCHANGED <<ownerRow, ownerMem, ownerGuard, profileRow, profileMem, grants, creating, running,
                 changes, houseRestarts>>

\* INSERT INTO owner(id) VALUES(1): the second claim violates the key.
OwnerInsertable == ownerRow = NoSecret

SaveOwner(g) ==
  /\ guest[g].at = "claiming"
  /\ IF OwnerInsertable THEN ownerRow' = guest[g].guess /\ Step(g, "saved")
     ELSE ownerRow' = ownerRow /\ Answer(g, "refused")
  /\ UNCHANGED <<ownerMem, ownerGuard, profileRow, profileMem, grants, creating, running, changes,
                 houseRestarts>>

\* The memory is assigned under the mutex, the session issued under the mutex again.
AssignOwner(g) ==
  /\ guest[g].at = "saved" /\ Step(g, "assigned") /\ ownerMem' = guest[g].guess
  /\ UNCHANGED <<ownerRow, ownerGuard, profileRow, profileMem, grants, creating, running, changes,
                 houseRestarts>>
FinishClaim(g) ==
  /\ guest[g].at = "assigned"
  /\ grants' = Granted("owner", guest[g].guess) /\ Answer(g, "granted")
  /\ UNCHANGED <<ownerRow, ownerMem, ownerGuard, profileRow, profileMem, creating, running, changes,
                 houseRestarts>>

\* Login and Select read the credential and the lock; an unprotected profile
\* needs no derivation.
KnownSubject(subject) == subject = "owner" \/ profileMem[subject].exists
LockedNow(subject) == IF subject = "owner" THEN ownerGuard.locked ELSE profileMem[subject].locked
Current(subject) == IF subject = "owner" THEN ownerMem ELSE profileMem[subject].secret
Protected(subject) == subject = "owner" \/ Current(subject) # NoSecret

ReadCredential(g, subject, guess) ==
  LET reading(at) == [for |-> subject, guess |-> guess, seen |-> Current(subject), at |-> at]
      answered(at) == [IdleGuest EXCEPT !.at = at]
  IN
  /\ running
  /\ guest' = [guest EXCEPT ![g] =
       CASE ~KnownSubject(subject) -> answered("wrong")
         [] KnownSubject(subject) /\ LockedNow(subject) -> answered("limited")
         [] KnownSubject(subject) /\ ~LockedNow(subject) /\ ~Protected(subject) -> reading("hashed")
         [] OTHER -> IF SlotFree THEN reading("hashing") ELSE answered("busy")]
  /\ UNCHANGED <<ownerRow, ownerMem, ownerGuard, profileRow, profileMem, grants, creating, running,
                 changes, houseRestarts>>
Login(g, subject, guess) == Ready(g) /\ ReadCredential(g, subject, guess)

Derived(g) ==
  /\ guest[g].at = "hashing" /\ Step(g, "hashed")
  /\ UNCHANGED <<ownerRow, ownerMem, ownerGuard, profileRow, profileMem, grants, creating, running,
                 changes, houseRestarts>>

Valid(g) == guest[g].seen \in {guest[g].guess, NoSecret}
AfterWrong(attempts) ==
  IF attempts + 1 >= MaxGuesses THEN [attempts |-> 0, locked |-> TRUE]
  ELSE [attempts |-> attempts + 1, locked |-> FALSE]

\* Mutant of StillLocked: the lock is not looked at again after the derivation.
LockedUnchecked(subject) == FALSE

\* The lock is checked again with the mutex held.
StillLocked(subject) == LockedNow(subject)

\* The second half of Login.
SettleLogin(g) ==
  /\ guest[g].at = "hashed" /\ guest[g].for = "owner"
  /\ IF StillLocked("owner")
     THEN Answer(g, "limited") /\ UNCHANGED <<ownerGuard, grants>>
     ELSE IF guest[g].seen # NoSecret /\ guest[g].seen = guest[g].guess
     THEN /\ ownerGuard' = [ownerGuard EXCEPT !.attempts = 0]
          /\ grants' = Granted("owner", guest[g].guess) /\ Answer(g, "granted")
     ELSE /\ ownerGuard' = AfterWrong(ownerGuard.attempts) /\ grants' = grants /\ Answer(g, "wrong")
  /\ UNCHANGED <<ownerRow, ownerMem, profileRow, profileMem, creating, running, changes, houseRestarts>>

\* Mutant of SameCredential: Select does not compare with the current credential.
SameUnchecked(g) == TRUE

\* Select starts over when the credential changed while it derived.
SameCredential(g) == guest[g].seen = Current(guest[g].for)

\* Mutant of Persisted: the attempt stays in memory.
PersistedNever(row, p, guard) == row

\* persistAttempt writes attempts and the lock of one profile.
Persisted(row, p, guard) ==
  [row EXCEPT ![p].attempts = guard.attempts, ![p].locked = guard.locked]

\* The second half of Select.
SettleSelect(g) ==
  LET p == guest[g].for
      guard == IF Valid(g) THEN [attempts |-> 0, locked |-> FALSE] ELSE AfterWrong(profileMem[p].attempts)
  IN
  /\ guest[g].at = "hashed" /\ p # "owner"
  /\ \/ ~KnownSubject(p) /\ Answer(g, "wrong") /\ UNCHANGED <<profileMem, profileRow, grants>>
     \/ /\ KnownSubject(p) /\ SameCredential(g) /\ StillLocked(p)
        /\ Answer(g, "limited") /\ UNCHANGED <<profileMem, profileRow, grants>>
     \/ /\ KnownSubject(p) /\ SameCredential(g) /\ ~StillLocked(p)
        /\ profileRow' = Persisted(profileRow, p, guard)
        /\ profileMem' = [profileMem EXCEPT ![p].attempts = guard.attempts, ![p].locked = guard.locked]
        /\ grants' = IF Valid(g) THEN Granted(p, guest[g].seen) ELSE grants
        /\ Answer(g, IF Valid(g) THEN "granted" ELSE "wrong")
  /\ UNCHANGED <<ownerRow, ownerMem, ownerGuard, creating, running, changes, houseRestarts>>

SelectAgain(g) ==
  /\ guest[g].at = "hashed" /\ guest[g].for # "owner" /\ KnownSubject(guest[g].for) /\ ~SameCredential(g)
  /\ ReadCredential(g, guest[g].for, guest[g].guess)

-----------------------------------------------------------------------------
(* The owner's changes and revocation.                                     *)

OwnerActs == running /\ changes < MaxHouseChanges /\ changes' = changes + 1
             /\ \E s \in grants : s.subject = "owner"

\* CreateProfile saves the row before the profile can be selected.
CreateProfile(p, pin) ==
  /\ OwnerActs /\ ~profileRow[p].exists /\ p \notin creating /\ (pin = NoSecret \/ SlotFree)
  /\ profileRow' = [profileRow EXCEPT ![p] = [exists |-> TRUE, secret |-> pin, attempts |-> 0, locked |-> FALSE]]
  /\ creating' = creating \cup {p}
  /\ UNCHANGED <<ownerRow, ownerMem, ownerGuard, profileMem, grants, guest, running, houseRestarts>>
FinishCreate(p) ==
  /\ p \in creating /\ creating' = creating \ {p}
  /\ profileMem' = [profileMem EXCEPT ![p] = profileRow[p]]
  /\ UNCHANGED <<ownerRow, ownerMem, ownerGuard, profileRow, grants, guest, running, changes, houseRestarts>>

\* A new PIN, its removal, a new policy or the deletion revokes the profile's sessions.
GrantsAfter(p) == Without(p)

\* UpdateProfileAndRevokeSessions with a new PIN or unprotect.  UpdatePolicy
\* revokes alike and leaves the credential.
UpdateProfile(p, pin) ==
  /\ OwnerActs /\ profileMem[p].exists /\ (pin = NoSecret \/ SlotFree)
  /\ profileRow' = [profileRow EXCEPT ![p].secret = pin]
  /\ profileMem' = [profileMem EXCEPT ![p].secret = pin]
  /\ grants' = GrantsAfter(p)
  /\ UNCHANGED <<ownerRow, ownerMem, ownerGuard, guest, creating, running, houseRestarts>>
UpdatePolicy(p) ==
  /\ OwnerActs /\ profileMem[p].exists /\ grants' = GrantsAfter(p)
  /\ UNCHANGED <<ownerRow, ownerMem, ownerGuard, profileRow, profileMem, guest, creating, running,
                 houseRestarts>>
DeleteProfile(p) ==
  /\ OwnerActs /\ profileMem[p].exists
  /\ profileRow' = [profileRow EXCEPT ![p] = Unknown] /\ profileMem' = [profileMem EXCEPT ![p] = Unknown]
  /\ grants' = GrantsAfter(p)
  /\ UNCHANGED <<ownerRow, ownerMem, ownerGuard, guest, creating, running, houseRestarts>>

\* Logout, RevokeSession and the expiry after a day end one session.
EndSession(s) ==
  /\ s \in grants /\ grants' = grants \ {s}
  /\ UNCHANGED <<ownerRow, ownerMem, ownerGuard, profileRow, profileMem, guest, creating, running,
                 changes, houseRestarts>>

\* A minute passes.
LockEnds ==
  /\ \/ ownerGuard.locked /\ ownerGuard' = [ownerGuard EXCEPT !.locked = FALSE]
        /\ UNCHANGED <<profileRow, profileMem>>
     \/ \E p \in HouseProfiles : profileRow[p].locked
          /\ profileRow' = [profileRow EXCEPT ![p].locked = FALSE]
          /\ profileMem' = [profileMem EXCEPT ![p].locked = FALSE] /\ ownerGuard' = ownerGuard
  /\ UNCHANGED <<ownerRow, ownerMem, grants, guest, creating, running, changes, houseRestarts>>

-----------------------------------------------------------------------------
(* The process ends and Open starts from the tables.                       *)

\* The owner's attempts and lock were in memory only: they end with the process.
StopHouse ==
  /\ running /\ houseRestarts < MaxHouseRestarts
  /\ running' = FALSE /\ houseRestarts' = houseRestarts + 1
  /\ guest' = [g \in Guests |-> IF guest[g].at \in Answers THEN guest[g] ELSE IdleGuest]
  /\ ownerMem' = NoSecret /\ ownerGuard' = NoGuard /\ creating' = {}
  /\ profileMem' = [p \in HouseProfiles |-> Unknown]
  /\ UNCHANGED <<ownerRow, profileRow, grants, changes>>
Open ==
  /\ ~running /\ running' = TRUE
  /\ ownerMem' = ownerRow /\ profileMem' = profileRow
  /\ UNCHANGED <<ownerRow, ownerGuard, profileRow, grants, guest, creating, changes, houseRestarts>>

\* The recover-owner command needs the data lock, so the server is down.
RecoverOwner(password) ==
  /\ ~running /\ ownerRow # NoSecret
  /\ ownerRow' = password /\ grants' = Without("owner")
  /\ UNCHANGED <<ownerMem, ownerGuard, profileRow, profileMem, guest, creating, running, changes, houseRestarts>>

HouseNext ==
  \/ \E g \in Guests :
       \/ SaveOwner(g) \/ AssignOwner(g) \/ FinishClaim(g) \/ Derived(g) \/ SettleLogin(g) \/ SettleSelect(g) \/ SelectAgain(g)
       \/ \E x \in Secrets : (\E token \in BOOLEAN : BeginClaim(g, x, token))
                             \/ \E s \in HouseProfiles \cup {"owner"} : Login(g, s, x)
  \/ \E p \in HouseProfiles : FinishCreate(p) \/ UpdatePolicy(p) \/ DeleteProfile(p)
       \/ \E x \in Credentials : CreateProfile(p, x) \/ UpdateProfile(p, x)
  \/ (\E s \in grants : EndSession(s)) \/ LockEnds \/ StopHouse \/ Open
  \/ \E x \in Secrets : RecoverOwner(x)

HouseSpec == HouseInit /\ [][HouseNext]_houseVars

-----------------------------------------------------------------------------

\* Every session was opened with the credential its subject has now: a PIN change,
\* a deletion or a recovery that races a login or a profile selection leaves no
\* session behind that the old credential opened.
SessionsCurrent ==
  \A s \in grants : IF s.subject = "owner" THEN s.secret = ownerRow
                    ELSE profileRow[s.subject].exists /\ s.secret = profileRow[s.subject].secret

\* Memory and tables agree while the server runs, but for a claim or a profile
\* between its INSERT and the map.  Open rebuilds the memory from the tables, so a
\* restart changes no credential and lifts no profile's lock and forgives none of
\* its attempts.  The owner's attempts and lock (ownerGuard) are in no table and not
\* part of this: a restart does lift them.
MirrorsTables ==
  running => /\ \/ ownerMem = ownerRow
                \/ ownerMem = NoSecret /\ \E g \in Guests : guest[g].at = "saved" /\ guest[g].guess = ownerRow
             /\ \A p \in HouseProfiles : profileMem[p] = profileRow[p] \/ (p \in creating /\ ~profileMem[p].exists)

\* Well typed, and no credential and no profile's attempts or lock depend on a restart.
HouseInv == HouseTypeOK /\ MirrorsTables

\* While a subject is locked no request learns whether its guess is right, also
\* none that was derived before the lock.
LockHolds ==
  [][\A g \in Guests : LET s == guest[g].for IN
       guest[g].at = "hashed" /\ LockedNow(s) /\ Protected(s) /\ KnownSubject(s)
         => guest'[g].at \notin {"granted", "wrong"}]_houseVars
=============================================================================
