--------------------------- MODULE EmailSettings ---------------------------
(***************************************************************************)
(* The SMTP settings of organizations, one of which is to be the primary   *)
(* one.  create and update run in a READ COMMITTED transaction: they look  *)
(* for the current primary without a lock, unset it, and write their own   *)
(* setting.  remove looks first and deletes afterwards, in no transaction. *)
(***************************************************************************)
EXTENDS Naturals, FiniteSets

CONSTANTS
    Setting,        \* ids of settings
    Org,            \* organizations
    None,           \* NULL, and an argument left out
    Call            \* bound: calls of create, update and remove at one time

ASSUME SettingsAssumption ==
    None \notin Org \cup Setting /\ IsFiniteSet(Call)

VARIABLES
    orgOf,      \* the organization of every setting, None when there is no row
    primary,    \* settings whose isPrimary is true
    pc,         \* where each call is, "idle" before and after
    op,         \* "none", "create", "update" or "remove"
    target,     \* the setting it writes
    flag,       \* the isPrimary it was sent: TRUE, FALSE or None
    forOrg,     \* the organizationId it was sent
    found,      \* the primary setting it found and unsets
    was,        \* the organization of that setting when it was found
    promoted,   \* history: removals whose setting became primary since their check
    orderly     \* history: no calls overlapped, no request went around the switch

rows == <<orgOf, primary>>
request == <<op, target, flag, forOrg, found, was>>
history == <<promoted, orderly>>
vars == <<rows, pc, request, history>>

Steps == {"idle", "find", "unset", "write", "commit", "delete"}

TypeOK ==
    /\ orgOf \in [Setting -> Org \cup {None}]
    /\ primary \subseteq Setting
    /\ pc \in [Call -> Steps]
    /\ op \in [Call -> {"none", "create", "update", "remove"}]
    /\ target \in [Call -> Setting \cup {None}]
    /\ flag \in [Call -> BOOLEAN \cup {None}]
    /\ forOrg \in [Call -> Org \cup {None}]
    /\ found \in [Call -> Setting \cup {None}]
    /\ was \in [Call -> Org \cup {None}]
    /\ promoted \subseteq Call
    /\ orderly \in BOOLEAN

Init ==
    /\ orgOf = [s \in Setting |-> None]
    /\ primary = {}
    /\ pc = [c \in Call |-> "idle"]
    /\ op = [c \in Call |-> "none"]
    /\ target = [c \in Call |-> None]
    /\ flag = [c \in Call |-> None]
    /\ forOrg = [c \in Call |-> None]
    /\ found = [c \in Call |-> None]
    /\ was = [c \in Call |-> None]
    /\ promoted = {} /\ orderly = TRUE

Stored == {s \in Setting : orgOf[s] # None}
Primaries(o) == {s \in primary : orgOf[s] = o}
Running == {c \in Call : pc[c] # "idle"}

Goto(c, from, to) ==
    /\ pc[c] = from
    /\ pc' = [pc EXCEPT ![c] = to]

\* The call is answered; another one may take its place.
End(c) ==
    /\ pc' = [pc EXCEPT ![c] = "idle"]
    /\ op' = [op EXCEPT ![c] = "none"]
    /\ target' = [target EXCEPT ![c] = None]
    /\ flag' = [flag EXCEPT ![c] = None]
    /\ forOrg' = [forOrg EXCEPT ![c] = None]
    /\ found' = [found EXCEPT ![c] = None]
    /\ was' = [was EXCEPT ![c] = None]
    /\ UNCHANGED orderly

\* Rows an uncommitted transaction has updated.
LockedBy(c) ==
    (IF pc[c] \in {"write", "commit"} THEN {found[c]} \cap Stored ELSE {})
    \cup (IF pc[c] = "commit" /\ op[c] = "update" THEN {target[c]} \cap Stored ELSE {})
Locked(s, c) == \E d \in Call \ {c} : s \in LockedBy(d)

\* The row a call is about to update or delete.
Wanted(c) ==
    CASE pc[c] = "unset" -> found[c]
      [] pc[c] \in {"write", "delete"} /\ op[c] # "create" -> target[c]
      [] OTHER -> None

-----------------------------------------------------------------------------
(* Requests.                                                                *)

\* A promotion that does not name its organization, or a primary setting given
\* to another organization without a word on isPrimary.
GoesAround(t, f, g) ==
    \/ f = TRUE /\ g = None
    \/ f = None /\ t \in primary /\ g \notin {None, orgOf[t]}

Start(c, o, t, f, g, to) ==
    /\ Goto(c, "idle", to)
    /\ op' = [op EXCEPT ![c] = o]
    /\ target' = [target EXCEPT ![c] = t]
    /\ flag' = [flag EXCEPT ![c] = f]
    /\ forOrg' = [forOrg EXCEPT ![c] = g]
    /\ orderly' = (orderly /\ Running = {} /\ ~GoesAround(t, f, g))
    /\ UNCHANGED <<rows, found, was, promoted>>

\* What the properties tell apart of a body; both are optional.
Body == [isPrimary : BOOLEAN \cup {None}, organizationId : Org \cup {None}]

\* The id is a fresh uuid, so one no call speaks of; the organization is that
\* of the session, whatever the body says.
StartCreate(c) ==
    \E s \in Setting \ Stored, o \in Org, body \in Body :
        LET f == body.isPrimary = TRUE IN
        /\ \A d \in Call : s \notin {target[d], found[d]}
        /\ Start(c, "create", s, f, o, IF f THEN "find" ELSE "write")

\* The id is in the path and may be of no setting.  The organization is
\* whatever the body says: none, the setting's own, or another one.
StartUpdate(c) ==
    \E s \in Setting, body \in Body :
        LET f == body.isPrimary IN
        /\ s \notin {target[d] : d \in {e \in Running : op[e] = "create"}}
        /\ Start(c, "update", s, f, body.organizationId,
                 IF f = TRUE THEN "find" ELSE "write")

\* remove reads the setting, and answers at once when there is none or when
\* it is the primary one.  Mutant: it does not look at isPrimary.
StartRemoveAny(c) ==
    \E s \in Stored : Start(c, "remove", s, None, None, "delete")

StartRemove(c) ==
    \E s \in Stored \ primary : Start(c, "remove", s, None, None, "delete")

-----------------------------------------------------------------------------
(* create and update.                                                       *)

\* Mutant: the organization is not in the query.
FindAnyPrimary(c) ==
    /\ \/ /\ primary = {}
          /\ Goto(c, "find", "write")
          /\ UNCHANGED <<found, was>>
       \/ \E s \in primary :
             /\ Goto(c, "find", "unset")
             /\ found' = [found EXCEPT ![c] = s]
             /\ was' = [was EXCEPT ![c] = orgOf[s]]
    /\ UNCHANGED <<rows, op, target, flag, forOrg, history>>

\* The query drops a condition whose value is undefined: without an
\* organization any primary setting matches.
FindPrimary(c) ==
    LET Matching == IF forOrg[c] = None THEN primary ELSE Primaries(forOrg[c]) IN
    /\ \/ /\ Matching = {}
          /\ Goto(c, "find", "write")
          /\ UNCHANGED <<found, was>>
       \/ \E s \in Matching :
             /\ Goto(c, "find", "unset")
             /\ found' = [found EXCEPT ![c] = s]
             /\ was' = [was EXCEPT ![c] = orgOf[s]]
    /\ UNCHANGED <<rows, op, target, flag, forOrg, history>>

\* UPDATE the old primary setting, waiting for its row lock.
UnsetPrimary(c) ==
    /\ ~Locked(found[c], c)
    /\ Goto(c, "unset", "write")
    /\ UNCHANGED <<rows, request, history>>

\* Mutant: the handler itself waits until no other promotion is under way.
WriteAlone(c) ==
    /\ \A d \in Call \ {c} : pc[d] \notin {"unset", "write"}
    /\ Goto(c, "write", "commit")
    /\ UNCHANGED <<rows, request, history>>

\* INSERT, or UPDATE ... WHERE id, waiting for the row lock.
WriteSetting(c) ==
    /\ op[c] = "create" \/ ~Locked(target[c], c)
    /\ Goto(c, "write", "commit")
    /\ UNCHANGED <<rows, request, history>>

Exists(c) == op[c] = "create" \/ target[c] \in Stored

\* The old primary setting is written with every column it was read with, its
\* organization among them; then the call's own setting.  An UPDATE that
\* matches no row writes nothing.
WrittenBack(c) ==
    IF found[c] \in Stored THEN [orgOf EXCEPT ![found[c]] = was[c]] ELSE orgOf
Filed(c, rest) ==
    IF Exists(c) /\ forOrg[c] # None THEN [rest EXCEPT ![target[c]] = forOrg[c]] ELSE rest

Demoted(c) == {found[c]} \cup (IF flag[c] = FALSE THEN {target[c]} ELSE {})
Promoted(c) == IF flag[c] = TRUE /\ Exists(c) THEN {target[c]} ELSE {}

NotePromotions ==
    promoted' = promoted \cup {d \in Call : pc[d] = "delete" /\ target[d] \in primary' \ primary}

\* Mutant: the old primary setting is not unset.
CommitWithoutUnset(c) ==
    /\ pc[c] = "commit" /\ End(c)
    /\ orgOf' = Filed(c, orgOf)
    /\ primary' = (primary \ (IF flag[c] = FALSE THEN {target[c]} ELSE {})) \cup Promoted(c)
    /\ NotePromotions

\* Mutant: the old primary setting is unset after the new one is written.
CommitUnsetLast(c) ==
    /\ pc[c] = "commit" /\ End(c)
    /\ orgOf' = Filed(c, WrittenBack(c))
    /\ primary' = (primary \cup Promoted(c)) \ Demoted(c)
    /\ NotePromotions

\* Both writes become visible.
Commit(c) ==
    /\ pc[c] = "commit" /\ End(c)
    /\ orgOf' = Filed(c, WrittenBack(c))
    /\ primary' = (primary \ Demoted(c)) \cup Promoted(c)
    /\ NotePromotions

\* Each of these transactions waits for a row of another one, and each of them
\* is waited for.
Deadlock(circle) ==
    /\ \A d \in circle : \E e \in circle \ {d} : Wanted(d) \in LockedBy(e)
    /\ \A e \in circle : \E d \in circle \ {e} : Wanted(d) \in LockedBy(e)

\* Transactions wait for each other's rows in a circle: Postgres aborts one.
AbortDeadlocked(c) ==
    /\ \E circle \in SUBSET Running : c \in circle /\ Deadlock(circle)
    /\ End(c)
    /\ UNCHANGED <<rows, promoted>>

-----------------------------------------------------------------------------
(* remove.                                                                  *)

DeleteSetting(c) ==
    /\ ~Locked(target[c], c)
    /\ pc[c] = "delete" /\ End(c)
    /\ orgOf' = [orgOf EXCEPT ![target[c]] = None]
    /\ primary' = primary \ {target[c]}
    /\ promoted' = promoted \ {c}

Serve(c) ==
    \/ FindPrimary(c) \/ UnsetPrimary(c) \/ WriteSetting(c) \/ Commit(c)
    \/ DeleteSetting(c) \/ AbortDeadlocked(c)

Next == \E c \in Call : StartCreate(c) \/ StartUpdate(c) \/ StartRemove(c) \/ Serve(c)

Spec == Init /\ [][Next]_vars

\* A call goes on when it can; Postgres grants a row lock to the transactions
\* that wait for it in turn.
FairSpec == Spec /\ \A c \in Call : SF_vars(Serve(c))

-----------------------------------------------------------------------------
(* Properties.                                                              *)

Ends(c, at) == pc[c] = at /\ pc'[c] = "idle"

\* Making a setting the primary one unsets the one the organization had.
OnePrimary == \A o \in Org : Cardinality(Primaries(o)) <= 1

\* The same as far as the code ensures it: as long as no two calls overlap,
\* every promotion names its organization and no update gives a primary setting
\* to another organization without saying what becomes of isPrimary (create,
\* update).
OnePrimaryOrderly == orderly => OnePrimary

\* Switching the primary setting is atomic, also when calls overlap: an
\* organization is left without the primary setting it had (the mail sender
\* needs one) only by a removal, by a call that demotes, one that does not name
\* its organization or one whose own setting is gone, and when a setting is
\* moved out of it: the call's own, or one that another call moved in after
\* this one had found it elsewhere.
MovesOwn(c, o) ==
    target[c] \in Stored /\ orgOf[target[c]] = o /\ forOrg[c] \notin {None, o}
FoundElsewhere(c, o) ==
    found[c] \in Stored /\ orgOf[found[c]] = o /\ was[c] # o
MayLeaveNone(c, o) ==
    \/ Ends(c, "delete")
    \/ /\ Ends(c, "commit")
       /\ \/ flag[c] = FALSE \/ forOrg[c] = None \/ ~Exists(c)
          \/ MovesOwn(c, o) \/ FoundElsewhere(c, o)
PrimaryStays ==
    \A o \in Org :
        Primaries(o) # {} /\ Primaries(o)' = {} => \E c \in Call : MayLeaveNone(c, o)
NeverWithoutPrimary == [][PrimaryStays]_vars

\* A call that names its organization neither unsets nor moves the settings of
\* others, whatever it overlaps: it touches its own setting, and the one that
\* was the primary setting of that organization when it looked.
OthersUntouched ==
    \A s \in Stored :
        s \in primary \ primary' \/ orgOf'[s] # orgOf[s] =>
            \E c \in Call :
                /\ pc[c] # pc'[c]
                /\ \/ target[c] = s \/ forOrg[c] = None
                   \/ found[c] = s /\ was[c] = forOrg[c]
OwnOrganizationOnly == [][OthersUntouched]_vars

\* remove deletes a primary setting only when another call made it the
\* primary one between its check and its DELETE.
PrimaryDeleted ==
    \A c \in Call : Ends(c, "delete") /\ target[c] \in primary => c \in promoted
PrimaryProtected == [][PrimaryDeleted]_vars

\* Every call is answered: row locks are released, and Postgres breaks the
\* deadlock of two calls that unset each other's target.
EveryRequestAnswered == \A c \in Call : pc[c] # "idle" ~> pc[c] = "idle"

=============================================================================
