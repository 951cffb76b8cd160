----------------------------- MODULE UserEntry -----------------------------
(***************************************************************************)
(* The directory entry of a user and those who write it: the user's pages  *)
(* on the preferred method and on policies and trusted devices, in several *)
(* sessions, and the administrator who resets preferences (UserService and *)
(* its view models).  The login script, outside of this repository, adds   *)
(* trusted devices.                                                        *)
(*                                                                         *)
(* A write reads the entry, sets one attribute and has the directory       *)
(* library modify it: these are two steps, and in between anybody may      *)
(* write.  The library sends the attribute when it differs from what was   *)
(* read; if nothing differs there is no modification, and the service      *)
(* reports failure.  A page keeps what it read when it was opened, and a   *)
(* page that could not read shows that nothing is there.                   *)
(***************************************************************************)
EXTENDS Naturals, FiniteSetsExt

CONSTANTS
  Sessions,    \* sessions of the user
  Admin,       \* the administrator's page
  Methods,     \* authentication methods (acrs)
  Placeholder, \* the preference a new session starts with
  Policies,    \* second factor policies a user may choose ...
  EveryLogin,  \* ... and the one that excludes the others
  Devices,     \* trusted devices
  Null,        \* no method, no operation
  MaxWrites,   \* bound: modifications of the entry
  MaxFaults    \* bound: lost answers of the directory

ASSUME UEAssumption ==
  /\ Admin \notin Sessions
  /\ Placeholder \in Methods
  /\ Null \notin Methods
  /\ EveryLogin \in Policies
  /\ MaxWrites \in Nat /\ MaxFaults \in Nat

VARIABLES
  \* the entry
  pref,       \* oxPreferredMethod
  policy,     \* oxStrongAuthPolicy
  trusted,    \* oxTrustedDevicesInfo
  encrypted,  \* whether the server has a key to encrypt it with
  \* for every session: its user object, the page it is at,
  preferredMethod, page,
  \* the page on the preferred method, and the one on policies and devices
  selectedMethod, prevSelectedMethod, uiEditing,
  enforcementPolicies, enforcementPoliciesCopy, trustedDevices,
  \* operations under way
  op,         \* op[a]: the attribute a writes, and what it will write
  users,      \* the administrator's page: the user not found, found, or reset
  \* bookkeeping
  current,    \* current[s]: attributes s has read or written, and nobody since
  changed,    \* changed[s]: devices that came or went since s read the list
  writes, faults

entry == <<pref, policy, trusted>>
prefPage == <<selectedMethod, prevSelectedMethod, uiEditing>>
policyPage == <<enforcementPolicies, enforcementPoliciesCopy, trustedDevices>>
known == <<current, changed>>
vars == <<entry, encrypted, preferredMethod, page, prefPage, policyPage, op,
          users, known, writes, faults>>

Actors == Sessions \cup {Admin}

\* differs: whether the library sees a change to what it read.
Operation ==
  [attr : {"pref"}, differs : BOOLEAN, new : Methods \cup {Null}]
    \cup [attr : {"policy"}, differs : BOOLEAN, new : SUBSET Policies]
    \cup [attr : {"devices"}, differs : BOOLEAN, new : SUBSET Devices]

ASSUME NullAssumption == Null \notin Operation

TypeOK ==
  /\ pref \in Methods \cup {Null}
  /\ policy \in SUBSET Policies
  /\ trusted \in SUBSET Devices
  /\ encrypted \in BOOLEAN
  /\ preferredMethod \in [Sessions -> Methods \cup {Null}]
  /\ page \in [Sessions -> {"home", "preferred", "policy"}]
  /\ selectedMethod \in [Sessions -> Methods \cup {Null}]
  /\ prevSelectedMethod \in [Sessions -> Methods \cup {Null}]
  /\ uiEditing \in [Sessions -> BOOLEAN]
  /\ enforcementPolicies \in [Sessions -> SUBSET Policies]
  /\ \A s \in Sessions :
       EveryLogin \in enforcementPolicies[s] => enforcementPolicies[s] = {EveryLogin}
  /\ enforcementPoliciesCopy \in [Sessions -> SUBSET Policies]
  /\ trustedDevices \in [Sessions -> SUBSET Devices]
  /\ op \in [Actors -> Operation \cup {Null}]
  /\ users \in {"none", "found", "reset"}
  /\ current \in [Sessions -> SUBSET {"pref", "policy"}]
  /\ changed \in [Sessions -> SUBSET Devices]
  /\ writes \in 0..MaxWrites
  /\ faults \in 0..MaxFaults

-----------------------------------------------------------------------------
(* Reading, setting, modifying.                                            *)

Idle(a) == op[a] = Null

\* The entry is read and one attribute set.  Lists of policies and devices may be
\* the same and yet be written otherwise than the entry has them.
Get(a, attr, differs, new) ==
  op' = [op EXCEPT ![a] = [attr |-> attr, differs |-> differs, new |-> new]]

Stored(o) ==
  /\ writes < MaxWrites
  /\ writes' = writes + 1
  /\ pref'    = IF o.attr = "pref" THEN o.new ELSE pref
  /\ policy'  = IF o.attr = "policy" THEN o.new ELSE policy
  /\ trusted' = IF o.attr = "devices" THEN o.new ELSE trusted

\* For all sessions but a what was written is no longer what they read.
WrittenBy(a, attr) ==
  /\ current' = [s \in Sessions |->
       IF s = a THEN current[s] \cup ({attr} \ {"devices"}) ELSE current[s] \ {attr}]
  /\ changed' = [s \in Sessions |->
       IF s = a /\ attr = "devices" THEN {} ELSE changed[s] \cup SymDiff(trusted, trusted')]

\* The modification arrives.
ModifyDone(a) ==
  /\ ~Idle(a)
  /\ op[a].differs
  /\ Stored(op[a])
  /\ WrittenBy(a, op[a].attr)
  /\ op' = [op EXCEPT ![a] = Null]
  /\ UNCHANGED <<encrypted, faults>>

\* There is nothing to modify, or the directory fails; or it has changed the
\* entry and the answer is lost.
ModifyFails(a) ==
  /\ ~Idle(a)
  /\ op' = [op EXCEPT ![a] = Null]
  /\ \/ UNCHANGED <<entry, known, writes, faults>>
     \/ /\ op[a].differs
        /\ Stored(op[a])
        /\ WrittenBy(Admin, op[a].attr)
        /\ faults < MaxFaults /\ faults' = faults + 1
  /\ UNCHANGED encrypted

-----------------------------------------------------------------------------
(* The session and the page on the preferred method.                       *)

\* Another page is opened; what was read for the last one is gone.
Opens(s, p) ==
  /\ Idle(s)
  /\ page' = [page EXCEPT ![s] = p]
  /\ uiEditing' = [uiEditing EXCEPT ![s] = FALSE]
  /\ prevSelectedMethod' = [prevSelectedMethod EXCEPT ![s] = Null]
  /\ UNCHANGED <<entry, encrypted, op, users, writes, faults>>

LeavesPolicy(s) ==
  /\ enforcementPolicies' = [enforcementPolicies EXCEPT ![s] = {}]
  /\ enforcementPoliciesCopy' = [enforcementPoliciesCopy EXCEPT ![s] = {}]
  /\ trustedDevices' = [trustedDevices EXCEPT ![s] = {}]
  /\ changed' = [changed EXCEPT ![s] = Devices]

\* The home page gives the session a new user object, with a fixed preference.
HomeInit(s) ==
  /\ Opens(s, "home") /\ LeavesPolicy(s)
  /\ preferredMethod' = [preferredMethod EXCEPT ![s] = Placeholder]
  /\ selectedMethod' = [selectedMethod EXCEPT ![s] = Null]
  /\ current' = [current EXCEPT ![s] = {}]

\* The page takes the preference from the user object, not from the entry.
PreferenceInit(s) ==
  /\ Opens(s, "preferred") /\ LeavesPolicy(s)
  /\ selectedMethod' = [selectedMethod EXCEPT ![s] = preferredMethod[s]]
  /\ current' = [current EXCEPT ![s] = @ \ {"policy"}]
  /\ UNCHANGED preferredMethod

PrepareUpdateMethod(s) ==
  /\ page[s] = "preferred" /\ Idle(s) /\ ~uiEditing[s]
  /\ prevSelectedMethod' = [prevSelectedMethod EXCEPT ![s] = selectedMethod[s]]
  /\ uiEditing' = [uiEditing EXCEPT ![s] = TRUE]
  /\ UNCHANGED <<entry, encrypted, preferredMethod, page, selectedMethod, policyPage,
                 op, users, known, writes, faults>>

\* The user chooses and presses update, or cancels.
Update(s) ==
  /\ Idle(s) /\ uiEditing[s]
  /\ \E method \in Methods \cup {Null} :
       /\ selectedMethod' = [selectedMethod EXCEPT ![s] = method]
       /\ Get(s, "pref", method # pref, method)
  /\ uiEditing' = [uiEditing EXCEPT ![s] = FALSE]
  /\ UNCHANGED <<entry, encrypted, preferredMethod, page, prevSelectedMethod,
                 policyPage, users, known, writes, faults>>

CancelUpdate(s) ==
  /\ Idle(s) /\ uiEditing[s]
  /\ selectedMethod' = [selectedMethod EXCEPT ![s] = prevSelectedMethod[s]]
  /\ uiEditing' = [uiEditing EXCEPT ![s] = FALSE]
  /\ UNCHANGED <<entry, encrypted, preferredMethod, page, prevSelectedMethod,
                 policyPage, op, users, known, writes, faults>>

\* Mutant: the user object is updated before the entry.
UpdatesUserAnyway(s) ==
  /\ op[s] # Null /\ op[s].attr = "pref"
  /\ ModifyDone(s) \/ ModifyFails(s)
  /\ preferredMethod' = [preferredMethod EXCEPT ![s] = op[s].new]
  /\ UNCHANGED <<page, prefPage, policyPage, users>>

\* The user object follows the entry; after a failure the page goes back.
SetPreferredMethod(s) ==
  /\ op[s] # Null /\ op[s].attr = "pref"
  /\ \/ /\ ModifyDone(s)
        /\ preferredMethod' = [preferredMethod EXCEPT ![s] = op[s].new]
        /\ UNCHANGED selectedMethod
     \/ /\ ModifyFails(s)
        /\ selectedMethod' = [selectedMethod EXCEPT ![s] = prevSelectedMethod[s]]
        /\ UNCHANGED preferredMethod
  /\ UNCHANGED <<page, prevSelectedMethod, uiEditing, policyPage, users>>

-----------------------------------------------------------------------------
(* The page on policies and trusted devices.                               *)

ShownPolicy == IF policy = {} THEN {EveryLogin} ELSE policy

\* get2FAPolicyData catches a read that fails, and the page shows what it shows
\* of a user without policies and devices.  It encrypts where it should decrypt:
\* with a key the list of devices cannot be read.
PolicyInit(s) ==
  /\ Opens(s, "policy")
  /\ \E read \in BOOLEAN :
       LET shown == IF read THEN ShownPolicy ELSE {EveryLogin}
           listed == read /\ ~encrypted IN
       /\ enforcementPolicies' = [enforcementPolicies EXCEPT ![s] = shown]
       /\ enforcementPoliciesCopy' = [enforcementPoliciesCopy EXCEPT ![s] = shown]
       /\ trustedDevices' = [trustedDevices EXCEPT ![s] = IF listed THEN trusted ELSE {}]
       /\ current' = [current EXCEPT ![s] =
                        IF read THEN @ \cup {"policy"} ELSE @ \ {"policy"}]
       /\ changed' = [changed EXCEPT ![s] = IF listed THEN {} ELSE Devices]
  /\ selectedMethod' = [selectedMethod EXCEPT ![s] = Null]
  /\ UNCHANGED preferredMethod

\* Mutant: the other policies stay when every login is checked.
KeepsOthers(s) ==
  /\ page[s] = "policy" /\ Idle(s)
  /\ \E p \in Policies :
       enforcementPolicies' = [enforcementPolicies EXCEPT ![s] =
         IF p \in @ THEN @ \ {p} ELSE @ \cup {p}]
  /\ UNCHANGED <<entry, encrypted, preferredMethod, page, prefPage, op, users,
                 enforcementPoliciesCopy, trustedDevices, known, writes, faults>>

CheckPolicy(s) ==
  /\ page[s] = "policy" /\ Idle(s)
  /\ \E p \in Policies :
       LET checked == IF p \in enforcementPolicies[s]
                      THEN enforcementPolicies[s] \ {p} ELSE enforcementPolicies[s] \cup {p}
       IN enforcementPolicies' = [enforcementPolicies EXCEPT ![s] =
                                    IF EveryLogin \in checked THEN {EveryLogin} ELSE checked]
  /\ UNCHANGED <<entry, encrypted, preferredMethod, page, prefPage, op, users,
                 enforcementPoliciesCopy, trustedDevices, known,
                 writes, faults>>

CancelPolicy(s) ==
  /\ page[s] = "policy" /\ Idle(s)
  /\ enforcementPolicies' = [enforcementPolicies EXCEPT ![s] = enforcementPoliciesCopy[s]]
  /\ UNCHANGED <<entry, encrypted, preferredMethod, page, prefPage, op, users,
                 enforcementPoliciesCopy, trustedDevices, known,
                 writes, faults>>

\* No policy at all cannot be written: the string is cut before it is set.
UpdatePolicy(s) ==
  /\ Idle(s)
  /\ enforcementPolicies[s] # {}
  /\ Get(s, "policy", TRUE, enforcementPolicies[s])
  /\ UNCHANGED <<entry, encrypted, preferredMethod, page, prefPage, policyPage,
                 users, known, writes, faults>>

Update2FAPolicies(s) ==
  /\ op[s] # Null /\ op[s].attr = "policy"
  /\ \/ /\ ModifyDone(s)
        /\ enforcementPoliciesCopy' = [enforcementPoliciesCopy EXCEPT ![s] =
                                         enforcementPolicies[s]]
     \/ ModifyFails(s) /\ UNCHANGED enforcementPoliciesCopy
  /\ UNCHANGED <<preferredMethod, page, prefPage, enforcementPolicies, trustedDevices, users>>

\* Mutant: no device of the list is kept.
DeletesAll(s) ==
  /\ Idle(s)
  /\ \E d \in trustedDevices[s] : Get(s, "devices", TRUE, {})
  /\ UNCHANGED <<entry, encrypted, preferredMethod, page, prefPage, policyPage,
                 users, known, writes, faults>>

\* The list of the page is written, without the device.
DeleteDevice(s) ==
  /\ Idle(s)
  /\ \E d \in trustedDevices[s] : Get(s, "devices", TRUE, trustedDevices[s] \ {d})
  /\ UNCHANGED <<entry, encrypted, preferredMethod, page, prefPage, policyPage,
                 users, known, writes, faults>>

DeleteTrustedDevice(s) ==
  /\ op[s] # Null /\ op[s].attr = "devices"
  /\ \/ ModifyDone(s) /\ trustedDevices' = [trustedDevices EXCEPT ![s] = op[s].new]
     \/ ModifyFails(s) /\ UNCHANGED trustedDevices
  /\ UNCHANGED <<preferredMethod, page, prefPage, enforcementPolicies,
                 enforcementPoliciesCopy, users>>

-----------------------------------------------------------------------------
(* The administrator, and the rest of the world.                           *)

\* The user is found when there is a preference, and the search does not fail.
SearchUsers ==
  /\ Idle(Admin)
  /\ users' \in IF pref # Null THEN {"found", "none"} ELSE {"none"}
  /\ UNCHANGED <<entry, encrypted, preferredMethod, page, prefPage, policyPage,
                 op, known, writes, faults>>

CancelReset ==
  /\ Idle(Admin)
  /\ users' = "none"
  /\ UNCHANGED <<entry, encrypted, preferredMethod, page, prefPage, policyPage,
                 op, known, writes, faults>>

\* A user who has been reset is not reset again.
DoReset ==
  /\ Idle(Admin) /\ users = "found"
  /\ Get(Admin, "pref", pref # Null, Null)
  /\ UNCHANGED <<entry, encrypted, preferredMethod, page, prefPage, policyPage,
                 users, known, writes, faults>>

\* After a failure the list is flushed.
ResetPreference ==
  /\ \/ ModifyDone(Admin) /\ users' = "reset"
     \/ ModifyFails(Admin) /\ users' = "none"
  /\ UNCHANGED <<preferredMethod, page, prefPage, policyPage>>

\* A login on a new device.
LoginAdds ==
  /\ \E d \in Devices \ trusted : trusted' = trusted \cup {d}
  /\ writes < MaxWrites /\ writes' = writes + 1
  /\ WrittenBy(Admin, "devices")
  /\ UNCHANGED <<pref, policy, encrypted, preferredMethod, page, prefPage,
                 policyPage, op, users, faults>>

-----------------------------------------------------------------------------
Init ==
  /\ pref \in Methods \cup {Null}
  /\ policy \in {P \in SUBSET Policies : EveryLogin \in P => P = {EveryLogin}}
  /\ trusted \in SUBSET Devices
  /\ encrypted \in BOOLEAN
  /\ preferredMethod = [s \in Sessions |-> Placeholder]
  /\ page = [s \in Sessions |-> "home"]
  /\ selectedMethod = [s \in Sessions |-> Null]
  /\ prevSelectedMethod = [s \in Sessions |-> Null]
  /\ uiEditing = [s \in Sessions |-> FALSE]
  /\ enforcementPolicies = [s \in Sessions |-> {}]
  /\ enforcementPoliciesCopy = [s \in Sessions |-> {}]
  /\ trustedDevices = [s \in Sessions |-> {}]
  /\ op = [a \in Actors |-> Null]
  /\ users = "none"
  /\ current = [s \in Sessions |-> {}]
  /\ changed = [s \in Sessions |-> Devices]
  /\ writes = 0
  /\ faults = 0

SessionStep(s) ==
  \/ HomeInit(s) \/ PreferenceInit(s) \/ PrepareUpdateMethod(s) \/ Update(s)
  \/ CancelUpdate(s) \/ SetPreferredMethod(s)
  \/ PolicyInit(s) \/ CheckPolicy(s) \/ CancelPolicy(s) \/ UpdatePolicy(s)
  \/ Update2FAPolicies(s) \/ DeleteDevice(s) \/ DeleteTrustedDevice(s)

Next ==
  \/ \E s \in Sessions : SessionStep(s)
  \/ SearchUsers \/ CancelReset \/ DoReset \/ ResetPreference
  \/ LoginAdds

Spec == Init /\ [][Next]_vars

-----------------------------------------------------------------------------
(* Properties.                                                             *)

\* What a session has read or written, and nobody since, is what the entry holds:
\* the preference of its user object and the policies.  Once an update is
\* answered, the page on the preferred method shows what the user object says.
\* The devices a page lists differ from those of the entry by no more than came
\* or went since the list was read (setPreferredMethod, update2FAPolicies,
\* deleteTrustedDevice, get2FAPolicyData).
PagesAgree ==
  \A s \in Sessions :
    /\ "pref" \in current[s] => preferredMethod[s] = pref
    /\ page[s] = "preferred" /\ Idle(s) /\ ~uiEditing[s] =>
         selectedMethod[s] = preferredMethod[s]
    /\ "policy" \in current[s] => enforcementPoliciesCopy[s] = ShownPolicy
    /\ SymDiff(trustedDevices[s], trusted) \subseteq changed[s]

\* Apart from logins, the devices of the entry change only when a session takes
\* out one it lists; the others that this loses or brings back came or went since
\* the session read its list, through a login or another session
\* (deleteTrustedDevice).
DevicesChangeOnlyBy ==
  [][trusted' # trusted =>
       \/ op' = op /\ trusted \subseteq trusted'
       \/ \E s \in Sessions : \E d \in trustedDevices[s] :
            /\ op[s] # Null /\ op[s].attr = "devices" /\ op'[s] = Null
            /\ SymDiff(trusted', trusted \ {d}) \subseteq changed[s]]_vars
=============================================================================
