--------------------------- MODULE UserEntry_Proofs ---------------------------
(***************************************************************************)
(* For any sets of sessions, methods, policies and devices: what a session *)
(* has read and nobody has written since is what the entry holds, and a    *)
(* deletion touches no device but the chosen one and those that came or    *)
(* went since the list was read.                                           *)
(***************************************************************************)
EXTENDS UserEntry, TLAPS

Attributes == {"pref", "policy", "devices"}

\* Where every login is chosen nothing else is.
Exclusive(S) == EveryLogin \in S => S = {EveryLogin}

PoliciesExclusive ==
  /\ Exclusive(policy)
  /\ \A s \in Sessions : Exclusive(enforcementPoliciesCopy[s])

\* What a page that is not open shows, and what a page being edited goes back to.
PageShape ==
  \A s \in Sessions :
    /\ page[s] # "policy" => /\ enforcementPolicies[s] = {}
                             /\ trustedDevices[s] = {}
    /\ uiEditing[s] => /\ page[s] = "preferred" /\ Idle(s)
                       /\ prevSelectedMethod[s] = preferredMethod[s]

\* An operation writes what the page of its session shows.
OpShape ==
  /\ op[Admin] # Null => op[Admin].attr = "pref"
  /\ \A s \in Sessions : op[s] # Null =>
       /\ op[s].attr = "pref" => /\ page[s] = "preferred"
                                 /\ prevSelectedMethod[s] = preferredMethod[s]
                                 /\ selectedMethod[s] = op[s].new
       /\ op[s].attr = "policy" => /\ page[s] = "policy"
                                   /\ enforcementPolicies[s] # {}
                                   /\ enforcementPolicies[s] = op[s].new
       /\ op[s].attr = "devices" => /\ page[s] = "policy"
                                    /\ \E d \in trustedDevices[s] :
                                         op[s].new = trustedDevices[s] \ {d}

IInv == TypeOK /\ PoliciesExclusive /\ PageShape /\ OpShape /\ PagesAgree

-----------------------------------------------------------------------------
(* Operations.                                                             *)

LEMMA OperationType ==
  ASSUME NEW o \in Operation
  PROVE  /\ o.attr \in Attributes
         /\ o.attr = "pref" => o.new \in Methods \cup {Null}
         /\ o.attr = "policy" => o.new \in SUBSET Policies
         /\ o.attr = "devices" => o.new \in SUBSET Devices
  BY DEF Operation, Attributes

LEMMA Recorded ==
  ASSUME TypeOK, NEW a \in Actors, NEW attr, NEW differs \in BOOLEAN, NEW new,
         \/ attr = "pref" /\ new \in Methods \cup {Null}
         \/ attr = "policy" /\ new \in SUBSET Policies
         \/ attr = "devices" /\ new \in SUBSET Devices,
         Get(a, attr, differs, new)
  PROVE  /\ op' \in [Actors -> Operation \cup {Null}]
         /\ op'[a] # Null /\ op'[a].attr = attr /\ op'[a].new = new
         /\ \A b \in Actors \ {a} : op'[b] = op[b]
<1>1. [attr |-> attr, differs |-> differs, new |-> new] \in Operation
  BY DEF Operation
<1> QED BY <1>1, NullAssumption DEF Get, TypeOK

\* The end of an operation: it is forgotten, and it has changed its attribute
\* (of a policy: to an exclusive one) or nothing at all.
LEMMA Ended ==
  ASSUME TypeOK, NEW a \in Actors, ModifyDone(a) \/ ModifyFails(a)
  PROVE  /\ op' \in [Actors -> Operation \cup {Null}]
         /\ op'[a] = Null
         /\ \A b \in Actors \ {a} : op'[b] = op[b]
         /\ pref' \in Methods \cup {Null}
         /\ policy' \in SUBSET Policies
         /\ trusted' \in SUBSET Devices
         /\ writes' \in 0..MaxWrites
         /\ faults' \in 0..MaxFaults
         /\ current' \in [Sessions -> SUBSET {"pref", "policy"}]
         /\ changed' \in [Sessions -> SUBSET Devices]
         /\ encrypted' = encrypted
         /\ op[a] \in Operation /\ op[a].attr \in Attributes
<1>1. op[a] \in Operation
  BY DEF ModifyDone, ModifyFails, Idle, TypeOK
<1>2. /\ op' \in [Actors -> Operation \cup {Null}]
      /\ op'[a] = Null
      /\ \A b \in Actors \ {a} : op'[b] = op[b]
  BY DEF ModifyDone, ModifyFails, TypeOK
<1>3. UNCHANGED entry \/ Stored(op[a])
  BY DEF ModifyDone, ModifyFails
<1>4. pref' \in Methods \cup {Null} /\ policy' \in SUBSET Policies /\ trusted' \in SUBSET Devices
  <2>1. CASE UNCHANGED entry
    BY <2>1 DEF entry, TypeOK
  <2>2. CASE Stored(op[a])
    BY <1>1, <2>2, OperationType DEF Stored, TypeOK
  <2> QED BY <1>3, <2>1, <2>2
<1>5. writes' \in 0..MaxWrites
  BY UEAssumption DEF ModifyDone, ModifyFails, Stored, TypeOK
<1>6. faults' \in 0..MaxFaults
  BY UEAssumption DEF ModifyDone, ModifyFails, TypeOK
<1>7. /\ current' \in [Sessions -> SUBSET {"pref", "policy"}]
      /\ changed' \in [Sessions -> SUBSET Devices]
  <2>1. UNCHANGED known \/ \E b \in Actors : WrittenBy(b, op[a].attr)
    BY DEF ModifyDone, ModifyFails, Actors
  <2>2. CASE UNCHANGED known
    BY <2>2 DEF known, TypeOK
  <2>3. CASE \E b \in Actors : WrittenBy(b, op[a].attr)
    BY <1>1, <1>4, <2>3, OperationType DEF WrittenBy, TypeOK, Attributes, SymDiff
  <2> QED BY <2>1, <2>2, <2>3
<1> QED BY <1>1, <1>2, <1>4, <1>5, <1>6, <1>7, OperationType DEF ModifyDone, ModifyFails

-----------------------------------------------------------------------------
(* Types.                                                                  *)

LEMMA TypeInit == Init => TypeOK
  BY UEAssumption DEF Init, TypeOK, Attributes

LEMMA TypeNext == TypeOK /\ PoliciesExclusive /\ OpShape /\ [Next]_vars => TypeOK'
<1> SUFFICES ASSUME TypeOK, PoliciesExclusive, OpShape, [Next]_vars PROVE TypeOK'
  OBVIOUS
<1> USE DEF entry, prefPage, policyPage, known
<1>s. \A s \in Sessions : s \in Actors
  BY DEF Actors
<1>t. Admin \in Actors
  BY DEF Actors
<1>1. ASSUME NEW s \in Sessions, HomeInit(s) PROVE TypeOK'
  BY <1>1, UEAssumption DEF HomeInit, Opens, LeavesPolicy, TypeOK, Attributes
<1>2. ASSUME NEW s \in Sessions, PreferenceInit(s) PROVE TypeOK'
  BY <1>2 DEF PreferenceInit, Opens, LeavesPolicy, TypeOK, Attributes
<1>3. ASSUME NEW s \in Sessions, PrepareUpdateMethod(s) PROVE TypeOK'
  BY <1>3 DEF PrepareUpdateMethod, TypeOK
<1>4. ASSUME NEW s \in Sessions, Update(s) PROVE TypeOK'
  <2>1. PICK method \in Methods \cup {Null} :
          /\ selectedMethod' = [selectedMethod EXCEPT ![s] = method]
          /\ Get(s, "pref", method # pref, method)
    BY <1>4 DEF Update
  <2>2. op' \in [Actors -> Operation \cup {Null}]
    BY <1>s, <2>1, Recorded DEF TypeOK
  <2> QED BY <1>4, <2>1, <2>2 DEF Update, TypeOK
<1>5. ASSUME NEW s \in Sessions, CancelUpdate(s) PROVE TypeOK'
  BY <1>5 DEF CancelUpdate, TypeOK
<1>6. ASSUME NEW s \in Sessions, SetPreferredMethod(s) PROVE TypeOK'
  <2>1. op[s].new \in Methods \cup {Null}
    BY <1>6, <1>s, Ended, OperationType DEF SetPreferredMethod
  <2>2. preferredMethod' \in [Sessions -> Methods \cup {Null}]
    BY <1>6, <2>1 DEF SetPreferredMethod, TypeOK
  <2>3. selectedMethod' \in [Sessions -> Methods \cup {Null}]
    BY <1>6 DEF SetPreferredMethod, TypeOK
  <2>4. users' = users
    BY <1>6 DEF SetPreferredMethod, ModifyDone, ModifyFails
  <2>5. ModifyDone(s) \/ ModifyFails(s)
    BY <1>6 DEF SetPreferredMethod
  <2>6. UNCHANGED <<page, prevSelectedMethod, uiEditing, policyPage>>
    BY <1>6 DEF SetPreferredMethod
  <2> QED BY <1>s, <2>2, <2>3, <2>4, <2>5, <2>6, Ended DEF TypeOK
<1>7. ASSUME NEW s \in Sessions, PolicyInit(s) PROVE TypeOK'
  <2>1. /\ ShownPolicy \in SUBSET Policies /\ EveryLogin \in Policies
        /\ EveryLogin \in ShownPolicy => ShownPolicy = {EveryLogin}
    BY UEAssumption DEF ShownPolicy, TypeOK, PoliciesExclusive, Exclusive
  <2> QED BY <1>7, <2>1 DEF PolicyInit, Opens, TypeOK
<1>8. ASSUME NEW s \in Sessions, CheckPolicy(s) PROVE TypeOK'
  BY <1>8, UEAssumption DEF CheckPolicy, TypeOK
<1>9. ASSUME NEW s \in Sessions, CancelPolicy(s) PROVE TypeOK'
  BY <1>9 DEF CancelPolicy, TypeOK, PoliciesExclusive, Exclusive
<1>10. ASSUME NEW s \in Sessions, UpdatePolicy(s) PROVE TypeOK'
  <2>1. op' \in [Actors -> Operation \cup {Null}]
    BY <1>10, <1>s, Recorded DEF UpdatePolicy, TypeOK
  <2> QED BY <1>10, <2>1 DEF UpdatePolicy, TypeOK
<1>11. ASSUME NEW s \in Sessions, Update2FAPolicies(s) PROVE TypeOK'
  <2>1. enforcementPoliciesCopy' \in [Sessions -> SUBSET Policies]
    BY <1>11 DEF Update2FAPolicies, TypeOK
  <2>2. users' = users
    BY <1>11 DEF Update2FAPolicies, ModifyDone, ModifyFails
  <2>3. ModifyDone(s) \/ ModifyFails(s)
    BY <1>11 DEF Update2FAPolicies
  <2>4. UNCHANGED <<preferredMethod, page, prefPage, enforcementPolicies, trustedDevices>>
    BY <1>11 DEF Update2FAPolicies
  <2> QED BY <1>s, <2>1, <2>2, <2>3, <2>4, Ended DEF TypeOK
<1>12. ASSUME NEW s \in Sessions, DeleteDevice(s) PROVE TypeOK'
  <2>1. PICK d \in trustedDevices[s] : Get(s, "devices", TRUE, trustedDevices[s] \ {d})
    BY <1>12 DEF DeleteDevice
  <2>2. trustedDevices[s] \ {d} \in SUBSET Devices
    BY DEF TypeOK
  <2>3. op' \in [Actors -> Operation \cup {Null}]
    BY <1>s, <2>1, <2>2, Recorded
  <2> QED BY <1>12, <2>3 DEF DeleteDevice, TypeOK
<1>13. ASSUME NEW s \in Sessions, DeleteTrustedDevice(s) PROVE TypeOK'
  <2>1. op[s].new \in SUBSET Devices
    BY <1>13, <1>s, Ended, OperationType DEF DeleteTrustedDevice
  <2>2. trustedDevices' \in [Sessions -> SUBSET Devices]
    BY <1>13, <2>1 DEF DeleteTrustedDevice, TypeOK
  <2>3. users' = users
    BY <1>13 DEF DeleteTrustedDevice, ModifyDone, ModifyFails
  <2>4. ModifyDone(s) \/ ModifyFails(s)
    BY <1>13 DEF DeleteTrustedDevice
  <2>5. UNCHANGED <<preferredMethod, page, prefPage, enforcementPolicies, enforcementPoliciesCopy>>
    BY <1>13 DEF DeleteTrustedDevice
  <2> QED BY <1>s, <2>2, <2>3, <2>4, <2>5, Ended DEF TypeOK
<1>14. CASE SearchUsers \/ CancelReset
  BY <1>14 DEF SearchUsers, CancelReset, TypeOK
<1>15. CASE DoReset
  <2>1. op' \in [Actors -> Operation \cup {Null}]
    BY <1>15, <1>t, Recorded DEF DoReset, TypeOK
  <2> QED BY <1>15, <2>1 DEF DoReset, TypeOK
<1>16. CASE ResetPreference
  <2>1. ModifyDone(Admin) \/ ModifyFails(Admin)
    BY <1>16 DEF ResetPreference
  <2>2. users' \in {"none", "found", "reset"}
    BY <1>16 DEF ResetPreference
  <2>3. UNCHANGED <<preferredMethod, page, prefPage, policyPage>>
    BY <1>16 DEF ResetPreference
  <2> QED BY <1>t, <2>1, <2>2, <2>3, Ended DEF TypeOK
<1>17. CASE LoginAdds
  <2>1. /\ current' \in [Sessions -> SUBSET {"pref", "policy"}]
        /\ changed' \in [Sessions -> SUBSET Devices]
    BY <1>17 DEF LoginAdds, WrittenBy, TypeOK, SymDiff
  <2>2. writes' \in 0..MaxWrites
    BY <1>17, UEAssumption DEF LoginAdds, TypeOK
  <2> QED BY <1>17, <2>1, <2>2 DEF LoginAdds, TypeOK
<1>18. CASE UNCHANGED vars
  BY <1>18 DEF vars, TypeOK
<1> QED BY <1>1, <1>2, <1>3, <1>4, <1>5, <1>6, <1>7, <1>8, <1>9, <1>10, <1>11, <1>12,
           <1>13, <1>14, <1>15, <1>16, <1>17, <1>18 DEF Next, SessionStep

-----------------------------------------------------------------------------
(* What an operation may change at its end.                                *)

LEMMA Effects ==
  ASSUME TypeOK, NEW a \in Actors, ModifyDone(a) \/ ModifyFails(a)
  PROVE  /\ op[a].attr # "pref" => pref' = pref
         /\ op[a].attr # "policy" => policy' = policy
         /\ op[a].attr # "devices" => trusted' = trusted
         /\ ModifyDone(a) => /\ op[a].attr = "pref" => pref' = op[a].new
                             /\ op[a].attr = "policy" => policy' = op[a].new
                             /\ op[a].attr = "devices" => trusted' = op[a].new
         /\ UNCHANGED entry \/ Stored(op[a])
         /\ \A s \in Sessions :
              \/ UNCHANGED <<entry, known>>
              \/ /\ current'[s] = current[s] \ {op[a].attr}
                 /\ changed'[s] = changed[s] \cup SymDiff(trusted, trusted')
              \/ /\ s = a /\ ModifyDone(a)
                 /\ current'[s] \subseteq current[s] \cup {op[a].attr}
                 /\ op[a].attr # "devices" =>
                      changed'[s] = changed[s] \cup SymDiff(trusted, trusted')
<1>1. UNCHANGED entry \/ Stored(op[a])
  BY DEF ModifyDone, ModifyFails
<1>2. op[a] \in Operation
  BY Ended
<1>3. ModifyDone(a) => Stored(op[a])
  BY DEF ModifyDone
<1>4. op[a].attr \in Attributes
  BY <1>2, OperationType
<1>5. /\ op[a].attr # "pref" => pref' = pref
      /\ op[a].attr # "policy" => policy' = policy
      /\ op[a].attr # "devices" => trusted' = trusted
  BY <1>1 DEF Stored, entry
<1>6. ModifyDone(a) => /\ op[a].attr = "pref" => pref' = op[a].new
                       /\ op[a].attr = "policy" => policy' = op[a].new
                       /\ op[a].attr = "devices" => trusted' = op[a].new
  BY <1>3 DEF Stored
<1>7. ASSUME NEW s \in Sessions
      PROVE  \/ UNCHANGED <<entry, known>>
             \/ /\ current'[s] = current[s] \ {op[a].attr}
                /\ changed'[s] = changed[s] \cup SymDiff(trusted, trusted')
             \/ /\ s = a /\ ModifyDone(a)
                /\ current'[s] \subseteq current[s] \cup {op[a].attr}
                /\ op[a].attr # "devices" =>
                     changed'[s] = changed[s] \cup SymDiff(trusted, trusted')
  <2>1. CASE ModifyDone(a)
    BY <2>1 DEF ModifyDone, WrittenBy
  <2>2. CASE ModifyFails(a)
    <3>1. s # Admin
      BY UEAssumption
    <3> QED BY <2>2, <3>1 DEF ModifyFails, WrittenBy
  <2> QED BY <2>1, <2>2
<1> QED BY <1>1, <1>5, <1>6, <1>7

-----------------------------------------------------------------------------
(* The shape of pages and operations.                                      *)

LEMMA ShapeInit == Init => PoliciesExclusive /\ PageShape /\ OpShape
  BY DEF Init, PoliciesExclusive, Exclusive, PageShape, OpShape, Actors

LEMMA ExclusiveNext ==
  ASSUME TypeOK, PoliciesExclusive, OpShape, [Next]_vars
  PROVE  PoliciesExclusive'
<1> USE DEF PoliciesExclusive, Exclusive, entry, prefPage, policyPage
<1>t. Admin \in Actors /\ \A s \in Sessions : s \in Actors
  BY DEF Actors
<1>1. ASSUME NEW a \in Actors, ModifyDone(a) \/ ModifyFails(a)
      PROVE  EveryLogin \in policy' => policy' = {EveryLogin}
  <2>1. op[a] # Null /\ op[a] \in Operation
    BY <1>1, Ended DEF ModifyDone, ModifyFails, Idle
  <2>2. op[a].attr = "policy" => a \in Sessions /\ op[a].new = enforcementPolicies[a]
    BY <2>1 DEF OpShape, Actors
  <2>3. policy' = policy \/ (op[a].attr = "policy" /\ policy' = op[a].new)
    BY <1>1, Effects DEF Stored
  <2> QED BY <2>2, <2>3 DEF TypeOK
<1>2. ASSUME NEW s \in Sessions, SessionStep(s) PROVE PoliciesExclusive'
  <2>1. CASE HomeInit(s) \/ PreferenceInit(s)
    BY <2>1, UEAssumption DEF HomeInit, PreferenceInit, Opens, LeavesPolicy, TypeOK
  <2>2. CASE PrepareUpdateMethod(s) \/ Update(s) \/ CancelUpdate(s) \/ CheckPolicy(s)
               \/ CancelPolicy(s) \/ UpdatePolicy(s) \/ DeleteDevice(s)
    BY <2>2 DEF PrepareUpdateMethod, Update, CancelUpdate, CheckPolicy, CancelPolicy,
                UpdatePolicy, DeleteDevice
  <2>3. CASE PolicyInit(s)
    BY <2>3 DEF PolicyInit, Opens, ShownPolicy, TypeOK
  <2>4. CASE SetPreferredMethod(s) \/ DeleteTrustedDevice(s)
    BY <2>4, <1>1, <1>t DEF SetPreferredMethod, DeleteTrustedDevice
  <2>5. CASE Update2FAPolicies(s)
    <3>1. EveryLogin \in policy' => policy' = {EveryLogin}
      BY <2>5, <1>1, <1>t DEF Update2FAPolicies
    <3>2. \A x \in Sessions :
            \/ enforcementPoliciesCopy'[x] = enforcementPoliciesCopy[x]
            \/ enforcementPoliciesCopy'[x] = enforcementPolicies[x]
      BY <2>5 DEF Update2FAPolicies, TypeOK
    <3> QED BY <3>1, <3>2 DEF TypeOK
  <2> QED BY <1>2, <2>1, <2>2, <2>3, <2>4, <2>5 DEF SessionStep
<1>3. CASE ResetPreference
  BY <1>3, <1>1, <1>t DEF ResetPreference
<1>4. CASE SearchUsers \/ CancelReset \/ DoReset \/ LoginAdds \/ UNCHANGED vars
  BY <1>4 DEF SearchUsers, CancelReset, DoReset, LoginAdds, vars
<1> QED BY <1>2, <1>3, <1>4 DEF Next

LEMMA PageNext ==
  ASSUME TypeOK, PageShape, OpShape, PagesAgree, [Next]_vars
  PROVE  PageShape'
<1> USE DEF PageShape, Idle, entry, prefPage, policyPage
<1>t. Admin \in Actors /\ Admin \notin Sessions /\ \A s \in Sessions : s \in Actors
  BY UEAssumption DEF Actors
<1>1. ASSUME NEW s \in Sessions, SessionStep(s) PROVE PageShape'
  <2>o. \A x \in Sessions : x # s => x \in Actors \ {s}
    BY <1>t
  <2>1. CASE HomeInit(s) \/ PreferenceInit(s)
    BY <2>1 DEF HomeInit, PreferenceInit, Opens, LeavesPolicy, TypeOK
  <2>2. CASE PolicyInit(s)
    BY <2>2 DEF PolicyInit, Opens, TypeOK
  <2>3. CASE PrepareUpdateMethod(s) \/ CancelUpdate(s)
    <3>1. CASE PrepareUpdateMethod(s)
      <4>1. /\ page[s] = "preferred" /\ op[s] = Null
            /\ prevSelectedMethod'[s] = selectedMethod[s]
            /\ selectedMethod[s] = preferredMethod[s]
        BY <3>1 DEF PrepareUpdateMethod, TypeOK, PagesAgree
      <4>2. \A x \in Sessions : x # s =>
              /\ prevSelectedMethod'[x] = prevSelectedMethod[x]
              /\ uiEditing'[x] = uiEditing[x]
        BY <3>1 DEF PrepareUpdateMethod, TypeOK
      <4>3. UNCHANGED <<preferredMethod, page, policyPage, op>>
        BY <3>1 DEF PrepareUpdateMethod
      <4> QED BY <4>1, <4>2, <4>3
    <3>2. CASE CancelUpdate(s)
      BY <3>2 DEF CancelUpdate, TypeOK
    <3> QED BY <2>3, <3>1, <3>2
  <2>4. CASE CheckPolicy(s) \/ CancelPolicy(s)
    BY <2>4 DEF CheckPolicy, CancelPolicy, TypeOK
  <2>5. CASE Update(s) \/ UpdatePolicy(s) \/ DeleteDevice(s)
    <3>1. \A x \in Sessions : op'[x] = op[x] \/ x = s
      BY <2>5, <1>t DEF Update, UpdatePolicy, DeleteDevice, Get, TypeOK
    <3>2. \A x \in Sessions : uiEditing'[x] => uiEditing[x] /\ x # s
      BY <2>5 DEF Update, UpdatePolicy, DeleteDevice, TypeOK
    <3>3. UNCHANGED <<page, enforcementPolicies, trustedDevices, prevSelectedMethod,
                      preferredMethod>>
      BY <2>5 DEF Update, UpdatePolicy, DeleteDevice
    <3> QED BY <3>1, <3>2, <3>3
  <2>6. CASE SetPreferredMethod(s) \/ Update2FAPolicies(s) \/ DeleteTrustedDevice(s)
    <3>1. op[s] # Null /\ (ModifyDone(s) \/ ModifyFails(s))
      BY <2>6 DEF SetPreferredMethod, Update2FAPolicies, DeleteTrustedDevice
    <3>2. \A x \in Sessions : x # s => op'[x] = op[x]
      BY <1>t, <2>o, <3>1, Ended
    <3>4. ~uiEditing[s]
      BY <3>1
    <3>5. /\ UNCHANGED <<page, uiEditing, prevSelectedMethod, enforcementPolicies>>
          /\ \A x \in Sessions : x # s =>
               /\ preferredMethod'[x] = preferredMethod[x]
               /\ trustedDevices'[x] = trustedDevices[x]
      BY <2>6 DEF SetPreferredMethod, Update2FAPolicies, DeleteTrustedDevice, TypeOK
    <3>6. trustedDevices'[s] \subseteq trustedDevices[s]
      <4>1. CASE DeleteTrustedDevice(s)
        BY <4>1, <3>1 DEF DeleteTrustedDevice, OpShape, TypeOK
      <4> QED BY <2>6, <4>1 DEF SetPreferredMethod, Update2FAPolicies
    <3> QED BY <3>2, <3>4, <3>5, <3>6
  <2> QED BY <1>1, <2>1, <2>2, <2>3, <2>4, <2>5, <2>6 DEF SessionStep
<1>2. CASE SearchUsers \/ CancelReset \/ UNCHANGED vars
  BY <1>2 DEF SearchUsers, CancelReset, vars
<1>3. CASE DoReset
  <2>1. \A x \in Sessions : op'[x] = op[x]
    BY <1>3, <1>t DEF DoReset, Get, TypeOK
  <2> QED BY <1>3, <2>1 DEF DoReset
<1>4. CASE ResetPreference
  <2>1. /\ ModifyDone(Admin) \/ ModifyFails(Admin)
        /\ UNCHANGED <<preferredMethod, page, prefPage, policyPage>>
    BY <1>4 DEF ResetPreference
  <2>2. \A x \in Sessions : op'[x] = op[x]
    BY <1>t, <2>1, Ended
  <2> QED BY <2>1, <2>2
<1>5. CASE LoginAdds
  BY <1>5 DEF LoginAdds
<1> QED BY <1>1, <1>2, <1>3, <1>4, <1>5 DEF Next

\* What a session writes down when it sets an attribute.
LEMMA Noted ==
  ASSUME TypeOK, NEW s \in Sessions
  PROVE  /\ \A method \in Methods \cup {Null} : Get(s, "pref", method # pref, method) =>
              /\ op'[s].attr = "pref" /\ op'[s].new = method
              /\ \A b \in Actors \ {s} : op'[b] = op[b]
         /\ Get(s, "policy", TRUE, enforcementPolicies[s]) =>
              /\ op'[s].attr = "policy" /\ op'[s].new = enforcementPolicies[s]
              /\ \A b \in Actors \ {s} : op'[b] = op[b]
         /\ \A d : Get(s, "devices", TRUE, trustedDevices[s] \ {d}) =>
              /\ op'[s].attr = "devices" /\ op'[s].new = trustedDevices[s] \ {d}
              /\ \A b \in Actors \ {s} : op'[b] = op[b]
  BY DEF Get, TypeOK, Actors

LEMMA OpNext ==
  ASSUME TypeOK, PageShape, OpShape, [Next]_vars
  PROVE  OpShape'
<1> USE DEF OpShape, Idle, entry, prefPage, policyPage
<1>t. Admin \in Actors /\ Admin \notin Sessions /\ \A s \in Sessions : s \in Actors
  BY UEAssumption DEF Actors
<1>1. ASSUME NEW s \in Sessions, SessionStep(s) PROVE OpShape'
  <2>o. s # Admin /\ \A x \in Sessions : x # s => x \in Actors \ {s}
    BY <1>t
  <2>1. CASE HomeInit(s) \/ PreferenceInit(s)
    BY <2>1 DEF HomeInit, PreferenceInit, Opens, LeavesPolicy, TypeOK
  <2>2. CASE PolicyInit(s)
    BY <2>2 DEF PolicyInit, Opens, TypeOK
  <2>3. CASE PrepareUpdateMethod(s) \/ CancelUpdate(s)
    <3>1. op[s] = Null /\ UNCHANGED <<op, page, preferredMethod, policyPage>>
      BY <2>3 DEF PrepareUpdateMethod, CancelUpdate
    <3>2. \A x \in Sessions : x # s =>
            /\ prevSelectedMethod'[x] = prevSelectedMethod[x]
            /\ selectedMethod'[x] = selectedMethod[x]
      BY <2>3 DEF PrepareUpdateMethod, CancelUpdate, TypeOK
    <3> QED BY <3>1, <3>2
  <2>4. CASE CheckPolicy(s) \/ CancelPolicy(s)
    <3>1. op[s] = Null /\ UNCHANGED <<op, page, preferredMethod, prefPage, trustedDevices>>
      BY <2>4 DEF CheckPolicy, CancelPolicy
    <3>2. \A x \in Sessions : x # s => enforcementPolicies'[x] = enforcementPolicies[x]
      BY <2>4 DEF CheckPolicy, CancelPolicy, TypeOK
    <3> QED BY <3>1, <3>2
  <2>5. CASE Update(s)
    <3>1. PICK method \in Methods \cup {Null} :
            /\ selectedMethod' = [selectedMethod EXCEPT ![s] = method]
            /\ Get(s, "pref", method # pref, method)
      BY <2>5 DEF Update
    <3>2. /\ op'[s].attr = "pref" /\ op'[s].new = method
          /\ \A b \in Actors \ {s} : op'[b] = op[b]
      BY <3>1, Noted
    <3>3. selectedMethod'[s] = method
          /\ \A x \in Sessions : x # s => selectedMethod'[x] = selectedMethod[x]
      BY <3>1 DEF TypeOK
    <3>4. page[s] = "preferred" /\ prevSelectedMethod[s] = preferredMethod[s]
      BY <2>5 DEF Update, PageShape
    <3>5. UNCHANGED <<preferredMethod, page, prevSelectedMethod, policyPage>>
      BY <2>5 DEF Update
    <3>6. op'[Admin] = op[Admin]
      BY <1>t, <2>o, <3>2
    <3> QED BY <1>t, <2>o, <3>2, <3>3, <3>4, <3>5, <3>6
  <2>6. CASE UpdatePolicy(s)
    <3>1. /\ op'[s].attr = "policy" /\ op'[s].new = enforcementPolicies[s]
          /\ \A b \in Actors \ {s} : op'[b] = op[b]
      BY <2>6, Noted DEF UpdatePolicy
    <3>2. page[s] = "policy" /\ enforcementPolicies[s] # {}
      BY <2>6 DEF UpdatePolicy, PageShape
    <3>3. UNCHANGED <<preferredMethod, page, prefPage, policyPage>>
      BY <2>6 DEF UpdatePolicy
    <3>4. op'[Admin] = op[Admin]
      BY <1>t, <2>o, <3>1
    <3> QED BY <1>t, <2>o, <3>1, <3>2, <3>3, <3>4
  <2>7. CASE DeleteDevice(s)
    <3>1. PICK d \in trustedDevices[s] : Get(s, "devices", TRUE, trustedDevices[s] \ {d})
      BY <2>7 DEF DeleteDevice
    <3>3. /\ op'[s].attr = "devices" /\ op'[s].new = trustedDevices[s] \ {d}
          /\ \A b \in Actors \ {s} : op'[b] = op[b]
      BY <3>1, Noted
    <3>4. page[s] = "policy"
      BY DEF PageShape
    <3>5. UNCHANGED <<preferredMethod, page, prefPage, policyPage>>
      BY <2>7 DEF DeleteDevice
    <3>6. op'[Admin] = op[Admin]
      BY <1>t, <2>o, <3>3
    <3> QED BY <1>t, <2>o, <3>3, <3>4, <3>5, <3>6
  <2>8. CASE SetPreferredMethod(s) \/ Update2FAPolicies(s) \/ DeleteTrustedDevice(s)
    <3>1. ModifyDone(s) \/ ModifyFails(s)
      BY <2>8 DEF SetPreferredMethod, Update2FAPolicies, DeleteTrustedDevice
    <3>2. op'[s] = Null /\ \A b \in Actors \ {s} : op'[b] = op[b]
      BY <1>t, <3>1, Ended
    <3>3. \A x \in Sessions : x # s =>
            /\ preferredMethod'[x] = preferredMethod[x]
            /\ selectedMethod'[x] = selectedMethod[x]
            /\ trustedDevices'[x] = trustedDevices[x]
      BY <2>8 DEF SetPreferredMethod, Update2FAPolicies, DeleteTrustedDevice, TypeOK
    <3>4. UNCHANGED <<page, prevSelectedMethod, enforcementPolicies>>
      BY <2>8 DEF SetPreferredMethod, Update2FAPolicies, DeleteTrustedDevice
    <3>5. op'[Admin] = op[Admin]
      BY <1>t, <2>o, <3>2
    <3> QED BY <1>t, <2>o, <3>2, <3>3, <3>4, <3>5
  <2> QED BY <1>1, <2>1, <2>2, <2>3, <2>4, <2>5, <2>6, <2>7, <2>8 DEF SessionStep
<1>2. CASE SearchUsers \/ CancelReset \/ LoginAdds \/ UNCHANGED vars
  BY <1>2 DEF SearchUsers, CancelReset, LoginAdds, vars
<1>3. CASE DoReset
  <2>1. /\ op'[Admin].attr = "pref"
        /\ \A b \in Actors \ {Admin} : op'[b] = op[b]
    BY <1>3, <1>t, Recorded DEF DoReset, TypeOK
  <2>2. \A x \in Sessions : op'[x] = op[x]
    BY <1>t, <2>1
  <2>3. UNCHANGED <<preferredMethod, page, prefPage, policyPage>>
    BY <1>3 DEF DoReset
  <2> QED BY <2>1, <2>2, <2>3
<1>4. CASE ResetPreference
  <2>1. /\ ModifyDone(Admin) \/ ModifyFails(Admin)
        /\ UNCHANGED <<preferredMethod, page, prefPage, policyPage>>
    BY <1>4 DEF ResetPreference
  <2>2. op'[Admin] = Null /\ \A x \in Sessions : op'[x] = op[x]
    BY <1>t, <2>1, Ended
  <2> QED BY <2>1, <2>2
<1> QED BY <1>1, <1>2, <1>3, <1>4 DEF Next

-----------------------------------------------------------------------------
(* What a session shows.                                                   *)

LEMMA AgreeInit == Init => PagesAgree
  BY DEF Init, PagesAgree, SymDiff

\* Sets that differ little from the same set differ little.
LEMMA Triangle ==
  ASSUME NEW A, NEW B, NEW C
  PROVE  SymDiff(A, C) \subseteq SymDiff(A, B) \cup SymDiff(B, C)
  BY DEF SymDiff

LEMMA NoDifference == ASSUME NEW A PROVE SymDiff(A, A) = {}
  BY DEF SymDiff

LEMMA EitherWay ==
  ASSUME TypeOK, NEW a \in Actors
  PROVE  ~(ModifyDone(a) /\ ModifyFails(a))
<1>1. writes \in Nat /\ faults \in Nat
  BY UEAssumption DEF TypeOK
<1> QED BY <1>1 DEF ModifyDone, ModifyFails, Stored

\* The end of an operation, for what a session x shows and the actor a of the
\* operation did not set: it agrees, or x is told.
LEMMA OthersAgree ==
  ASSUME TypeOK, PagesAgree, NEW a \in Actors, ModifyDone(a) \/ ModifyFails(a),
         NEW x \in Sessions
  PROVE  /\ "pref" \in current'[x] /\ (x = a => op[a].attr # "pref" \/ ~ModifyDone(a))
             => preferredMethod[x] = pref'
         /\ "policy" \in current'[x] /\ (x = a => op[a].attr # "policy" \/ ~ModifyDone(a))
             => enforcementPoliciesCopy[x] = ShownPolicy'
         /\ (x = a => op[a].attr # "devices" \/ ~ModifyDone(a))
             => SymDiff(trustedDevices[x], trusted') \subseteq changed'[x]
<1> DEFINE attr == op[a].attr
<1>1. /\ attr # "pref" => pref' = pref
      /\ attr # "policy" => policy' = policy
  BY Effects
<1>2. \/ UNCHANGED <<entry, known>>
      \/ /\ current'[x] = current[x] \ {attr}
         /\ changed'[x] = changed[x] \cup SymDiff(trusted, trusted')
      \/ /\ x = a /\ ModifyDone(a)
         /\ current'[x] \subseteq current[x] \cup {attr}
         /\ attr # "devices" => changed'[x] = changed[x] \cup SymDiff(trusted, trusted')
  BY Effects
<1>3. /\ "pref" \in current[x] => preferredMethod[x] = pref
      /\ "policy" \in current[x] => enforcementPoliciesCopy[x] = ShownPolicy
      /\ SymDiff(trustedDevices[x], trusted) \subseteq changed[x]
  BY DEF PagesAgree
<1>4. policy' = policy => ShownPolicy' = ShownPolicy
  BY DEF ShownPolicy
<1>5. changed'[x] = changed[x] \cup SymDiff(trusted, trusted')
        => SymDiff(trustedDevices[x], trusted') \subseteq changed'[x]
  BY <1>3, Triangle
<1> HIDE DEF attr
<1>6. CASE UNCHANGED <<entry, known>>
  BY <1>3, <1>4, <1>6 DEF entry, known
<1>7. CASE /\ current'[x] = current[x] \ {attr}
           /\ changed'[x] = changed[x] \cup SymDiff(trusted, trusted')
  BY <1>1, <1>3, <1>4, <1>5, <1>7
<1>8. CASE /\ x = a /\ ModifyDone(a)
           /\ current'[x] \subseteq current[x] \cup {attr}
           /\ attr # "devices" => changed'[x] = changed[x] \cup SymDiff(trusted, trusted')
  BY <1>1, <1>3, <1>4, <1>5, <1>8 DEF attr
<1> QED BY <1>2, <1>6, <1>7, <1>8

LEMMA AgreeNext ==
  ASSUME TypeOK, PageShape, OpShape, PagesAgree, [Next]_vars
  PROVE  PagesAgree'
<1> USE DEF Idle, entry, prefPage, policyPage, known
<1>t. Admin \in Actors /\ Admin \notin Sessions /\ \A s \in Sessions : s \in Actors
  BY UEAssumption DEF Actors
<1>1. ASSUME NEW s \in Sessions, SessionStep(s) PROVE PagesAgree'
  <2>o. \A x \in Sessions : x # s => x \in Actors \ {s}
    BY <1>t
  <2>1. CASE HomeInit(s) \/ PreferenceInit(s)
    <3>1. UNCHANGED <<entry, op>> /\ ShownPolicy' = ShownPolicy
      BY <2>1 DEF HomeInit, PreferenceInit, Opens, ShownPolicy
    <3>2. \A x \in Sessions : x # s =>
            /\ preferredMethod'[x] = preferredMethod[x]
            /\ page'[x] = page[x] /\ uiEditing'[x] = uiEditing[x]
            /\ selectedMethod'[x] = selectedMethod[x]
            /\ enforcementPoliciesCopy'[x] = enforcementPoliciesCopy[x]
            /\ trustedDevices'[x] = trustedDevices[x]
            /\ current'[x] = current[x] /\ changed'[x] = changed[x]
      BY <2>1 DEF HomeInit, PreferenceInit, Opens, LeavesPolicy, TypeOK
    <3>3. CASE HomeInit(s)
      <4>1. /\ current'[s] = {} /\ changed'[s] = Devices
            /\ trustedDevices'[s] = {} /\ page'[s] = "home"
        BY <3>3 DEF HomeInit, Opens, LeavesPolicy, TypeOK
      <4>2. SymDiff(trustedDevices'[s], trusted) \subseteq changed'[s]
        BY <4>1 DEF SymDiff, TypeOK
      <4> QED BY <3>1, <3>2, <4>1, <4>2 DEF PagesAgree
    <3>4. CASE PreferenceInit(s)
      <4>1. /\ current'[s] = current[s] \ {"policy"} /\ changed'[s] = Devices
            /\ trustedDevices'[s] = {}
            /\ preferredMethod' = preferredMethod
            /\ selectedMethod'[s] = preferredMethod[s]
        BY <3>4 DEF PreferenceInit, Opens, LeavesPolicy, TypeOK
      <4>2. SymDiff(trustedDevices'[s], trusted) \subseteq changed'[s]
        BY <4>1 DEF SymDiff, TypeOK
      <4> QED BY <3>1, <3>2, <4>1, <4>2 DEF PagesAgree
    <3> QED BY <2>1, <3>3, <3>4
  <2>2. CASE PolicyInit(s)
    <3>1. UNCHANGED <<entry, op, preferredMethod>> /\ ShownPolicy' = ShownPolicy
      BY <2>2 DEF PolicyInit, Opens, ShownPolicy
    <3>2. \A x \in Sessions : x # s =>
            /\ page'[x] = page[x] /\ uiEditing'[x] = uiEditing[x]
            /\ selectedMethod'[x] = selectedMethod[x]
            /\ enforcementPoliciesCopy'[x] = enforcementPoliciesCopy[x]
            /\ trustedDevices'[x] = trustedDevices[x]
            /\ current'[x] = current[x] /\ changed'[x] = changed[x]
      BY <2>2 DEF PolicyInit, Opens, TypeOK
    <3>3. page'[s] = "policy" /\ ("pref" \in current'[s] => "pref" \in current[s])
      BY <2>2 DEF PolicyInit, Opens, TypeOK
    <3>4. "policy" \in current'[s] => enforcementPoliciesCopy'[s] = ShownPolicy
      BY <2>2 DEF PolicyInit, TypeOK
    <3>5. SymDiff(trustedDevices'[s], trusted) \subseteq changed'[s]
      <4>1. \/ trustedDevices'[s] = trusted
            \/ trustedDevices'[s] = {} /\ changed'[s] = Devices
        BY <2>2 DEF PolicyInit, TypeOK
      <4> QED BY <4>1 DEF SymDiff, TypeOK
    <3> QED BY <3>1, <3>2, <3>3, <3>4, <3>5 DEF PagesAgree
  <2>3. CASE PrepareUpdateMethod(s) \/ CancelUpdate(s)
    <3>1. UNCHANGED <<entry, op, page, preferredMethod, policyPage, known>>
          /\ ShownPolicy' = ShownPolicy
      BY <2>3 DEF PrepareUpdateMethod, CancelUpdate, ShownPolicy
    <3>2. \A x \in Sessions : x # s =>
            uiEditing'[x] = uiEditing[x] /\ selectedMethod'[x] = selectedMethod[x]
      BY <2>3 DEF PrepareUpdateMethod, CancelUpdate, TypeOK
    <3>3. uiEditing'[s] \/ selectedMethod'[s] = preferredMethod[s]
      <4>1. CASE PrepareUpdateMethod(s)
        BY <4>1 DEF PrepareUpdateMethod, TypeOK
      <4>2. CASE CancelUpdate(s)
        BY <4>2 DEF CancelUpdate, PageShape, TypeOK
      <4> QED BY <2>3, <4>1, <4>2
    <3> QED BY <3>1, <3>2, <3>3 DEF PagesAgree
  <2>4. CASE CheckPolicy(s) \/ CancelPolicy(s)
    <3>1. /\ UNCHANGED <<preferredMethod, page, prefPage, op, known,
                         enforcementPoliciesCopy, trustedDevices>>
          /\ UNCHANGED entry /\ ShownPolicy' = ShownPolicy
      BY <2>4 DEF CheckPolicy, CancelPolicy, ShownPolicy
    <3> QED BY <3>1 DEF PagesAgree
  <2>5. CASE Update(s) \/ UpdatePolicy(s) \/ DeleteDevice(s)
    <3>1. UNCHANGED <<entry, page, preferredMethod, policyPage, known>>
          /\ ShownPolicy' = ShownPolicy
      BY <2>5 DEF Update, UpdatePolicy, DeleteDevice, ShownPolicy
    <3>2. \A x \in Sessions : x # s =>
            /\ uiEditing'[x] = uiEditing[x] /\ selectedMethod'[x] = selectedMethod[x]
            /\ op'[x] = op[x]
      BY <1>t, <2>5 DEF Update, UpdatePolicy, DeleteDevice, Get, TypeOK
    <3>3. op'[s] # Null
      <4>1. CASE Update(s)
        <5>1. PICK method \in Methods \cup {Null} : Get(s, "pref", method # pref, method)
          BY <4>1 DEF Update
        <5> QED BY <1>t, <5>1, Recorded DEF TypeOK
      <4>2. CASE UpdatePolicy(s)
        BY <1>t, <4>2, Recorded DEF UpdatePolicy, TypeOK
      <4>3. CASE DeleteDevice(s)
        <5>1. PICK d \in trustedDevices[s] :
                Get(s, "devices", TRUE, trustedDevices[s] \ {d})
          BY <4>3 DEF DeleteDevice
        <5>2. trustedDevices[s] \ {d} \in SUBSET Devices
          BY DEF TypeOK
        <5> QED BY <1>t, <5>1, <5>2, Recorded
      <4> QED BY <2>5, <4>1, <4>2, <4>3
    <3> QED BY <3>1, <3>2, <3>3 DEF PagesAgree
  <2>6. CASE SetPreferredMethod(s) \/ Update2FAPolicies(s) \/ DeleteTrustedDevice(s)
    <3>1. op[s] # Null /\ (ModifyDone(s) \/ ModifyFails(s))
      BY <2>6 DEF SetPreferredMethod, Update2FAPolicies, DeleteTrustedDevice
    <3>2. \A x \in Sessions : x # s => op'[x] = op[x]
      BY <1>t, <2>o, <3>1, Ended
    <3>3. page' = page /\ uiEditing' = uiEditing
      BY <2>6 DEF SetPreferredMethod, Update2FAPolicies, DeleteTrustedDevice
    <3>4. ASSUME NEW x \in Sessions, x # s
          PROVE  /\ "pref" \in current'[x] => preferredMethod'[x] = pref'
                 /\ page'[x] = "preferred" /\ op'[x] = Null /\ ~uiEditing'[x] =>
                      selectedMethod'[x] = preferredMethod'[x]
                 /\ "policy" \in current'[x] => enforcementPoliciesCopy'[x] = ShownPolicy'
                 /\ SymDiff(trustedDevices'[x], trusted') \subseteq changed'[x]
      <4>1. /\ preferredMethod'[x] = preferredMethod[x]
            /\ selectedMethod'[x] = selectedMethod[x]
            /\ enforcementPoliciesCopy'[x] = enforcementPoliciesCopy[x]
            /\ trustedDevices'[x] = trustedDevices[x]
        BY <2>6, <3>4 DEF SetPreferredMethod, Update2FAPolicies, DeleteTrustedDevice, TypeOK
      <4>2. /\ "pref" \in current'[x] => preferredMethod[x] = pref'
            /\ "policy" \in current'[x] => enforcementPoliciesCopy[x] = ShownPolicy'
            /\ SymDiff(trustedDevices[x], trusted') \subseteq changed'[x]
        BY <1>t, <3>1, <3>4, OthersAgree
      <4>3. page[x] = "preferred" /\ op[x] = Null /\ ~uiEditing[x] =>
              selectedMethod[x] = preferredMethod[x]
        BY DEF PagesAgree
      <4> QED BY <3>2, <3>3, <3>4, <4>1, <4>2, <4>3
    <3>5. /\ "pref" \in current'[s] => preferredMethod'[s] = pref'
          /\ page'[s] = "preferred" /\ ~uiEditing'[s] =>
               selectedMethod'[s] = preferredMethod'[s]
          /\ "policy" \in current'[s] => enforcementPoliciesCopy'[s] = ShownPolicy'
          /\ SymDiff(trustedDevices'[s], trusted') \subseteq changed'[s]
      <4>1. /\ "pref" \in current'[s] /\ (op[s].attr # "pref" \/ ~ModifyDone(s))
                 => preferredMethod[s] = pref'
            /\ "policy" \in current'[s] /\ (op[s].attr # "policy" \/ ~ModifyDone(s))
                 => enforcementPoliciesCopy[s] = ShownPolicy'
            /\ op[s].attr # "devices" \/ ~ModifyDone(s)
                 => SymDiff(trustedDevices[s], trusted') \subseteq changed'[s]
        BY <1>t, <3>1, OthersAgree
      <4>2. CASE SetPreferredMethod(s)
        <5>1. /\ op[s].attr = "pref" /\ UNCHANGED policyPage
              /\ page[s] = "preferred" /\ prevSelectedMethod[s] = preferredMethod[s]
              /\ selectedMethod[s] = op[s].new
          BY <4>2 DEF SetPreferredMethod, OpShape
        <5>2. CASE /\ ModifyDone(s)
                   /\ preferredMethod' = [preferredMethod EXCEPT ![s] = op[s].new]
                   /\ UNCHANGED selectedMethod
          <6>1. pref' = op[s].new /\ preferredMethod'[s] = op[s].new
            BY <1>t, <5>1, <5>2, Effects DEF TypeOK
          <6> QED BY <3>2, <4>1, <5>1, <5>2, <6>1
        <5>3. CASE /\ ModifyFails(s)
                   /\ selectedMethod' = [selectedMethod EXCEPT ![s] = prevSelectedMethod[s]]
                   /\ UNCHANGED preferredMethod
          <6>1. selectedMethod'[s] = preferredMethod[s]
            BY <5>1, <5>3 DEF TypeOK
          <6>2. ~ModifyDone(s)
            BY <1>t, <5>3, EitherWay
          <6> QED BY <3>2, <4>1, <5>1, <5>3, <6>1, <6>2
        <5> QED BY <4>2, <5>2, <5>3 DEF SetPreferredMethod
      <4>3. CASE Update2FAPolicies(s)
        <5>1. /\ op[s].attr = "policy" /\ UNCHANGED <<preferredMethod, prefPage, trustedDevices>>
              /\ page[s] = "policy" /\ enforcementPolicies[s] # {}
              /\ enforcementPolicies[s] = op[s].new
          BY <4>3 DEF Update2FAPolicies, OpShape
        <5>2. CASE /\ ModifyDone(s)
                   /\ enforcementPoliciesCopy' = [enforcementPoliciesCopy EXCEPT ![s] =
                                                    enforcementPolicies[s]]
          <6>1. policy' = op[s].new /\ enforcementPoliciesCopy'[s] = op[s].new
            BY <1>t, <5>1, <5>2, Effects DEF TypeOK
          <6>2. ShownPolicy' = op[s].new
            BY <5>1, <6>1 DEF ShownPolicy
          <6> QED BY <3>2, <3>3, <4>1, <5>1, <5>2, <6>1, <6>2
        <5>3. CASE ModifyFails(s) /\ UNCHANGED enforcementPoliciesCopy
          <6>1. ~ModifyDone(s)
            BY <1>t, <5>3, EitherWay
          <6> QED BY <3>2, <3>3, <4>1, <5>1, <5>3, <6>1
        <5> QED BY <4>3, <5>2, <5>3 DEF Update2FAPolicies
      <4>4. CASE DeleteTrustedDevice(s)
        <5>1. /\ op[s].attr = "devices"
              /\ UNCHANGED <<preferredMethod, prefPage, enforcementPoliciesCopy>>
              /\ page[s] = "policy"
          BY <4>4 DEF DeleteTrustedDevice, OpShape
        <5>2. CASE ModifyDone(s) /\ trustedDevices' = [trustedDevices EXCEPT ![s] = op[s].new]
          <6>1. trusted' = op[s].new /\ trustedDevices'[s] = op[s].new
            BY <1>t, <5>1, <5>2, Effects DEF TypeOK
          <6>2. SymDiff(trustedDevices'[s], trusted') \subseteq changed'[s]
            BY <6>1, NoDifference
          <6> QED BY <3>2, <3>3, <4>1, <5>1, <6>2
        <5>3. CASE ModifyFails(s) /\ UNCHANGED trustedDevices
          <6>1. ~ModifyDone(s)
            BY <1>t, <5>3, EitherWay
          <6> QED BY <3>2, <3>3, <4>1, <5>1, <5>3, <6>1
        <5> QED BY <4>4, <5>2, <5>3 DEF DeleteTrustedDevice
      <4> QED BY <2>6, <4>2, <4>3, <4>4
    <3> QED BY <3>4, <3>5 DEF PagesAgree
  <2> QED BY <1>1, <2>1, <2>2, <2>3, <2>4, <2>5, <2>6 DEF SessionStep
<1>2. CASE SearchUsers \/ CancelReset \/ UNCHANGED vars
  <2>1. /\ UNCHANGED <<preferredMethod, page, prefPage, policyPage, op, known>>
        /\ UNCHANGED entry /\ ShownPolicy' = ShownPolicy
    BY <1>2 DEF SearchUsers, CancelReset, vars, ShownPolicy
  <2> QED BY <2>1 DEF PagesAgree
<1>3. CASE DoReset
  <2>1. \A x \in Sessions : op'[x] = op[x]
    BY <1>3, <1>t DEF DoReset, Get, TypeOK
  <2> QED BY <1>3, <2>1 DEF DoReset, PagesAgree, ShownPolicy
<1>4. CASE ResetPreference
  <2>1. /\ ModifyDone(Admin) \/ ModifyFails(Admin)
        /\ UNCHANGED <<preferredMethod, page, prefPage, policyPage>>
    BY <1>4 DEF ResetPreference
  <2>2. \A x \in Sessions : op'[x] = op[x]
    BY <1>t, <2>1, Ended
  <2>3. \A x \in Sessions :
          /\ "pref" \in current'[x] => preferredMethod[x] = pref'
          /\ "policy" \in current'[x] => enforcementPoliciesCopy[x] = ShownPolicy'
          /\ SymDiff(trustedDevices[x], trusted') \subseteq changed'[x]
    BY <1>t, <2>1, OthersAgree
  <2> QED BY <2>1, <2>2, <2>3 DEF PagesAgree
<1>5. CASE LoginAdds
  <2>1. \A x \in Sessions : /\ current'[x] = current[x] \ {"devices"}
                            /\ changed'[x] = changed[x] \cup SymDiff(trusted, trusted')
    BY <1>5, <1>t DEF LoginAdds, WrittenBy
  <2>2. \A x \in Sessions : SymDiff(trustedDevices[x], trusted') \subseteq changed'[x]
    BY <2>1, Triangle DEF PagesAgree
  <2>3. UNCHANGED <<pref, policy, preferredMethod, page, prefPage, policyPage, op>>
    BY <1>5 DEF LoginAdds
  <2> QED BY <2>1, <2>2, <2>3 DEF PagesAgree, ShownPolicy
<1> QED BY <1>1, <1>2, <1>3, <1>4, <1>5 DEF Next

-----------------------------------------------------------------------------
(* Devices.                                                                *)

DeviceStep ==
  trusted' # trusted =>
    \/ op' = op /\ trusted \subseteq trusted'
    \/ \E s \in Sessions : \E d \in trustedDevices[s] :
         /\ op[s] # Null /\ op[s].attr = "devices" /\ op'[s] = Null
         /\ SymDiff(trusted', trusted \ {d}) \subseteq changed[s]

LEMMA DevicesNext ==
  ASSUME TypeOK, OpShape, PagesAgree, [Next]_vars
  PROVE  DeviceStep
<1> USE DEF entry
<1>t. Admin \in Actors /\ \A s \in Sessions : s \in Actors
  BY DEF Actors
<1>1. ASSUME NEW s \in Sessions, SessionStep(s) PROVE DeviceStep
  <2>1. CASE SetPreferredMethod(s) \/ Update2FAPolicies(s)
    <3>1. (ModifyDone(s) \/ ModifyFails(s)) /\ op[s].attr # "devices"
      BY <2>1 DEF SetPreferredMethod, Update2FAPolicies
    <3>2. trusted' = trusted
      BY <1>t, <3>1, Effects
    <3> QED BY <3>2 DEF DeviceStep
  <2>2. CASE DeleteTrustedDevice(s)
    <3>1. /\ op[s] # Null /\ op[s].attr = "devices"
          /\ ModifyDone(s) \/ ModifyFails(s)
      BY <2>2 DEF DeleteTrustedDevice
    <3>2. op'[s] = Null
      BY <1>t, <3>1, Ended
    <3>3. trusted' = trusted \/ trusted' = op[s].new
      BY <3>1 DEF ModifyDone, ModifyFails, Stored
    <3>4. PICK d \in trustedDevices[s] : op[s].new = trustedDevices[s] \ {d}
      BY <3>1 DEF OpShape
    <3>5. SymDiff(trustedDevices[s], trusted) \subseteq changed[s]
      BY DEF PagesAgree
    <3>6. SymDiff(trustedDevices[s] \ {d}, trusted \ {d}) \subseteq changed[s]
      BY <3>5 DEF SymDiff
    <3> QED BY <3>1, <3>2, <3>3, <3>4, <3>6 DEF DeviceStep
  <2>3. CASE \/ HomeInit(s) \/ PreferenceInit(s) \/ PrepareUpdateMethod(s) \/ Update(s)
             \/ CancelUpdate(s) \/ PolicyInit(s) \/ CheckPolicy(s) \/ CancelPolicy(s)
             \/ UpdatePolicy(s) \/ DeleteDevice(s)
    <3>1. trusted' = trusted
      BY <2>3 DEF HomeInit, PreferenceInit, Opens, PrepareUpdateMethod, Update, CancelUpdate,
                  PolicyInit, CheckPolicy, CancelPolicy, UpdatePolicy, DeleteDevice
    <3> QED BY <3>1 DEF DeviceStep
  <2> QED BY <1>1, <2>1, <2>2, <2>3 DEF SessionStep
<1>2. CASE SearchUsers \/ CancelReset \/ DoReset \/ UNCHANGED vars
  BY <1>2 DEF SearchUsers, CancelReset, DoReset, vars, DeviceStep
<1>3. CASE ResetPreference
  <2>1. (ModifyDone(Admin) \/ ModifyFails(Admin)) /\ op[Admin] # Null
    BY <1>3 DEF ResetPreference, ModifyDone, ModifyFails, Idle
  <2>2. trusted' = trusted
    BY <1>t, <2>1, Effects DEF OpShape
  <2> QED BY <2>2 DEF DeviceStep
<1>4. CASE LoginAdds
  BY <1>4 DEF LoginAdds, DeviceStep
<1> QED BY <1>1, <1>2, <1>3, <1>4 DEF Next

-----------------------------------------------------------------------------
(* Theorems.                                                               *)

LEMMA Invariance == Spec => []IInv
<1>1. Init => IInv
  BY TypeInit, ShapeInit, AgreeInit DEF IInv
<1>2. IInv /\ [Next]_vars => IInv'
  BY TypeNext, ExclusiveNext, PageNext, OpNext, AgreeNext DEF IInv
<1> QED BY <1>1, <1>2, PTL DEF Spec

\* All variables keep their types, and where every login is chosen no other
\* policy is (PolicyViewModel.checkPolicy).
THEOREM TypeCorrect == Spec => []TypeOK
<1>1. IInv => TypeOK
  BY DEF IInv
<1> QED BY <1>1, Invariance, PTL

\* What a session has read or written, and nobody since, is what the entry holds,
\* reads that fail and answers that are lost included; the devices a page lists
\* differ from those of the entry by no more than came or went since it read them
\* (UserService.setPreferredMethod, update2FAPolicies, deleteTrustedDevice,
\* get2FAPolicyData).
THEOREM Agreement == Spec => []PagesAgree
<1>1. IInv => PagesAgree
  BY DEF IInv
<1> QED BY <1>1, Invariance, PTL

\* A deletion takes out a device its page lists, and loses or brings back none but
\* those that came or went since that page read its list
\* (UserService.deleteTrustedDevice).
THEOREM DevicesKept == Spec => DevicesChangeOnlyBy
<1>1. IInv /\ [Next]_vars => [DeviceStep]_vars
  BY DevicesNext DEF IInv
<1>2. Spec => [][DeviceStep]_vars
  BY <1>1, Invariance, PTL DEF Spec
<1> QED BY <1>2 DEF DevicesChangeOnlyBy, DeviceStep
=============================================================================
