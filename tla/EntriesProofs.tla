---------------------------- MODULE EntriesProofs ----------------------------
(***************************************************************************)
(* The invariants of Entries, for any tokens, entries and flows.           *)
(***************************************************************************)
EXTENDS Entries, TLAPS

IInv == TypeOK /\ UniqueIdsDiffer /\ RunsItsToken

LEMMA InitIInv == Init => IInv
BY DEF Init, IInv, TypeOK, UniqueIdsDiffer, RunsItsToken, Open, Closed

\* A form is shown, filled in, answered or closed.
LEMMA FormIInv ==
    ASSUME IInv, NEW f \in Flows,
           AddIntegration(f) \/ Submit(f) \/ Validated(f) \/ NotValidated(f) \/ Dismiss(f)
    PROVE  IInv'
<1> USE DEF IInv, entry
<1>1. UniqueIdsDiffer' /\ RunsItsToken'
  BY DEF UniqueIdsDiffer, RunsItsToken, AddIntegration, Submit, Validated,
         NotValidated, Dismiss
<1>2. CASE AddIntegration(f)
  BY <1>1, <1>2 DEF AddIntegration, TypeOK, FlowType, Open
<1>3. CASE Submit(f)
  <2>1. PICK t \in Tokens :
            flow' = [flow EXCEPT ![f] = [@ EXCEPT !.step = "validating", !.given = t]]
    BY <1>3 DEF Submit
  <2> DEFINE g == [flow[f] EXCEPT !.step = "validating", !.given = t]
  <2>2. flow[f] \in FlowType
    BY <1>3 DEF Submit, Open, TypeOK
  <2>3. /\ g \in FlowType /\ g.given \in Tokens
        /\ g.kind = flow[f].kind /\ g.target = flow[f].target
    BY <2>2 DEF FlowType
  <2>4. flow' = [flow EXCEPT ![f] = g]
    BY <2>1
  <2> HIDE DEF g
  <2> QED
    BY <1>1, <1>3, <2>3, <2>4 DEF Submit, TypeOK, Open
<1>4. CASE Validated(f)
  BY <1>1, <1>4 DEF Validated, TypeOK, FlowType, Open
<1>5. CASE NotValidated(f)
  BY <1>1, <1>5 DEF NotValidated, TypeOK, FlowType, Open
<1>6. CASE Dismiss(f)
  BY <1>1, <1>6 DEF Dismiss, Close, TypeOK, FlowType, Open
<1> QED
  BY <1>2, <1>3, <1>4, <1>5, <1>6

\* A flow ends without touching an entry.
LEMMA CloseIInv ==
    ASSUME IInv, NEW f \in Flows, AddAborts(f) \/ ReauthAborts(f) \/ ReauthEnds(f)
    PROVE  IInv'
BY DEF IInv, entry, AddAborts, ReauthAborts, ReauthEnds, Close, TypeOK, Open,
       UniqueIdsDiffer, RunsItsToken

\* An entry is created.
LEMMA CreateIInv ==
    ASSUME IInv, NEW f \in Flows, AddCreates(f)
    PROVE  IInv'
<1> USE DEF IInv, AddCreates
<1> DEFINE t == flow[f].given
<1>1. t \in Tokens /\ UniqueId[t] \in UniqueIds
  BY UniqueIdAssumption DEF Accepted, TypeOK
<1>2. PICK e \in Ids : /\ state[e] = "absent"
                       /\ token' = [token EXCEPT ![e] = t]
                       /\ uid' = [uid EXCEPT ![e] = UniqueId[t]]
                       /\ Begins(e, t)
  OBVIOUS
<1> HIDE DEF t
<1>3. TypeOK'
  BY <1>1, <1>2 DEF Begins, Close, TypeOK, Open
<1>4. UniqueIdsDiffer'
  BY <1>1, <1>2 DEF UniqueIdsDiffer, Configured, TypeOK, t
<1>5. RunsItsToken'
  BY <1>1, <1>2 DEF RunsItsToken, Begins, TypeOK
<1> QED
  BY <1>3, <1>4, <1>5

\* An entry gets a new token.
LEMMA ReauthIInv ==
    ASSUME IInv, NEW f \in Flows, ReauthConfirmed(f)
    PROVE  IInv'
<1> USE DEF IInv, ReauthConfirmed, Reauths
<1> DEFINE e == flow[f].target
           t == flow[f].given
           g == [flow[f] EXCEPT !.step = "reloading", !.context = UniqueId[flow[f].given]]
<1>1. flow[f] \in FlowType /\ t \in Tokens /\ e \in Ids /\ state[e] # "absent"
  BY DEF Renewed, Open, TypeOK
<1>2. /\ g \in FlowType
      /\ g.kind = flow[f].kind /\ g.target = e /\ g.step = "reloading"
  BY <1>1, UniqueIdAssumption DEF FlowType
<1>3. flow' = [flow EXCEPT ![f] = g]
  OBVIOUS
<1>4. /\ token' = [token EXCEPT ![e] = t]
      /\ due' = [due EXCEPT ![e] = TRUE]
      /\ UNCHANGED <<uid, state, running, revoked>>
  BY <1>1 DEF TypeOK
<1>5. flow[f].kind = "reauth" /\ Open(f)
  BY DEF Renewed
<1> HIDE DEF e, t, g
<1>6. TypeOK'
  BY <1>1, <1>2, <1>3, <1>4, <1>5 DEF TypeOK, Open, e
<1>7. UniqueIdsDiffer'
  BY <1>4 DEF UniqueIdsDiffer
<1>8. RunsItsToken'
  BY <1>1, <1>4 DEF RunsItsToken, TypeOK
<1> QED
  BY <1>6, <1>7, <1>8

\* A setup begins or ends, or a poll is refused.
LEMMA LivingIInv ==
    ASSUME IInv, NEW e \in Ids,
           \/ Reload(e) \/ SetupSucceeds(e) \/ SetupRefused(e) \/ SetupNotReady(e)
           \/ SetupRetried(e) \/ PollRefused(e)
    PROVE  IInv'
<1> USE DEF IInv, entry
<1>1. CASE Reload(e) \/ SetupSucceeds(e) \/ SetupNotReady(e) \/ SetupRetried(e)
  <2>1. TypeOK'
    BY <1>1 DEF Reload, SetupSucceeds, SetupNotReady, SetupRetried, Begins, TypeOK, Open
  <2>2. UniqueIdsDiffer'
    BY <1>1 DEF Reload, SetupSucceeds, SetupNotReady, SetupRetried, UniqueIdsDiffer
  <2>3. RunsItsToken'
    BY <1>1 DEF Reload, SetupSucceeds, SetupNotReady, SetupRetried, Begins, TypeOK,
                RunsItsToken
  <2> QED
    BY <2>1, <2>2, <2>3
<1>2. CASE SetupRefused(e) \/ PollRefused(e)
  <2> DEFINE g == [kind |-> "reauth", step |-> "form", target |-> e,
                   given |-> None, context |-> uid[e]]
  <2>1. /\ UNCHANGED <<token, uid, running, due, revoked>>
        /\ state[e] # "absent"
        /\ state' = state \/ state' = [state EXCEPT ![e] = "failed"]
        /\ AskAgain(e)
    BY <1>2 DEF SetupRefused, PollRefused
  <2>2. g \in FlowType /\ g.target = e /\ g.step = "form"
    BY <2>1 DEF FlowType, TypeOK
  <2>3. flow' = flow \/ \E f \in Flows : flow' = [flow EXCEPT ![f] = g]
    BY <2>1 DEF AskAgain
  <2> HIDE DEF g
  <2>4. TypeOK'
    <3>1. CASE flow' = flow
      BY <2>1, <3>1 DEF TypeOK, Open
    <3>2. ASSUME NEW f \in Flows, flow' = [flow EXCEPT ![f] = g] PROVE TypeOK'
      BY <2>1, <2>2, <3>2 DEF TypeOK, Open
    <3> QED
      BY <2>3, <3>1, <3>2
  <2>5. UniqueIdsDiffer' /\ RunsItsToken'
    BY <2>1 DEF UniqueIdsDiffer, RunsItsToken, TypeOK
  <2> QED
    BY <2>4, <2>5
<1> QED
  BY <1>1, <1>2

\* An entry is removed, Home Assistant restarts, a token is revoked.
LEMMA OutsideIInv ==
    ASSUME IInv, (\E e \in Ids : Remove(e)) \/ Restart \/ Revoke
    PROVE  IInv'
<1> USE DEF IInv, entry
<1>1. ASSUME NEW e \in Ids, Remove(e) PROVE IInv'
  <2>1. TypeOK'
    BY <1>1 DEF Remove, TypeOK, Open
  <2>2. UniqueIdsDiffer' /\ RunsItsToken'
    BY <1>1 DEF Remove, UniqueIdsDiffer, RunsItsToken, TypeOK
  <2> QED
    BY <2>1, <2>2
<1>2. CASE Restart
  BY <1>2 DEF Restart, TypeOK, Open, UniqueIdsDiffer, RunsItsToken
<1>3. CASE Revoke
  BY <1>3 DEF Revoke, TypeOK, Open, UniqueIdsDiffer, RunsItsToken
<1> QED
  BY <1>1, <1>2, <1>3

LEMMA NextIInv == IInv /\ [Next]_vars => IInv'
<1> SUFFICES ASSUME IInv, [Next]_vars PROVE IInv'
  OBVIOUS
<1>1. ASSUME NEW f \in Flows, Flowing(f) PROVE IInv'
  BY <1>1, FormIInv, CloseIInv, CreateIInv, ReauthIInv DEF Flowing
<1>2. ASSUME NEW e \in Ids, Living(e) PROVE IInv'
  BY <1>2, LivingIInv, OutsideIInv DEF Living
<1>3. CASE Restart \/ Revoke
  BY <1>3, OutsideIInv
<1>4. CASE UNCHANGED vars
  BY <1>4 DEF vars, entry, IInv, TypeOK, Open, UniqueIdsDiffer, RunsItsToken
<1> QED
  BY <1>1, <1>2, <1>3, <1>4 DEF Next

LEMMA IInvAlways == Spec => []IInv
BY InitIInv, NextIInv, PTL DEF Spec

(***************************************************************************)
(* The theorems.                                                           *)
(***************************************************************************)
\* The types: an entry that exists always has a token and a unique id, and a
\* reauthentication flow (config_flow.py:99-125) always has its entry.
THEOREM EntriesTypeCorrect == Spec => []TypeOK
<1>1. IInv => TypeOK
  BY DEF IInv
<1> QED
  BY <1>1, IInvAlways, PTL

\* However many flows run at once, no two entries get the same unique id
\* (config_flow.py:75-76, 114).
THEOREM EntriesAreUnique == Spec => []UniqueIdsDiffer
<1>1. IInv => UniqueIdsDiffer
  BY DEF IInv
<1> QED
  BY <1>1, IInvAlways, PTL

\* A token given in reauthentication is the one the entry's client uses, or a
\* reload is on its way (config_flow.py:115-124, __init__.py:40-48).
THEOREM NewTokenIsUsed == Spec => []RunsItsToken
<1>1. IInv => RunsItsToken
  BY DEF IInv
<1> QED
  BY <1>1, IInvAlways, PTL

(***************************************************************************)
(* Reauthentication flows.                                                 *)
(***************************************************************************)
\* An entry has one reauthentication flow at most, and while the flow awaits
\* the reload the entry holds the token the flow was given.
OnePrompt ==
    \A f, g \in Flows :
        /\ Open(f) /\ flow[f].kind = "reauth"
        /\ Open(g) /\ flow[g].kind = "reauth"
        /\ flow[f].target = flow[g].target
        => f = g

TokenGiven ==
    \A f \in Flows :
        Open(f) /\ flow[f].step = "reloading"
            => /\ flow[f].kind = "reauth"
               /\ token[flow[f].target] = flow[f].given

FlowInv == OnePrompt /\ TokenGiven

\* A flow that ends, is opened by the user, or goes on short of a reload.
LEMMA FlowGoesOn ==
    ASSUME TypeOK, FlowInv, NEW f \in Flows, NEW g,
           flow' = [flow EXCEPT ![f] = g], token' = token,
           \/ g = Closed
           \/ /\ g.step # "reloading"
              /\ \/ g.kind # "reauth"
                 \/ /\ Open(f) /\ flow[f].kind = "reauth"
                    /\ flow[f].target = g.target
    PROVE  FlowInv'
<1>1. \A h \in Flows : flow'[h] = IF h = f THEN g ELSE flow[h]
  BY DEF TypeOK
<1>2. OnePrompt'
  BY <1>1 DEF FlowInv, OnePrompt, Open
<1>3. TokenGiven'
  BY <1>1 DEF FlowInv, TokenGiven, Open
<1> QED
  BY <1>2, <1>3 DEF FlowInv

LEMMA FormFlow ==
    ASSUME TypeOK, FlowInv, NEW f \in Flows,
           AddIntegration(f) \/ Submit(f) \/ Validated(f) \/ NotValidated(f) \/ Dismiss(f)
    PROVE  FlowInv'
<1> USE DEF entry
<1>1. CASE AddIntegration(f)
  BY <1>1, FlowGoesOn DEF AddIntegration
<1>2. CASE Submit(f)
  <2>1. PICK t \in Tokens :
            flow' = [flow EXCEPT ![f] = [@ EXCEPT !.step = "validating", !.given = t]]
    BY <1>2 DEF Submit
  <2> DEFINE g == [flow[f] EXCEPT !.step = "validating", !.given = t]
  <2>2. flow[f] \in FlowType /\ Open(f) /\ token' = token
    BY <1>2 DEF Submit, Open, TypeOK
  <2>3. g.step # "reloading" /\ g.kind = flow[f].kind /\ g.target = flow[f].target
    BY <2>2 DEF FlowType
  <2>4. flow' = [flow EXCEPT ![f] = g]
    BY <2>1
  <2> HIDE DEF g
  <2> QED
    BY <2>2, <2>3, <2>4, FlowGoesOn
<1>3. CASE Validated(f) \/ NotValidated(f)
  <2>1. /\ flow[f] \in FlowType /\ Open(f) /\ token' = token
        /\ \E s \in {"valid", "form"} : flow' = [flow EXCEPT ![f].step = s]
    BY <1>3 DEF Validated, NotValidated, Open, TypeOK
  <2>2. PICK s \in {"valid", "form"} : flow' = [flow EXCEPT ![f].step = s]
    BY <2>1
  <2> DEFINE g == [flow[f] EXCEPT !.step = s]
  <2>3. g.step # "reloading" /\ g.kind = flow[f].kind /\ g.target = flow[f].target
    BY <2>1, <2>2 DEF FlowType
  <2>4. flow' = [flow EXCEPT ![f] = g]
    BY <2>2
  <2> HIDE DEF g
  <2> QED
    BY <2>1, <2>3, <2>4, FlowGoesOn
<1>4. CASE Dismiss(f)
  BY <1>4, FlowGoesOn DEF Dismiss, Close
<1> QED
  BY <1>1, <1>2, <1>3, <1>4

\* The end of a flow, and of the user step that creates an entry: no flow
\* awaits the reload of an entry that did not exist.
LEMMA EndFlow ==
    ASSUME TypeOK, FlowInv, NEW f \in Flows,
           AddAborts(f) \/ AddCreates(f) \/ ReauthAborts(f) \/ ReauthEnds(f)
    PROVE  FlowInv'
<1>1. CASE AddAborts(f) \/ ReauthAborts(f) \/ ReauthEnds(f)
  BY <1>1, FlowGoesOn DEF AddAborts, ReauthAborts, ReauthEnds, Close, entry
<1>2. CASE AddCreates(f)
  <2>1. PICK e \in Ids : /\ state[e] = "absent"
                         /\ token' = [token EXCEPT ![e] = flow[f].given]
    BY <1>2 DEF AddCreates
  <2>2. \A h \in Flows : flow'[h] = IF h = f THEN Closed ELSE flow[h]
    BY <1>2 DEF AddCreates, Close, TypeOK
  <2>3. OnePrompt'
    BY <2>2 DEF FlowInv, OnePrompt, Open
  <2>4. TokenGiven'
    <3>1. ASSUME NEW h \in Flows, Open(h)', flow'[h].step = "reloading"
          PROVE  flow'[h].kind = "reauth" /\ token'[flow'[h].target] = flow'[h].given
      <4>1. Open(h) /\ flow'[h] = flow[h]
        BY <3>1, <2>2 DEF Open
      <4>2. /\ flow[h].kind = "reauth" /\ token[flow[h].target] = flow[h].given
            /\ flow[h].target \in Ids /\ state[flow[h].target] # "absent"
        BY <3>1, <4>1 DEF FlowInv, TokenGiven, TypeOK
      <4> QED
        BY <2>1, <4>1, <4>2 DEF TypeOK
    <3> QED
      BY <3>1 DEF TokenGiven
  <2> QED
    BY <2>3, <2>4 DEF FlowInv
<1> QED
  BY <1>1, <1>2

\* The entry's token is replaced: its one flow is the one that does it.
LEMMA ReauthFlow ==
    ASSUME TypeOK, FlowInv, NEW f \in Flows, ReauthConfirmed(f)
    PROVE  FlowInv'
<1> DEFINE e == flow[f].target
           g == [flow[f] EXCEPT !.step = "reloading", !.context = UniqueId[flow[f].given]]
<1>1. /\ Open(f) /\ flow[f].kind = "reauth" /\ flow[f] \in FlowType
      /\ e \in Ids
  BY DEF ReauthConfirmed, Reauths, Renewed, Open, TypeOK
<1>2. g.kind = "reauth" /\ g.target = e /\ g.given = flow[f].given
  BY <1>1 DEF FlowType
<1>3. flow' = [flow EXCEPT ![f] = g]
  BY DEF ReauthConfirmed, Reauths
<1>4. token' = [token EXCEPT ![e] = flow[f].given]
  BY DEF ReauthConfirmed, Reauths
<1>5. \A h \in Flows : flow'[h] = IF h = f THEN g ELSE flow[h]
  BY <1>3 DEF TypeOK
<1> HIDE DEF g
<1>6. OnePrompt'
  BY <1>1, <1>2, <1>5 DEF FlowInv, OnePrompt, Open
<1>7. TokenGiven'
  <2>1. ASSUME NEW h \in Flows, Open(h)', flow'[h].step = "reloading"
        PROVE  flow'[h].kind = "reauth" /\ token'[flow'[h].target] = flow'[h].given
    <3>1. CASE h = f
      BY <3>1, <1>1, <1>2, <1>4, <1>5 DEF TypeOK
    <3>2. CASE h # f
      <4>1. Open(h) /\ flow'[h] = flow[h]
        BY <2>1, <3>2, <1>5 DEF Open
      <4>2. flow[h].kind = "reauth" /\ token[flow[h].target] = flow[h].given
        BY <2>1, <4>1 DEF FlowInv, TokenGiven
      <4>3. flow[h].target # e
        BY <3>2, <4>1, <4>2, <1>1 DEF FlowInv, OnePrompt
      <4> QED
        BY <4>1, <4>2, <4>3, <1>4, <1>1 DEF TypeOK
    <3> QED
      BY <3>1, <3>2
  <2> QED
    BY <2>1 DEF TokenGiven
<1> QED
  BY <1>6, <1>7 DEF FlowInv

\* A refused entry asks for a token unless it is asking already.
LEMMA AskFlow ==
    ASSUME TypeOK, FlowInv, NEW e \in Ids, AskAgain(e), token' = token
    PROVE  FlowInv'
<1>1. CASE Reauthing(e)
  BY <1>1 DEF AskAgain, FlowInv, OnePrompt, TokenGiven, Open
<1>2. CASE ~Reauthing(e)
  <2> DEFINE g == [kind |-> "reauth", step |-> "form", target |-> e,
                   given |-> None, context |-> uid[e]]
  <2>1. PICK f \in Flows : ~Open(f) /\ flow' = [flow EXCEPT ![f] = g]
    BY <1>2 DEF AskAgain
  <2>2. g.target = e /\ g.step = "form"
    OBVIOUS
  <2>3. \A h \in Flows : flow'[h] = IF h = f THEN g ELSE flow[h]
    BY <2>1 DEF TypeOK
  <2> HIDE DEF g
  <2>4. OnePrompt'
    BY <1>2, <2>2, <2>3 DEF FlowInv, OnePrompt, Open, Reauthing
  <2>5. TokenGiven'
    BY <2>2, <2>3 DEF FlowInv, TokenGiven, Open
  <2> QED
    BY <2>4, <2>5 DEF FlowInv
<1> QED
  BY <1>1, <1>2

LEMMA InitFlow == Init => FlowInv
BY DEF Init, FlowInv, OnePrompt, TokenGiven, Open

LEMMA NextFlow == TypeOK /\ FlowInv /\ [Next]_vars => FlowInv'
<1> SUFFICES ASSUME TypeOK, FlowInv, [Next]_vars PROVE FlowInv'
  OBVIOUS
<1>1. ASSUME NEW f \in Flows, Flowing(f) PROVE FlowInv'
  BY <1>1, FormFlow, EndFlow, ReauthFlow DEF Flowing
<1>2. ASSUME NEW e \in Ids, Living(e) PROVE FlowInv'
  <2>1. CASE Reload(e) \/ SetupSucceeds(e) \/ SetupNotReady(e) \/ SetupRetried(e)
    BY <2>1 DEF Reload, SetupSucceeds, SetupNotReady, SetupRetried, FlowInv,
                OnePrompt, TokenGiven, Open
  <2>2. CASE SetupRefused(e) \/ PollRefused(e)
    BY <2>2, AskFlow DEF SetupRefused, PollRefused, entry
  <2>3. CASE Remove(e)
    <3>1. \A h \in Flows : flow'[h] = IF Open(h) /\ flow[h].target = e
                                      THEN Closed ELSE flow[h]
      BY <2>3 DEF Remove
    <3>2. OnePrompt'
      BY <3>1 DEF FlowInv, OnePrompt, Open
    <3>3. TokenGiven'
      BY <2>3, <3>1 DEF Remove, FlowInv, TokenGiven, Open, TypeOK
    <3> QED
      BY <3>2, <3>3 DEF FlowInv
  <2> QED
    BY <1>2, <2>1, <2>2, <2>3 DEF Living
<1>3. CASE Restart
  BY <1>3 DEF Restart, FlowInv, OnePrompt, TokenGiven, Open
<1>4. CASE Revoke \/ UNCHANGED vars
  BY <1>4 DEF Revoke, vars, entry, FlowInv, OnePrompt, TokenGiven, Open
<1> QED
  BY <1>1, <1>2, <1>3, <1>4 DEF Next

LEMMA FlowAlways == Spec => []FlowInv
<1>1. IInv => TypeOK
  BY DEF IInv
<1> QED
  BY <1>1, IInvAlways, InitFlow, NextFlow, PTL DEF Spec

\* While a reauthentication flow is finishing (config_flow.py:115-125), and its
\* reload has begun, the client in use is the one of the token it was given,
\* whichever flows, retries, removals and restarts come in between.
THEOREM ReauthenticationTakesEffect == Spec => []ReauthTakesEffect
<1>1. IInv /\ FlowInv => ReauthTakesEffect
  <2> SUFFICES ASSUME IInv, FlowInv, NEW f \in Flows,
                      Open(f), flow[f].step = "reloading", ~due[flow[f].target]
               PROVE  running[flow[f].target] = flow[f].given
    BY DEF ReauthTakesEffect
  <2>1. flow[f].kind = "reauth" /\ token[flow[f].target] = flow[f].given
    BY DEF FlowInv, TokenGiven
  <2>2. flow[f].target \in Ids /\ state[flow[f].target] # "absent"
    BY <2>1 DEF IInv, TypeOK
  <2> QED
    BY <2>1, <2>2 DEF IInv, RunsItsToken
<1> QED
  BY <1>1, IInvAlways, FlowAlways, PTL

(***************************************************************************)
(* When a token is added once.                                             *)
(***************************************************************************)
\* The token a reauthentication takes has the unique id of its entry.
KeepsUniqueId == \A f \in Flows : ReauthConfirmed(f) => UniqueId[flow[f].given] = uid[flow[f].target]

\* The unique id of an entry is that of its token.
UniqueIdOfToken == \A e \in Ids : state[e] # "absent" => uid[e] = UniqueId[token[e]]

LEMMA NextUniqueId ==
    TypeOK /\ UniqueIdOfToken /\ [Next]_vars /\ [KeepsUniqueId]_vars => UniqueIdOfToken'
<1> SUFFICES ASSUME TypeOK, UniqueIdOfToken, [Next]_vars, [KeepsUniqueId]_vars
             PROVE  UniqueIdOfToken'
  OBVIOUS
<1>1. CASE UNCHANGED <<token, uid, state>>
  BY <1>1 DEF UniqueIdOfToken
<1>2. ASSUME NEW f \in Flows, Flowing(f) PROVE UniqueIdOfToken'
  <2>1. CASE AddCreates(f)
    BY <2>1 DEF AddCreates, Begins, UniqueIdOfToken, TypeOK
  <2>2. CASE ReauthConfirmed(f)
    <3>1. /\ flow[f].target \in Ids
          /\ token' = [token EXCEPT ![flow[f].target] = flow[f].given]
          /\ UNCHANGED <<uid, state>>
      BY <2>2 DEF ReauthConfirmed, Reauths, Renewed, TypeOK
    <3>2. CASE UniqueId[flow[f].given] = uid[flow[f].target]
      BY <3>1, <3>2 DEF UniqueIdOfToken, TypeOK
    <3>3. CASE UNCHANGED vars
      BY <3>3 DEF vars, entry, UniqueIdOfToken
    <3> QED
      BY <2>2, <3>2, <3>3 DEF KeepsUniqueId
  <2>3. CASE ~AddCreates(f) /\ ~ReauthConfirmed(f)
    BY <1>1, <1>2, <2>3 DEF Flowing, AddIntegration, Submit, Validated, NotValidated,
       Dismiss, AddAborts, ReauthAborts, ReauthEnds, entry
  <2> QED
    BY <2>1, <2>2, <2>3
<1>3. ASSUME NEW e \in Ids, Living(e) PROVE UniqueIdOfToken'
  BY <1>3 DEF Living, Reload, SetupSucceeds, SetupRefused, SetupNotReady, SetupRetried,
     PollRefused, Remove, Begins, entry, UniqueIdOfToken, TypeOK
<1>4. CASE Restart
  BY <1>4 DEF Restart, UniqueIdOfToken
<1>5. CASE Revoke \/ UNCHANGED vars
  BY <1>1, <1>5 DEF Revoke, vars, entry
<1> QED
  BY <1>2, <1>3, <1>4, <1>5 DEF Next

\* "This prevents adding the same token twice" (config_flow.py:156) is true up to
\* reauthentication: as long as every new token has the unique id of its entry,
\* however flows and reloads interleave, no token is added a second time.
THEOREM OnlyReauthDuplicates == Spec /\ [][KeepsUniqueId]_vars => AddedOnce
<1> DEFINE Step == \A d, e \in Ids :
                      state[e] = "absent" /\ state'[e] = "starting" => token[d] # token'[e]
<1>1. Init => UniqueIdOfToken
  BY DEF Init, UniqueIdOfToken
<1>2. IInv => TypeOK
  BY DEF IInv
<1>3. TypeOK /\ UniqueIdOfToken /\ [Next]_vars => [Step]_vars
  <2> SUFFICES ASSUME TypeOK, UniqueIdOfToken, Next, NEW d \in Ids, NEW e \in Ids,
                      state[e] = "absent", state'[e] = "starting"
               PROVE  token[d] # token'[e]
    OBVIOUS
  <2>1. PICK f \in Flows : AddCreates(f)
    <3>1. CASE \E f \in Flows : Flowing(f) /\ ~AddCreates(f)
      BY <3>1 DEF Flowing, AddIntegration, Submit, Validated, NotValidated, Dismiss,
         AddAborts, ReauthAborts, ReauthConfirmed, Reauths, ReauthEnds, entry
    <3>2. ASSUME NEW c \in Ids, Living(c) PROVE FALSE
      BY <3>2 DEF Living, Reload, SetupSucceeds, SetupRefused, SetupNotReady,
         SetupRetried, PollRefused, Remove, Begins, entry, TypeOK
    <3>3. ~Restart /\ ~Revoke
      BY DEF Restart, Revoke, entry
    <3> QED
      BY <3>1, <3>2, <3>3 DEF Next
  <2>2. PICK c \in Ids : /\ state[c] = "absent"
                         /\ token' = [token EXCEPT ![c] = flow[f].given]
                         /\ Begins(c, flow[f].given)
    BY <2>1 DEF AddCreates
  <2>3. c = e /\ token'[e] = flow[f].given
    BY <2>2 DEF Begins, TypeOK
  <2>4. flow[f].given \in Tokens /\ ~Configured(UniqueId[flow[f].given])
    BY <2>1 DEF AddCreates, Accepted, TypeOK
  <2>5. CASE state[d] = "absent"
    BY <2>3, <2>4, <2>5, NoneAssumption DEF TypeOK
  <2>6. CASE state[d] # "absent"
    BY <2>3, <2>4, <2>6 DEF UniqueIdOfToken, Configured
  <2> QED
    BY <2>5, <2>6
<1> QED
  BY <1>1, <1>2, <1>3, IInvAlways, NextUniqueId, PTL DEF Spec, AddedOnce
=============================================================================
