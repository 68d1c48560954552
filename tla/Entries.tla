------------------------------- MODULE Entries -------------------------------
(***************************************************************************)
(* The config entries of the integration: the config flow that adds one,   *)
(* the reauthentication flow that replaces its API token (config_flow.py), *)
(* and the setup, unload and reload of an entry (__init__.py), under Home  *)
(* Assistant's rules for flows and entries.                                *)
(*                                                                         *)
(* Flows run concurrently.  Each validates its token with GET /state, and  *)
(* what it does with the answer takes no further await.  A setup waits for *)
(* the first refresh with the token it read when it began.                 *)
(***************************************************************************)
CONSTANTS
    Tokens,         \* API tokens
    UniqueIds,      \* unique ids of entries
    UniqueId,       \* f"user-{api_token[:8]}", of each token
    Ids,            \* entry ids (a bound on the entries there can be)
    Flows           \* flows that can be open at once (a bound)

ASSUME UniqueIdAssumption == UniqueId \in [Tokens -> UniqueIds]

None == "none"
ASSUME NoneAssumption == None \notin Tokens \cup UniqueIds \cup Ids

VARIABLES
    token,      \* the token in each entry's data, None without an entry
    uid,        \* its unique id
    state,      \* the state of the entry
    running,    \* the token of the client its last setup made
    due,        \* a reload of the entry is scheduled or awaited
    flow,       \* the flows
    revoked     \* the tokens the server refuses

entry == <<token, uid, state, running, due>>
vars == <<entry, flow, revoked>>

\* A flow: what started it, where it stands, its entry (a reauth flow's), the
\* token it was given and the unique id in its context.
FlowType == [kind : {"user", "reauth"},
             step : {"form", "validating", "valid", "reloading"},
             target : Ids \cup {None},
             given : Tokens \cup {None},
             context : UniqueIds \cup {None}]

Closed == [kind |-> None]

Init == /\ token = [e \in Ids |-> None]
        /\ uid = [e \in Ids |-> None]
        /\ state = [e \in Ids |-> "absent"]
        /\ running = [e \in Ids |-> None]
        /\ due = [e \in Ids |-> FALSE]
        /\ flow = [f \in Flows |-> Closed]
        /\ revoked = {}

Open(f) == flow[f] # Closed
Close(f) == flow' = [flow EXCEPT ![f] = Closed]

\* Another flow in progress has the unique id in its context.
InProgress(f, u) == \E g \in Flows \ {f} : Open(g) /\ flow[g].context = u
Configured(u) == \E e \in Ids : uid[e] = u

(***************************************************************************)
(* The forms.                                                              *)
(***************************************************************************)
\* The user adds the integration: async_step_user shows its form.
AddIntegration(f) ==
    /\ ~Open(f)
    /\ flow' = [flow EXCEPT ![f] = [kind |-> "user", step |-> "form",
                                    target |-> None, given |-> None,
                                    context |-> None]]
    /\ UNCHANGED <<entry, revoked>>

\* A form is submitted with a token: GET /state is sent.
Submit(f) == /\ Open(f)
             /\ flow[f].step = "form"
             /\ \E t \in Tokens :
                    flow' = [flow EXCEPT ![f] = [@ EXCEPT !.step = "validating",
                                                           !.given = t]]
             /\ UNCHANGED <<entry, revoked>>

\* _validate_credentials: the server knows the token, and its answer is on the
\* way ...
Validated(f) == /\ Open(f)
                /\ flow[f].step = "validating"
                /\ flow[f].given \notin revoked
                /\ flow' = [flow EXCEPT ![f].step = "valid"]
                /\ UNCHANGED <<entry, revoked>>

\* ... or refuses it, or cannot be asked: the form again, with an error.
NotValidated(f) == /\ Open(f)
                   /\ flow[f].step = "validating"
                   /\ flow' = [flow EXCEPT ![f].step = "form"]
                   /\ UNCHANGED <<entry, revoked>>

\* The user closes a form.
Dismiss(f) == /\ Open(f)
              /\ flow[f].step = "form"
              /\ Close(f)
              /\ UNCHANGED <<entry, revoked>>

(***************************************************************************)
(* async_step_user, with a valid token.                                    *)
(***************************************************************************)
\* A setup begins, with the token the entry holds.
Begins(e, t) ==
    /\ state' = [state EXCEPT ![e] = "starting"]
    /\ running' = [running EXCEPT ![e] = t]
    /\ due' = [due EXCEPT ![e] = FALSE]

Accepted(f) == Open(f) /\ flow[f].kind = "user" /\ flow[f].step = "valid"

\* The unique id is taken, by a flow or an entry: the flow aborts.
AddAborts(f) ==
    /\ Accepted(f)
    /\ LET u == UniqueId[flow[f].given] IN InProgress(f, u) \/ Configured(u)
    /\ Close(f)
    /\ UNCHANGED <<entry, revoked>>

\* Mutant: _abort_if_unique_id_configured is not called.
AddCreatesAnyway(f) ==
    LET t == flow[f].given IN
    /\ Accepted(f)
    /\ ~InProgress(f, UniqueId[t])
    /\ \E e \in Ids :
        /\ state[e] = "absent"
        /\ token' = [token EXCEPT ![e] = t]
        /\ uid' = [uid EXCEPT ![e] = UniqueId[t]]
        /\ Begins(e, t)
    /\ Close(f)
    /\ UNCHANGED revoked

\* An entry is created and set up.
AddCreates(f) ==
    LET t == flow[f].given IN
    /\ Accepted(f)
    /\ ~InProgress(f, UniqueId[t]) /\ ~Configured(UniqueId[t])
    /\ \E e \in Ids :
        /\ state[e] = "absent"
        /\ token' = [token EXCEPT ![e] = t]
        /\ uid' = [uid EXCEPT ![e] = UniqueId[t]]
        /\ Begins(e, t)
    /\ Close(f)
    /\ UNCHANGED revoked

(***************************************************************************)
(* async_step_reauth_confirm, with a valid token.                          *)
(***************************************************************************)
Renewed(f) == Open(f) /\ flow[f].kind = "reauth" /\ flow[f].step = "valid"

\* The unique id of the new token is in another flow's context.
ReauthAborts(f) == /\ Renewed(f)
                   /\ InProgress(f, UniqueId[flow[f].given])
                   /\ Close(f)
                   /\ UNCHANGED <<entry, revoked>>

\* The entry's data is replaced and a reload of the entry awaited.
Reauths(f, t, reload) ==
    LET e == flow[f].target IN
    /\ Renewed(f)
    /\ ~InProgress(f, UniqueId[flow[f].given])
    /\ token' = [token EXCEPT ![e] = t]
    /\ due' = [due EXCEPT ![e] = @ \/ reload]
    /\ flow' = [flow EXCEPT ![f] = [@ EXCEPT !.step = "reloading",
                                            !.context = UniqueId[flow[f].given]]]
    /\ UNCHANGED <<uid, state, running, revoked>>

\* Mutant: the reload is left to the update listener.
ReauthQuiet(f) == Reauths(f, flow[f].given, state[flow[f].target] = "loaded")

\* Mutant: the new data lacks the token.
ReauthTokenless(f) == Reauths(f, None, TRUE)

\* The new token goes into the entry; the entry's unique id stays as it is.
\* The update listener of a loaded entry reloads as well, to the same effect.
ReauthConfirmed(f) == Reauths(f, flow[f].given, TRUE)

\* The reload is over, whatever came of it: "reauth_successful".
ReauthEnds(f) == /\ Open(f)
                 /\ flow[f].step = "reloading"
                 /\ ~due[flow[f].target]
                 /\ state[flow[f].target] # "starting"
                 /\ Close(f)
                 /\ UNCHANGED <<entry, revoked>>

(***************************************************************************)
(* async_setup_entry and the life of an entry.                             *)
(***************************************************************************)
Reauthing(e) == \E f \in Flows : /\ Open(f)
                                 /\ flow[f].kind = "reauth"
                                 /\ flow[f].target = e

\* Mutant: a refused setup starts a flow beside the one that is open.
AskAgainTwice(e) ==
    \E f \in Flows :
        /\ ~Open(f)
        /\ flow' = [flow EXCEPT ![f] = [kind |-> "reauth", step |-> "form",
                                        target |-> e, given |-> None,
                                        context |-> uid[e]]]

\* ConfigEntryAuthFailed starts a reauthentication flow, unless one is open.
AskAgain(e) ==
    IF Reauthing(e) THEN UNCHANGED flow
    ELSE \E f \in Flows :
            /\ ~Open(f)
            /\ flow' = [flow EXCEPT ![f] = [kind |-> "reauth", step |-> "form",
                                            target |-> e, given |-> None,
                                            context |-> uid[e]]]

\* The entry is unloaded and set up again.
Reload(e) == /\ due[e]
             /\ state[e] \in {"loaded", "retry", "failed"}
             /\ Begins(e, token[e])
             /\ UNCHANGED <<token, uid, flow, revoked>>

\* The first refresh has succeeded.
SetupSucceeds(e) == /\ state[e] = "starting"
                    /\ running[e] \notin revoked
                    /\ state' = [state EXCEPT ![e] = "loaded"]
                    /\ UNCHANGED <<token, uid, running, due, flow, revoked>>

\* It was refused.
SetupRefused(e) == /\ state[e] = "starting"
                   /\ running[e] \in revoked
                   /\ state' = [state EXCEPT ![e] = "failed"]
                   /\ AskAgain(e)
                   /\ UNCHANGED <<token, uid, running, due, revoked>>

\* It failed otherwise, and Home Assistant tries again later.
SetupNotReady(e) == /\ state[e] = "starting"
                    /\ state' = [state EXCEPT ![e] = "retry"]
                    /\ UNCHANGED <<token, uid, running, due, flow, revoked>>

SetupRetried(e) == /\ state[e] = "retry"
                   /\ Begins(e, token[e])
                   /\ UNCHANGED <<token, uid, flow, revoked>>

\* A later refresh is refused.
PollRefused(e) == /\ state[e] = "loaded"
                  /\ running[e] \in revoked
                  /\ ~Reauthing(e)
                  /\ AskAgain(e)
                  /\ UNCHANGED <<entry, revoked>>

\* The user deletes the entry; its flows are aborted.
Remove(e) == /\ state[e] \in {"loaded", "retry", "failed"}
             /\ token' = [token EXCEPT ![e] = None]
             /\ uid' = [uid EXCEPT ![e] = None]
             /\ state' = [state EXCEPT ![e] = "absent"]
             /\ running' = [running EXCEPT ![e] = None]
             /\ due' = [due EXCEPT ![e] = FALSE]
             /\ flow' = [f \in Flows |->
                            IF Open(f) /\ flow[f].target = e THEN Closed
                                                             ELSE flow[f]]
             /\ UNCHANGED revoked

\* Home Assistant restarts: the entries remain, the flows do not.
Restart == /\ state' = [e \in Ids |-> IF state[e] = "absent" THEN "absent"
                                                             ELSE "starting"]
           /\ running' = token
           /\ due' = [e \in Ids |-> FALSE]
           /\ flow' = [f \in Flows |-> Closed]
           /\ UNCHANGED <<token, uid, revoked>>

\* A token is rotated or revoked at the platform.
Revoke == /\ \E t \in Tokens \ revoked : revoked' = revoked \cup {t}
          /\ UNCHANGED <<entry, flow>>

Flowing(f) == \/ AddIntegration(f)
              \/ Submit(f)
              \/ Validated(f)
              \/ NotValidated(f)
              \/ Dismiss(f)
              \/ AddAborts(f)
              \/ AddCreates(f)
              \/ ReauthAborts(f)
              \/ ReauthConfirmed(f)
              \/ ReauthEnds(f)

Living(e) == \/ Reload(e)
             \/ SetupSucceeds(e)
             \/ SetupRefused(e)
             \/ SetupNotReady(e)
             \/ SetupRetried(e)
             \/ PollRefused(e)
             \/ Remove(e)

Next == \/ \E f \in Flows : Flowing(f)
        \/ \E e \in Ids : Living(e)
        \/ Restart
        \/ Revoke

Spec == Init /\ [][Next]_vars

\* Home Assistant carries out reloads and retries, a setup's GET ends, and the
\* server is not out of reach for ever.  Nothing is assumed about the user.
Fairness == \A e \in Ids : /\ WF_vars(Reload(e))
                           /\ WF_vars(SetupRetried(e))
                           /\ SF_vars(SetupSucceeds(e))

FairSpec == Spec /\ Fairness

(***************************************************************************)
(* Properties.                                                             *)
(***************************************************************************)
\* Types; an entry that exists has a token and a unique id, and the entry of an
\* open reauthentication flow exists.
TypeOK ==
    /\ token \in [Ids -> Tokens \cup {None}]
    /\ uid \in [Ids -> UniqueIds \cup {None}]
    /\ state \in [Ids -> {"absent", "starting", "loaded", "retry", "failed"}]
    /\ running \in [Ids -> Tokens \cup {None}]
    /\ due \in [Ids -> BOOLEAN]
    /\ flow \in [Flows -> FlowType \cup {Closed}]
    /\ revoked \subseteq Tokens
    /\ \A e \in Ids : IF state[e] = "absent"
                      THEN token[e] = None /\ uid[e] = None
                      ELSE token[e] \in Tokens /\ uid[e] \in UniqueIds
    /\ \A f \in Flows : Open(f) =>
        /\ flow[f].kind = "reauth" => /\ flow[f].target \in Ids
                                      /\ state[flow[f].target] # "absent"
        /\ flow[f].step \in {"validating", "valid"} => flow[f].given \in Tokens

\* No two entries have the same unique id, although concurrent flows look for
\* it only after an await and reauthentication changes tokens under them.
UniqueIdsDiffer ==
    \A d, e \in Ids : uid[d] = uid[e] /\ uid[d] # None => d = e

\* A new token is taken into use: an entry runs the client of the token it
\* holds, or is going to be reloaded; also if it had failed to set up, when
\* there is no update listener.
RunsItsToken ==
    \A e \in Ids : state[e] # "absent" => running[e] = token[e] \/ due[e]

\* Reauthentication does what it says: once the reload it awaits has begun, and
\* until "reauth_successful" is shown, the entry's client is the one of the token
\* that was given (config_flow.py:115-125); no other flow for the entry, and no
\* retry or refused setup while the flow is open, puts another in its place.
ReauthTakesEffect ==
    \A f \in Flows :
        /\ Open(f)
        /\ flow[f].step = "reloading"
        /\ ~due[flow[f].target]
        => running[flow[f].target] = flow[f].given

\* An entry whose token stays good is up with it, again and again, whatever
\* reloads, retries, restarts and flows come in between.
Recovers ==
    \A e \in Ids, t \in Tokens :
        <>[](token[e] = t /\ t \notin revoked)
            => []<>(state[e] = "loaded" /\ running[e] = t)

\* "This prevents adding the same token twice" (config_flow.py:156): the token
\* of an entry that is created is not one an entry has already.
AddedOnce ==
    [][\A d, e \in Ids :
        state[e] = "absent" /\ state'[e] = "starting" => token[d] # token'[e]]_vars
=============================================================================
