---------------------------- MODULE AiAdmission ----------------------------
(***************************************************************************)
(* What a run may use: the versions of one assistant and the audit trail   *)
(* of their changes, the model catalogue behind its Redis copy, and the    *)
(* gates a run passes on its way to a provider and to a tool.  The API     *)
(* pins the model when the run is submitted; a worker checks everything    *)
(* else again at each attempt, minutes later and perhaps under another     *)
(* release.  Leases, cancellation and ownership are in AiRun.              *)
(***************************************************************************)
EXTENDS Naturals, Sequences, FiniteSets

CONSTANTS
  Models, MockModel, DefaultModel,
  Credentialed,  \* models whose provider has its key in the environment
  Tools,
  Releases,      \* tool registries of the releases being rolled out: functions from Tools to Class
  Drafts,        \* what an administrator may publish
  Editors,       \* admin requests at work
  AdRuns,
  InputModes,    \* values AI_GUARDRAIL_INPUT_MODE may have
  AdAttempts,    \* ai_runs.maxAttempts
  AdSteps,       \* AI_TOOL_LOOP_MAX_STEPS
  MaxTrail,      \* bound: audit entries
  MaxCatalogEdits       \* bound: changes of the catalogue

Class == {"absent", "SAFE", "SENSITIVE", "DESTRUCTIVE"}
Draft == [pins : Seq(Models), tools : SUBSET Tools, image : BOOLEAN]

ASSUME AdmissionAssumption ==
  /\ MockModel \in Models /\ DefaultModel \in Models /\ Credentialed \subseteq Models
  /\ Releases # {} /\ Releases \subseteq [Tools -> Class]
  /\ Drafts # {} /\ Drafts \subseteq Draft /\ \A d \in Drafts : d.pins # <<>>
  /\ InputModes # {} /\ InputModes \subseteq {"off", "flag", "block"}
  /\ {AdAttempts, AdSteps, MaxTrail, MaxCatalogEdits} \subseteq Nat

VARIABLES
  model,     \* ai_models rows, each with its provider's
  edits,     \* bound: how often they were changed
  catalog,   \* the ai:catalog:v1 key
  assistant, \* the versions of the assistant, in order
  trail,     \* the ai.assistant.* audit entries, in order of their commits
  editor,    \* what each admin request holds
  adRun,     \* ai_runs rows, with what the attempt at work holds
  inputMode  \* AI_GUARDRAIL_INPUT_MODE

admissionVars == <<model, edits, catalog, assistant, trail, editor, adRun, inputMode>>

Row == [slug : Models, vision : BOOLEAN]
NoCopy == [held |-> FALSE, rows |-> {}]
NoModelRow == [slug |-> MockModel, vision |-> FALSE]
Rows == {[slug |-> m, vision |-> model[m].vision] : m \in {n \in Models : model[n].enabled}}

Switch == {"keep", "on", "off"}
Action == {"none", "created", "version_published", "updated", "enabled", "disabled"}
EditorRecord == [pc : {"idle", "version", "update"}, version : Nat, draft : Drafts, set : Switch,
                 before : BOOLEAN, action : Action]
TrailEntry == [version : Nat, action : Action, enabled : BOOLEAN]

\* "ENDED" stands for FAILED with a safe refusal as its turn.
AtWork == {"preflight", "guards", "artifacts", "resume", "loop", "asked"}
AdStatus == {"NONE", "resolving", "rejected", "QUEUED", "WAITING_APPROVAL", "COMPLETED", "FAILED",
             "ENDED"} \cup AtWork
NoPending == [tool |-> "none", class |-> "absent", decision |-> "none"]
Step == [tool : Tools, class : Class, approved : Class, done : BOOLEAN]
AdRun == [pc : AdStatus, version : Nat, image : BOOLEAN, todo : Seq(Models), missed : BOOLEAN,
          rows : SUBSET Row, snapshot : Row, used : Row, box : Releases, attempts : Nat,
          calls : Nat, off : BOOLEAN,
          pending : [tool : Tools \cup {"none"}, class : Class,
                     decision : {"none", "asked", "APPROVED", "REJECTED"}],
          steps : Seq(Step), told : Seq(Step)] \* ai_run_steps, and the rounds held in memory

AdmissionTypeOK ==
  /\ model \in [Models -> [enabled : BOOLEAN, vision : BOOLEAN]] /\ edits \in 0 .. MaxCatalogEdits
  /\ catalog \in [held : BOOLEAN, rows : SUBSET Row]
  /\ assistant \in Seq([draft : Drafts, enabled : BOOLEAN])
  /\ trail \in Seq(TrailEntry) /\ editor \in [Editors -> EditorRecord]
  /\ adRun \in [AdRuns -> AdRun] /\ inputMode \in InputModes

IdleEditor == [pc |-> "idle", version |-> 0, draft |-> CHOOSE d \in Drafts : TRUE, set |-> "keep",
               before |-> FALSE, action |-> "none"]
NewRun == [pc |-> "NONE", version |-> 0, image |-> FALSE, todo |-> <<>>, missed |-> FALSE,
           rows |-> {}, snapshot |-> NoModelRow, used |-> NoModelRow, box |-> CHOOSE b \in Releases : TRUE,
           attempts |-> 0, calls |-> 0, off |-> FALSE, pending |-> NoPending,
           steps |-> <<>>, told |-> <<>>]

AdmissionInit ==
  /\ model = [m \in Models |-> [enabled |-> TRUE, vision |-> m # MockModel]] /\ edits = 0
  /\ catalog = NoCopy
  /\ assistant = <<>> /\ trail = <<>>
  /\ editor = [e \in Editors |-> IdleEditor]
  /\ adRun = [r \in AdRuns |-> NewRun]
  /\ inputMode \in InputModes

-----------------------------------------------------------------------------
(* The administrator.  Each request reads first and writes in a transaction *)
(* of its own, together with the audit entry.                               *)

RoomInTrail == Len(trail) + Cardinality({e \in Editors : editor[e].pc # "idle"}) < MaxTrail

BeginEdit(e, new) ==
  /\ editor[e].pc = "idle" /\ RoomInTrail
  /\ editor' = [editor EXCEPT ![e] = new]
  /\ UNCHANGED <<model, edits, catalog, assistant, trail, adRun, inputMode>>

\* create wants a slug nobody has, publishVersion one that exists.
DraftVersion(e, d, enabled) ==
  BeginEdit(e, [IdleEditor EXCEPT !.pc = "version", !.version = Len(assistant) + 1, !.draft = d,
             !.set = IF enabled THEN "on" ELSE "off",
             !.action = IF assistant = <<>> THEN "created" ELSE "version_published"])

\* update: nothing is written when nothing changes, and the action is named after what was read.
PlanUpdate(e, v, set, renames) ==
  LET before == assistant[v].enabled
      flips == set # "keep" /\ (set = "on") # before IN
  /\ v \in DOMAIN assistant
  /\ flips \/ renames
  /\ BeginEdit(e, [IdleEditor EXCEPT !.pc = "update", !.version = v, !.set = set, !.before = before,
                !.action = IF ~flips THEN "updated"
                           ELSE IF set = "on" THEN "enabled" ELSE "disabled"])

Recorded(e, enabled) ==
  trail' = Append(trail, [version |-> editor[e].version, action |-> editor[e].action,
                          enabled |-> enabled])
Leave(e) == editor' = [editor EXCEPT ![e] = IdleEditor]

\* The unique index on (slug, version) refuses the slower of two publishers.
WriteVersion(e) ==
  /\ editor[e].pc = "version"
  /\ \/ /\ editor[e].version = Len(assistant) + 1
        /\ assistant' = Append(assistant, [draft |-> editor[e].draft,
                                           enabled |-> editor[e].set = "on"])
        /\ Recorded(e, editor[e].set = "on")
     \/ editor[e].version <= Len(assistant) /\ UNCHANGED <<assistant, trail>>
  /\ Leave(e)
  /\ UNCHANGED <<model, edits, catalog, adRun, inputMode>>

Updated(e, now) == IF editor[e].set = "keep" THEN now ELSE editor[e].set = "on"
\* Slip: a rename records the state that was read before the transaction.
AuditedAsRead(e, now) == IF editor[e].set = "keep" THEN editor[e].before ELSE now
\* recordAudit gets the row the update returned.
Audited(e, now) == now

WriteUpdate(e) ==
  LET v == editor[e].version
      now == Updated(e, assistant[v].enabled) IN
  /\ editor[e].pc = "update"
  /\ assistant' = [assistant EXCEPT ![v].enabled = now]
  /\ Recorded(e, Audited(e, now))
  /\ adRun' = [r \in AdRuns |-> IF adRun[r].version = v /\ now
                                THEN [adRun[r] EXCEPT !.off = FALSE] ELSE adRun[r]]
  /\ Leave(e)
  /\ UNCHANGED <<model, edits, catalog, inputMode>>

-----------------------------------------------------------------------------
(* The catalogue: an operator edits the tables; nothing drops the copy.    *)

\* (An edit of a model without a credential would change nothing a run can use.)
EditModel(m, enabled, vision) ==
  /\ edits < MaxCatalogEdits /\ edits' = edits + 1
  /\ model[m] # [enabled |-> enabled, vision |-> vision]
  /\ model' = [model EXCEPT ![m] = [enabled |-> enabled, vision |-> vision]]
  /\ UNCHANGED <<catalog, assistant, trail, editor, adRun, inputMode>>

\* The TTL passes, or another release left what this one cannot parse, deletes and reads afresh.
CopyGoes ==
  /\ catalog.held
  /\ catalog' = NoCopy
  /\ UNCHANGED <<model, edits, assistant, trail, editor, adRun, inputMode>>

HasCredential(m) == m = MockModel \/ m \in Credentialed
Usable(rows, m) == {x \in rows : x.slug = m /\ HasCredential(m)}
DefaultRow(rows) ==
  IF Usable(rows, DefaultModel) # {} THEN Usable(rows, DefaultModel) ELSE Usable(rows, MockModel)

-----------------------------------------------------------------------------
(* Submitting a run.                                                       *)

RunIsAt(r, pc) == adRun[r].pc = pc
To(r, rec) == /\ adRun' = [adRun EXCEPT ![r] = rec]
              /\ UNCHANGED <<model, edits, assistant, trail, editor, inputMode>>
\* What a worker held in memory goes with its attempt.
Forgets(rec) == [rec EXCEPT !.missed = FALSE, !.rows = {}, !.told = <<>>, !.used = NoModelRow]
Becomes(r, pc) == To(r, Forgets([adRun[r] EXCEPT !.pc = pc]))

\* resolveAssistantModel: the assistant of the conversation, if it has one (v # 0), must be on.
SubmitRun(r, v, image) ==
  /\ RunIsAt(r, "NONE")
  /\ v = 0 \/ v \in DOMAIN assistant
  /\ To(r, [NewRun EXCEPT !.version = v, !.image = image,
            !.pc = IF v # 0 /\ ~assistant[v].enabled THEN "rejected" ELSE "resolving",
            !.todo = IF v = 0 THEN <<>> ELSE assistant[v].draft.pins])
  /\ UNCHANGED catalog

\* assertArtifactsBindable and the insert: the snapshot is the row that was resolved.
Bind(rec, row) ==
  IF rec.image /\ (~row.vision \/ (rec.version # 0 /\ ~assistant[rec.version].draft.image))
  THEN [rec EXCEPT !.pc = "rejected"]
  ELSE [rec EXCEPT !.pc = "QUEUED", !.snapshot = row, !.todo = <<>>]
BindAny(rec, found) ==
  IF found = {} THEN [rec EXCEPT !.pc = "rejected"] ELSE Bind(rec, CHOOSE x \in found : TRUE)

\* Slip: an assistant none of whose models can be used gets the default.
ResolvedOrDefault(rec, rows) ==
  IF rec.version # 0 /\ Usable(rows, Head(rec.todo)) # {}
  THEN BindAny(rec, Usable(rows, Head(rec.todo)))
  ELSE IF rec.version # 0 /\ Len(rec.todo) > 1 THEN [rec EXCEPT !.todo = Tail(@)]
  ELSE BindAny(rec, DefaultRow(rows))

\* One slug of the selection at a time, each looked up in the copy of its moment.
Resolved(rec, rows) ==
  IF rec.version = 0 THEN BindAny(rec, DefaultRow(rows))
  ELSE IF Usable(rows, Head(rec.todo)) = {} /\ Len(rec.todo) > 1
  THEN [rec EXCEPT !.todo = Tail(@)]
  ELSE BindAny(rec, Usable(rows, Head(rec.todo)))

\* Slip: what the snapshot said of the model is taken to hold still.
PreparedAsPinned(rec, rows) ==
  LET found == Usable(rows, rec.snapshot.slug) IN
  IF found = {} THEN [rec EXCEPT !.pc = "FAILED"]
  ELSE [rec EXCEPT !.pc = "asked", !.used = CHOOSE x \in found : TRUE]

\* ModelGateway.prepare: the slug of the snapshot, in the catalogue of the moment.
Prepared(rec, rows) ==
  LET found == {x \in Usable(rows, rec.snapshot.slug) : rec.image => x.vision} IN
  IF found = {} THEN [rec EXCEPT !.pc = "FAILED"]
  ELSE [rec EXCEPT !.pc = "asked", !.used = CHOOSE x \in found : TRUE]

\* getSnapshot, from the copy or from the tables.
Reads(r) == RunIsAt(r, "resolving") \/ (RunIsAt(r, "loop") /\ adRun[r].calls < AdSteps)
Given(r, rows) ==
  LET rec == [adRun[r] EXCEPT !.missed = FALSE, !.rows = {}] IN
  To(r, IF rec.pc = "resolving" THEN Resolved(rec, rows) ELSE Prepared(rec, rows))

CatalogHit(r) ==
  Reads(r) /\ ~adRun[r].missed /\ catalog.held /\ Given(r, catalog.rows) /\ UNCHANGED catalog
CatalogMiss(r) ==
  /\ Reads(r) /\ ~adRun[r].missed /\ ~catalog.held
  /\ UNCHANGED catalog
  /\ To(r, [adRun[r] EXCEPT !.missed = TRUE, !.rows = Rows])
CatalogStore(r) ==
  /\ Reads(r) /\ adRun[r].missed
  /\ catalog' = [held |-> TRUE, rows |-> adRun[r].rows]
  /\ Given(r, adRun[r].rows)

-----------------------------------------------------------------------------
(* An attempt.  It starts over from the top each time the run is claimed.  *)

StartAt(r, box) ==
  /\ RunIsAt(r, "QUEUED") /\ adRun[r].attempts < AdAttempts
  /\ To(r, [adRun[r] EXCEPT !.pc = "preflight", !.box = box, !.attempts = @ + 1,
            !.off = adRun[r].version # 0 /\ ~assistant[adRun[r].version].enabled])
  /\ UNCHANGED catalog

Off(r) == adRun[r].version # 0 /\ ~assistant[adRun[r].version].enabled
\* Slip: the switch was looked at when the run was submitted.
PreflightOnceAdmitted(r) ==
  /\ RunIsAt(r, "preflight") /\ Becomes(r, "guards")
  /\ UNCHANGED catalog

\* The kill switch; a snapshot, conversation or input that is missing fails the run as well.
Preflight(r) ==
  /\ RunIsAt(r, "preflight")
  /\ \/ Becomes(r, "FAILED")
     \/ ~Off(r) /\ Becomes(r, "guards")
  /\ UNCHANGED catalog

\* scanInput: a marker of the envelope blocks, any other pattern flags; "large" is not scanned.
Verdict == {"allow", "flag", "block", "large"}
\* runInputGuards: only mode block refuses what scanInput blocks; an oversize input always ends.
InputGuards(r, verdict) ==
  /\ RunIsAt(r, "guards")
  /\ Becomes(r, IF verdict = "large" \/ (verdict = "block" /\ inputMode = "block")
                THEN "ENDED" ELSE "artifacts")
  /\ UNCHANGED catalog

\* gatewayError, resolveArtifacts: what is transient is tried again while attempts are left.
Again(rec) == Forgets([rec EXCEPT !.pc = IF rec.attempts >= AdAttempts THEN "FAILED" ELSE "QUEUED"])

FetchArtifacts(r) ==
  /\ RunIsAt(r, "artifacts")
  /\ \/ (~adRun[r].image \/ adRun[r].snapshot.vision) /\ Becomes(r, "resume")
     \/ adRun[r].image /\ Becomes(r, "FAILED")
     \/ adRun[r].image /\ adRun[r].snapshot.vision /\ To(r, Again(adRun[r]))
  /\ UNCHANGED catalog

\* Slip: only what a tool returned is put back into the transcript.
RoundsOfResults(steps) == SelectSeq(steps, LAMBDA x : x.done)
\* reconstructRounds: results and rejections, in the order of their steps.
Rounds(steps) == steps

\* A step and the round of it; rejectionRound stands for a call the owner refused.
Stepped(rec, t, approved, done) ==
  LET step == [tool |-> t, class |-> rec.box[t], approved |-> approved, done |-> done] IN
  [rec EXCEPT !.pc = "loop", !.pending = NoPending, !.steps = Append(@, step),
              !.told = Append(@, step)]
RunsTool(rec, t, approved) == Stepped(rec, t, approved, TRUE)

\* Slip: an approved call runs as whatever its tool is by now.
StillTheToolById(rec) == rec.box[rec.pending.tool] # "absent"
\* executeApproved: the tool must be registered, with the risk class the owner approved.
StillTheTool(rec) == rec.box[rec.pending.tool] = rec.pending.class

\* applyPendingDecision
ResumeRun(r) ==
  LET rec == [adRun[r] EXCEPT !.pc = "loop", !.told = Rounds(adRun[r].steps)] IN
  /\ RunIsAt(r, "resume")
  /\ CASE rec.pending.decision = "none" -> To(r, rec)
       [] rec.pending.decision = "REJECTED" ->
            To(r, Stepped(rec, rec.pending.tool, "absent", FALSE))
       [] OTHER -> \/ StillTheTool(rec) /\ To(r, RunsTool(rec, rec.pending.tool, rec.pending.class))
                   \/ Becomes(r, "FAILED")
  /\ UNCHANGED catalog

Exhausted(r) ==
  /\ RunIsAt(r, "loop") /\ adRun[r].calls >= AdSteps
  /\ Becomes(r, "FAILED")
  /\ UNCHANGED catalog

\* What the adapter may throw, and mapProviderError's verdict on it.
Fault == {"aborted", "api_retryable", "unknown", "api_rejected", "filtered", "unconfigured"}
Retryable(fault) == fault \in {"aborted", "api_retryable", "unknown"}

ProviderFails(r, fault) ==
  /\ RunIsAt(r, "asked")
  /\ IF Retryable(fault) THEN To(r, Again(adRun[r])) ELSE Becomes(r, "FAILED")
  /\ UNCHANGED catalog

\* scanOutput comes before anything is made of the reply; then no call at all is the answer,
\* and more than one is an error.
ProviderReply == {"leak", "text", "many_calls"}
ProviderAnswers(r, reply) ==
  /\ RunIsAt(r, "asked")
  /\ CASE reply = "leak" -> Becomes(r, "ENDED")
       [] reply = "text" -> Becomes(r, "COMPLETED")
       [] reply = "many_calls" -> Becomes(r, "FAILED")
  /\ UNCHANGED catalog

\* Slip: the model only asks for tools it was offered.
AllowedIfKnown(rec, t) == rec.box[t] # "absent"
\* classify: registered, and on the allowlist of the assistant; without one nothing is.
Allowed(rec, t) ==
  rec.box[t] # "absent" /\ rec.version # 0 /\ t \in assistant[rec.version].draft.tools

ProviderCallsTool(r, t) ==
  LET rec == [adRun[r] EXCEPT !.calls = @ + 1] IN
  /\ RunIsAt(r, "asked")
  /\ \/ Allowed(rec, t) /\ rec.box[t] = "SAFE" /\ To(r, RunsTool(rec, t, "absent"))
     \/ /\ Allowed(rec, t) /\ rec.box[t] # "SAFE"
        /\ To(r, [Forgets(rec) EXCEPT !.pc = "WAITING_APPROVAL",
                  !.pending = [tool |-> t, class |-> rec.box[t], decision |-> "asked"]])
     \/ To(r, [rec EXCEPT !.pc = "FAILED"]) \* not allowed, bad arguments, or the tool failed
  /\ UNCHANGED catalog

\* The owner decides; the run is queued again.
DecideTool(r, decision) ==
  /\ RunIsAt(r, "WAITING_APPROVAL")
  /\ To(r, [adRun[r] EXCEPT !.pc = "QUEUED", !.pending.decision = decision,
                        !.attempts = IF @ > 0 THEN @ - 1 ELSE @])
  /\ UNCHANGED catalog

\* The worker dies; its lease is reaped.
AttemptDies(r) ==
  /\ adRun[r].pc \in AtWork
  /\ To(r, Again(adRun[r]))
  /\ UNCHANGED catalog

AdmissionNext ==
  \/ \E e \in Editors :
       \/ \E d \in Drafts, enabled \in BOOLEAN : DraftVersion(e, d, enabled)
       \/ \E v \in DOMAIN assistant, set \in Switch, renames \in BOOLEAN :
            PlanUpdate(e, v, set, renames)
       \/ WriteVersion(e) \/ WriteUpdate(e)
  \/ \E m \in Credentialed \ {MockModel}, enabled, vision \in BOOLEAN : EditModel(m, enabled, vision)
  \/ CopyGoes
  \/ \E r \in AdRuns :
       \/ \E v \in 0 .. Len(assistant), image \in BOOLEAN : SubmitRun(r, v, image)
       \/ CatalogHit(r) \/ CatalogMiss(r) \/ CatalogStore(r)
       \/ \E box \in Releases : StartAt(r, box)
       \/ \E verdict \in Verdict : InputGuards(r, verdict)
       \/ Preflight(r) \/ FetchArtifacts(r) \/ ResumeRun(r) \/ Exhausted(r)
       \/ \E fault \in Fault : ProviderFails(r, fault)
       \/ \E reply \in ProviderReply : ProviderAnswers(r, reply)
       \/ \E t \in Tools : ProviderCallsTool(r, t)
       \/ \E decision \in {"APPROVED", "REJECTED"} : DecideTool(r, decision)
       \/ AttemptDies(r)

AdmissionSpec == AdmissionInit /\ [][AdmissionNext]_admissionVars

-----------------------------------------------------------------------------
(* Properties.                                                             *)

\* An attempt that starts after the assistant was switched off never reaches a provider, as
\* long as it stays off: the run was admitted earlier and its switch is looked at again.
KillSwitchHolds == \A r \in AdRuns : RunIsAt(r, "asked") => ~adRun[r].off

\* A run uses a model of its assistant's selection, with a credential, and never the mock or the
\* default in its place; a call with an image only goes to a model that takes images now, as it
\* did when the run was submitted.
SelectionIsKept ==
  \A r \in AdRuns :
    LET rec == adRun[r]
        bound == rec.pc \notin {"NONE", "resolving", "rejected"} IN
    /\ bound => /\ HasCredential(rec.snapshot.slug)
                /\ IF rec.version = 0 THEN rec.snapshot.slug \in {DefaultModel, MockModel}
                   ELSE \E n \in DOMAIN assistant[rec.version].draft.pins :
                          assistant[rec.version].draft.pins[n] = rec.snapshot.slug
    /\ RunIsAt(r, "asked") => rec.used.slug = rec.snapshot.slug /\ (rec.image => rec.used.vision)

\* Every tool that ran was on the allowlist and registered in the release that ran it; unless that
\* release calls it safe and nobody was asked, the owner approved it under the risk it has there.
ToolsStayGated ==
  \A r \in AdRuns : \A x \in {adRun[r].steps[n] : n \in {k \in DOMAIN adRun[r].steps :
                                                           adRun[r].steps[k].done}} :
    /\ x.class # "absent" /\ adRun[r].version # 0
    /\ x.tool \in assistant[adRun[r].version].draft.tools
    /\ (x.class # "SAFE" \/ x.approved # "absent") => x.approved = x.class

\* A provider is always told every tool result and rejection so far, in order, whichever attempt
\* asks: what a worker rebuilds from the steps is what its predecessor held in memory.
TranscriptSurvives == \A r \in AdRuns : RunIsAt(r, "asked") => adRun[r].told = adRun[r].steps

\* The audit trail tells each version's state: published once, and last recorded as it is.
EntriesOf(v) == {n \in DOMAIN trail : trail[n].version = v}
TrailShowsTheSwitch ==
  \A v \in DOMAIN assistant :
    /\ Cardinality({n \in EntriesOf(v) : trail[n].action \in {"created", "version_published"}}) = 1
    /\ \E n \in EntriesOf(v) : /\ \A k \in EntriesOf(v) : k <= n
                               /\ trail[n].enabled = assistant[v].enabled

AdmissionIsSound == KillSwitchHolds /\ SelectionIsKept /\ ToolsStayGated /\ TranscriptSurvives
                    /\ TrailShowsTheSwitch

\* A switch that flips is recorded as "enabled" or "disabled".  Not so: an update that carries both
\* a new name and the switch is named after the state it read before its transaction.
SwitchIsNamed ==
  [][\A v \in DOMAIN assistant : assistant'[v].enabled # assistant[v].enabled =>
       trail'[Len(trail')].action \in {"enabled", "disabled"}]_admissionVars

=============================================================================
