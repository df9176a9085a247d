-------------------------- MODULE SubmissionLayers --------------------------
(***************************************************************************)
(* How a submission gets its fields: what the caller set, the task type's  *)
(* own configuration, the defaults of the module, what a child inherits    *)
(* from its parent, and the scheduler's defaults, applied in the order of  *)
(* the code of each way to submit.  Pure operators; TaskTiming submits     *)
(* with them.                                                              *)
(*                                                                         *)
(* A name is a tuple of its parts, so that prefixing a task type with its  *)
(* module is visible.  Unset is None.  Durations and times are in ticks.   *)
(***************************************************************************)
EXTENDS Integers, Sequences

CONSTANTS Unset, NORMAL, TagKeys, Second

Given(v, other) == IF v = Unset THEN other ELSE v

Later(now, delay) == IF delay = Unset THEN Unset ELSE now + delay

NoTags == [k \in TagKeys |-> Unset]

(* entry(k).or_insert(v) over a map: own tags win. *)
MergeTags(own, more) == [k \in TagKeys |-> Given(own[k], more[k])]

(* TaskSubmission::new *)
new(type) ==
    [type |-> type, label |-> type, key |-> Unset, priority |-> NORMAL,
     group |-> Unset, ttl |-> Unset, ttl_from |-> "submission",
     run_after |-> Unset, parent |-> Unset, tags |-> NoTags]

(* TaskSubmission::key: the key is also the label. *)
WithKey(sub, k) ==
    IF k = Unset THEN sub ELSE [sub EXCEPT !.key = k, !.label = k]

(* TaskSubmission::from_typed: the configuration of the type and the       *)
(* values of the instance become explicit fields of the submission.        *)
from_typed(task, now) ==
    LET sub == WithKey(new(task.type), task.key)
    IN  [sub EXCEPT !.priority = Given(task.priority, @),
                    !.ttl_from = Given(task.ttl_from, @),
                    !.ttl = task.ttl,
                    !.group = task.group,
                    !.run_after = Later(now, task.run_after),
                    !.label = Given(task.label, @),
                    !.tags = task.tags]

(* build_typed_submit_builder: priority, group, TTL and tags go to the     *)
(* layer below the module's defaults, the rest onto the submission.        *)
TypedDefaults(task) ==
    [priority |-> Given(task.priority, NORMAL), group |-> task.group,
     ttl |-> task.ttl, tags |-> task.tags]

build_typed_submit_builder(task, now) ==
    [from_typed(task, now) EXCEPT !.priority = NORMAL, !.group = Unset,
                                  !.ttl = Unset, !.tags = NoTags]

-----------------------------------------------------------------------------
(* SubmitBuilder *)

apply_prefix(sub, module) ==
    LET type == <<module.name>> \o sub.type
    IN  [sub EXCEPT !.type = type,
                    !.label = IF @ = sub.type THEN type ELSE @]

Scalars == {"priority", "group", "ttl"}

(* The value at which a field of a submission counts as not set. *)
Zero(f) == IF f = "priority" THEN NORMAL ELSE Unset


apply_module_scalar_defaults(sub, module, unconditional) ==
    [f \in DOMAIN sub |->
        IF /\ f \in Scalars
           /\ module[f] # Unset
           /\ unconditional \/ sub[f] = Zero(f)
        THEN module[f]
        ELSE sub[f]]

MergeModuleTags(sub, module) ==
    [sub EXCEPT !.tags = MergeTags(@, module.tags)]

apply_defaults(sub, typed, module) ==
    IF typed # Unset
    THEN LET base == [sub EXCEPT !.priority = typed.priority,
                                 !.group = typed.group,
                                 !.ttl = typed.ttl,
                                 !.tags = typed.tags]
         IN  apply_module_scalar_defaults(
                 MergeModuleTags(base, module), module, TRUE)
    ELSE MergeModuleTags(
             apply_module_scalar_defaults(sub, module, FALSE), module)

apply_overrides(sub, over, now) ==
    LET keyed == WithKey(sub, over.key)
    IN  [keyed EXCEPT !.priority = Given(over.priority, @),
                      !.group = Given(over.group, @),
                      !.ttl = Given(over.ttl, @),
                      !.run_after = Given(Later(now, over.run_after), @),
                      !.parent = Given(over.parent, @),
                      !.tags = MergeTags(over.tags, @)]

resolve(sub, typed, module, over, now) ==
    apply_overrides(
        apply_defaults(apply_prefix(sub, module), typed, module), over, now)

-----------------------------------------------------------------------------
(* What a child takes from its parent's row, and the scheduler's defaults. *)

(* Mutant: the child gets the parent's TTL, not what is left of it. *)
WholeTtl(row, now) ==
    IF row.ttl = Unset THEN Unset ELSE row.ttl * Second

(* TaskRecord::remaining_ttl and its two copies: what is left of a TTL of  *)
(* whole seconds, counted from the submission or from the start of the     *)
(* attempt that runs now; nothing when that is not positive.               *)
remaining_ttl(row, now) ==
    LET start == IF row.ttl_from = "submission" THEN row.created
                                                ELSE row.started
        left == row.ttl * Second - (now - start)
    IN  IF row.ttl = Unset \/ start = Unset THEN Unset
        ELSE IF left > 0 THEN left ELSE Unset

Inherit(sub, row, now) ==
    LET left == remaining_ttl(row, now)
        tagged == [sub EXCEPT !.tags = MergeTags(@, row.tags)]
    IN  IF sub.ttl # Unset \/ left = Unset
        THEN tagged
        ELSE [tagged EXCEPT !.ttl = left, !.ttl_from = "submission"]

(* ChildSpawner::prepare *)
prepare(sub, id, row, now) == Inherit([sub EXCEPT !.parent = id], row, now)

(* Scheduler::resolve_ttl *)
resolve_ttl(sub, type_ttl, default_ttl) ==
    [sub EXCEPT !.ttl = Given(@, Given(type_ttl, default_ttl))]

=============================================================================
