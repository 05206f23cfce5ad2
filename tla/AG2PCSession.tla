----------------------------- MODULE AG2PCSession -----------------------------
(***************************************************************************)
(* AG2PCSession (session/ag2pc_session.h) over its recorder, planner and   *)
(* engine: eager and batched inputs, recorded gates, reveal, checkpoint    *)
(* and the run of stored programs.                                         *)
(*                                                                         *)
(* Both parties execute the same calls in lockstep, so one state stands    *)
(* for the pair; what may differ between them is in the wires (lamA and    *)
(* lamB, module Engine).  A user value is one wire wide; reveal and        *)
(* checkpoint take any list of values to keep.                             *)
(*                                                                         *)
(* Ghost state: truth (the clear value of every usable id, as a function   *)
(* of the inputs), checked (how many drawn shares the COT consistency      *)
(* check has covered) and opened (what the last call revealed).            *)
(***************************************************************************)
EXTENDS AG2PCCtx, FlushPlan, Engine

CONSTANTS
    Programs,       \* the stored circuits that run() may be given
    MaxKeep,        \* bound on the values kept by one reveal or checkpoint
    MaxArgs,        \* bound on the arguments of one run()
    MaxAdds         \* bound on the adds of one input batch (0: no batches)

ASSUME SessionAssumption ==
    /\ Programs \subseteq BooleanProgram
    /\ {MaxKeep, MaxArgs, MaxAdds} \subseteq Nat

VARIABLES
    carried,        \* carried_: materialized id -> authenticated wire
    batch,          \* the InputBatch object in use
    draws,          \* shares drawn from the COT session so far
    minted,         \* cots_minted_since_check_
    truth, checked, opened

sessVars == <<carried, batch, draws, minted, truth, checked, opened>>
vars == <<ctxVars, status, sessVars>>

Ids == 0 .. (next_id - 1)

ALICE == 1
BOB == 2
PUBLIC == 0
BadParty == 3           \* anything else, e.g. the XOR-share sentinel
Parties == {PUBLIC, ALICE, BOB}

NoBatch == [phase |-> "none", adds |-> <<>>]
Nothing == [to |-> BadParty, correct |-> TRUE, settled |-> TRUE]

(* The clear bit of an input is arbitrary: a variable named by its id.     *)
InputBit(id) == Var(<<"input", id>>)

(* Ids handed out by add() of the batch in use and not materialized yet.   *)
Reserved == IF batch.phase = "open" THEN {batch.adds[i].id : i \in DOMAIN batch.adds} ELSE {}

Usable == pending \cup DOMAIN carried \cup Reserved

Init ==
    /\ CtxInit
    /\ status = "open"
    /\ carried = <<>>
    /\ batch = NoBatch
    /\ draws = 0
    /\ minted = FALSE
    /\ truth = <<>>
    /\ checked = 0
    /\ opened = Nothing

SessionGone ==
    /\ carried' = <<>>
    /\ batch' = NoBatch
    /\ draws' = 0 /\ minted' = FALSE
    /\ truth' = <<>> /\ checked' = 0 /\ opened' = Nothing

(* error() ends the process.                                               *)
Abort(why) == Fail(why) /\ SessionGone

Learn(id, b) == truth' = [i \in Ids \cup {id} |-> IF i = id THEN b ELSE truth[i]]

(* The carried state with more wires.                                      *)
Extend(f, ids, wire(_)) == [id \in DOMAIN f \cup ids |-> IF id \in ids THEN wire(id) ELSE f[id]]
-------------------------------------------------------------------------------
(* Gate calls on sess.ctx(): the recorder only.                            *)
RecorderFrame == opened' = Nothing /\ UNCHANGED <<carried, batch, draws, minted, checked>>

AndGate(a, b) == and_gate(a, b) /\ Learn(next_id, AndBit(truth[a], truth[b])) /\ RecorderFrame

XorGate(a, b) == xor_gate(a, b) /\ Learn(next_id, XorBit(truth[a], truth[b])) /\ RecorderFrame

NotGate(a) == not_gate(a) /\ Learn(next_id, NotBit(truth[a])) /\ RecorderFrame

PublicBit(v) == public_bit(v) /\ Learn(next_id, ConstBit(v)) /\ RecorderFrame
-------------------------------------------------------------------------------
(* A PUBLIC input costs no share; any other owner draws one.               *)
authenticate_(owner, x) == IF owner = PUBLIC THEN PublicWire(x) ELSE InputWire(draws + 1, x)

(* input<V>: authenticate, then materialize under a fresh id.              *)
Input(owner) ==
    IF owner \notin Parties THEN Abort("input owner")
    ELSE IF ~CanAlloc(1) THEN Abort("wire id overflow")
    ELSE LET x == InputBit(next_id)
             wire(id) == authenticate_(owner, x)
         IN /\ reserve_ids(1)
            /\ Learn(next_id, x)
            /\ carried' = Extend(carried, {next_id}, wire)
            /\ draws' = IF owner = PUBLIC THEN draws ELSE draws + 1
            /\ minted' = (minted \/ owner # PUBLIC)
            /\ opened' = Nothing
            /\ UNCHANGED <<status, batch, checked>>

(* input_batch(): a fresh batch object.  One batch object lives at a time: *)
(* one that is still open goes out of scope unfinished.                    *)
InputBatch ==
    /\ batch # [phase |-> "open", adds |-> <<>>]
    /\ batch' = [phase |-> "open", adds |-> <<>>]
    /\ opened' = Nothing
    /\ UNCHANGED <<ctxVars, status, carried, draws, minted, truth, checked>>

BatchAdd(owner) ==
    /\ batch.phase # "none"
    /\ IF batch.phase = "finished" THEN Abort("add after finish")
       ELSE IF ~CanAlloc(1) THEN Abort("wire id overflow")
       ELSE /\ reserve_ids(1)
            /\ Learn(next_id, InputBit(next_id))
            /\ batch' = [batch EXCEPT !.adds = Append(@, [owner |-> owner, id |-> next_id])]
            /\ opened' = Nothing
            /\ UNCHANGED <<status, carried, draws, minted, checked>>

(* The positions of the adds that go through process_inputs (sec_add).     *)
SecureAdds(adds) ==
    Sublist([i \in DOMAIN adds |-> i], {i \in DOMAIN adds : adds[i].owner # PUBLIC})

(* Bug: process_inputs is given the bits of add j, PUBLIC adds not skipped.*)
BatchWireUnskipped(adds, i) ==
    LET sec == SecureAdds(adds)
    IN IF adds[i].owner = PUBLIC THEN PublicWire(InputBit(adds[i].id))
       ELSE LET j == Position(sec, i)
            IN InputWire(draws + j, InputBit(adds[j].id))

(* batch_finish_: the wire of add i.  PUBLIC adds through public_wires,    *)
(* the others in one process_inputs call, bundle j to add sec_add[j].      *)
BatchWire(adds, i) ==
    LET sec == SecureAdds(adds)
    IN IF adds[i].owner = PUBLIC THEN PublicWire(InputBit(adds[i].id))
       ELSE LET j == Position(sec, i)
            IN InputWire(draws + j, InputBit(adds[sec[j]].id))

BatchFinish ==
    LET adds == batch.adds
        wire(id) == BatchWire(adds, CHOOSE i \in DOMAIN adds : adds[i].id = id)
        n == Len(SecureAdds(adds))
    IN /\ batch.phase # "none"
       /\ IF batch.phase = "finished" THEN Abort("finish twice")
          ELSE IF \E i \in DOMAIN adds : adds[i].owner \notin Parties THEN Abort("batch owner")
          ELSE /\ carried' = Extend(carried, Reserved, wire)
               /\ draws' = draws + n
               /\ minted' = (minted \/ n > 0)
               /\ batch' = [batch EXCEPT !.phase = "finished"]
               /\ opened' = Nothing
               /\ UNCHANGED <<ctxVars, status, truth, checked>>
-------------------------------------------------------------------------------
(* Bug: the check is tied to the run's own ANDs, not to the minted flag.   *)
CotCheckOnAnds(m, ands, d) ==
    [minted |-> IF ands > 0 THEN FALSE ELSE m, checked |-> IF ands > 0 THEN d ELSE checked]

(* maybe_flush_cot_check at the end of a run: m says whether shares were   *)
(* minted since the last check, ands of them by this run; d counts them.   *)
maybe_flush_cot_check(m, ands, d) ==
    [minted |-> FALSE, checked |-> IF m THEN d ELSE checked]

(* engine_.run_program on carried wires: run_source, then the COT check.   *)
RunOutcome(run, ands, cot) ==
    [canonical |-> TRUE, mayPass |-> run.mayPass, mayFail |-> run.mayFail, out |-> run.out,
     draws |-> draws + ands, minted |-> cot.minted, checked |-> cot.checked]

run_program(prog, in) ==
    LET ands == Cardinality(AndGates(prog))
    IN IF ~RecordCanonical(prog) THEN [canonical |-> FALSE]
       ELSE RunOutcome(run_source(prog, in, draws), ands,
                       maybe_flush_cot_check(minted \/ ands > 0, ands, draws + ands))

(* The carried wires of ids, in the caller's order.                        *)
gather_carried_(ids) == [k \in DOMAIN ids |-> carried[ids[k]]]

AnyPending(keep) == ToSet(keep) \cap pending # {}

(* What a flush leaves behind, up to the final drop_chunk: the error it    *)
(* raises, whether c_gamma can pass and fail, and the carried state.       *)
Untouched(err) ==
    [err |-> err, mayPass |-> TRUE, mayFail |-> FALSE, carried |-> carried,
     draws |-> draws, minted |-> minted, checked |-> checked]

(* The pending ids of the keep list, which are exactly plan.output_ids     *)
(* (PlanExact), get the outputs of the run.                                *)
FlushRun(keep, output_ids, run) ==
    LET out(id) == run.out[Position(output_ids, id)]
    IN IF ~run.canonical THEN Untouched("plan not canonical")
       ELSE [err |-> "", mayPass |-> run.mayPass, mayFail |-> run.mayFail,
             carried |-> Extend(carried, ToSet(keep) \cap pending, out),
             draws |-> run.draws, minted |-> run.minted, checked |-> run.checked]

FlushPlanned(keep, plan) ==
    IF ~plan.ok THEN Untouched("stale operand")
    ELSE FlushRun(keep, plan.output_ids,
                  run_program(plan.prog, gather_carried_(plan.input_ids)))

flush_(keep) ==
    IF ~(ToSet(keep) \subseteq pending \cup DOMAIN carried) THEN Untouched("stale keep")
    ELSE IF ~AnyPending(keep) THEN Untouched("")
    ELSE FlushPlanned(keep, plan_flush(chunk_gates, keep, DOMAIN carried))

(* decode: the recipient opens lambda and unmasks with its own Lambda;     *)
(* PUBLIC is decoded by the evaluator, who broadcasts.                     *)
decode(w, recipient) == IF recipient = ALICE THEN ValueAtAlice(w) ELSE ValueAtBob(w)

(* The exits of a call after its flush f.                                  *)
FlushFails(f) ==
    \/ f.err # "" /\ Abort(f.err)
    \/ f.err = "" /\ f.mayFail /\ Abort("c_gamma")

FlushDone(f, kept) ==
    /\ f.err = "" /\ f.mayPass
    /\ drop_chunk
    /\ carried' = [id \in kept |-> f.carried[id]]
    /\ draws' = f.draws /\ minted' = f.minted /\ checked' = f.checked
    /\ truth' = [id \in Ids |-> IF id \in kept \cup Reserved THEN truth[id] ELSE Zero]
    /\ UNCHANGED <<status, batch>>

(* reveal, after the flush: gather v, decode it.                           *)
RevealAfter(f, v) ==
    IF f.err = "" /\ v \notin DOMAIN f.carried THEN Abort("gather")
    ELSE \/ FlushFails(f)
         \/ /\ FlushDone(f, DOMAIN f.carried)
            /\ \E recipient \in Parties :
                 opened' = [to |-> recipient,
                            correct |-> decode(f.carried[v], recipient) = truth[v],
                            settled |-> f.checked = f.draws]

(* reveal: flush keeping v and the keep list, then decode v.               *)
Reveal(v, keep) ==
    \/ Abort("reveal recipient")
    \/ RevealAfter(flush_(<<v>> \o keep), v)

(* checkpoint, after the flush: prune the carried state to the keep list.  *)
CheckpointAfter(f, keep) ==
    \/ FlushFails(f)
    \/ FlushDone(f, DOMAIN f.carried \cap ToSet(keep)) /\ opened' = Nothing

Checkpoint(keep) == CheckpointAfter(flush_(keep), keep)

(* run / run_artifact: a stored program over materialized arguments.  The  *)
(* chunk is left alone; the outputs get fresh ids.  run_artifact also lets *)
(* the caller name a result type, of the wrong width perhaps.              *)
RunAfter(run, prog, clear) ==
    LET n     == Len(prog.outputs)
        fresh == next_id .. (next_id + n - 1)
        out(id) == run.out[id - next_id + 1]
    IN \/ ~run.canonical /\ Abort("not canonical")
       \/ run.canonical /\ run.mayFail /\ Abort("c_gamma")
       \/ run.canonical /\ run.mayPass /\ ~CanAlloc(n) /\ Abort("wire id overflow")
       \/ /\ run.canonical /\ run.mayPass
          /\ reserve_ids(n)
          /\ carried' = Extend(carried, fresh, out)
          /\ truth' = [id \in Ids \cup fresh |->
                         IF id \in fresh THEN clear[prog.outputs[id - next_id + 1] + 1]
                         ELSE truth[id]]
          /\ draws' = run.draws /\ minted' = run.minted /\ checked' = run.checked
          /\ opened' = Nothing
          /\ UNCHANGED <<status, batch>>

(* append_arg_ accepts only materialized arguments.                        *)
Materialized(args) == ToSet(args) \subseteq DOMAIN carried

RunProgram(prog, args) ==
    IF ~Materialized(args) THEN Abort("unflushed argument")
    ELSE IF Len(args) # prog.num_inputs THEN Abort("argument width")
    ELSE \/ Abort("result width")
         \/ RunAfter(run_program(prog, gather_carried_(args)), prog,
                     ClearEval(prog, [k \in DOMAIN args |-> truth[args[k]]]))

(* ~AG2PCSession.  ~TriplePool ends the COT session, whose check covers    *)
(* the shares drawn since the last one; nothing is revealed after that.    *)
Close == status' = "closed" /\ CtxGone /\ SessionGone
-------------------------------------------------------------------------------
KeepLists == SeqOf(Ids, MaxKeep)

Call ==
    \/ \E a, b \in Ids : AndGate(a, b)
    \/ \E a, b \in Ids : XorGate(a, b)
    \/ \E a \in Ids : NotGate(a)
    \/ \E v \in BOOLEAN : PublicBit(v)
    \/ RecorderError /\ SessionGone
    \/ \E owner \in Parties \cup {BadParty} : Input(owner)
    \/ MaxAdds > 0 /\ InputBatch
    \/ \E owner \in Parties \cup {BadParty} : Len(batch.adds) < MaxAdds /\ BatchAdd(owner)
    \/ BatchFinish
    \/ \E v \in Ids, keep \in KeepLists : Reveal(v, keep)
    \/ \E keep \in KeepLists : Checkpoint(keep)
    \/ \E prog \in Programs, args \in SeqOf(Ids, MaxArgs) : RunProgram(prog, args)
    \/ Close

Ended == status # "open" /\ UNCHANGED vars

Next == (status = "open" /\ Call) \/ Ended

Spec == Init /\ [][Next]_vars
-------------------------------------------------------------------------------
(***************************************************************************)
(* Properties.                                                             *)
(***************************************************************************)
Statuses == {"open", "closed", "corrupt wire", "wire id overflow", "input owner",
             "add after finish", "finish twice", "batch owner", "reveal recipient",
             "stale keep", "stale operand", "unflushed argument", "argument width",
             "result width", "not canonical", "c_gamma", "plan not canonical", "gather"}

(* The state of recorder and session has the shape the code declares.      *)
TypeOK ==
    /\ CtxTypeOK
    /\ status \in Statuses
    /\ DOMAIN carried \subseteq Ids
    /\ \A id \in DOMAIN carried : carried[id].share \subseteq 1 .. draws
    /\ DOMAIN truth = Ids
    /\ batch.phase \in {"none", "open", "finished"}
    /\ draws \in Nat /\ checked \in 0 .. draws /\ minted \in BOOLEAN

(* An id is pending, materialized or reserved by an open batch, and never  *)
(* two of these: is_pending and carried_.count never disagree about who    *)
(* owns a wire (flush_ would overwrite a carried wire, or run() would take *)
(* an unflushed one).                                                      *)
IdsPartitioned ==
    /\ pending \cap DOMAIN carried = {}
    /\ Reserved \cap (pending \cup DOMAIN carried) = {}

(* Every materialized wire, however it got there (input, batch, flush of a *)
(* compacted chunk, run of a stored program), decodes at the evaluator to  *)
(* the clear value of its id, and a reveal to BOB or to PUBLIC returns it. *)
CarriedCorrect ==
    /\ \A id \in DOMAIN carried : ValueAtBob(carried[id]) = truth[id]
    /\ opened.to \in {BOB, PUBLIC} => opened.correct

(* A wire that went stale (dropped by a flush, pruned by checkpoint, or    *)
(* left in a batch never finished) never becomes usable again: while the   *)
(* session is open no id is handed out twice and nothing resurrects one.   *)
StaleForever ==
    [][status' = "open" =>
         /\ next_id <= next_id'
         /\ \A id \in Ids : id \notin Usable => id \notin Usable']_vars

(* cots_minted_since_check_ is set iff some drawn share is unchecked, and  *)
(* an unchecked share occurs only in the input wire it was drawn for:      *)
(* everything the engine returned rests on checked shares.                 *)
EngineOutputsSettled ==
    /\ status = "open" => (minted <=> checked # draws)
    /\ \A id \in DOMAIN carried : \A n \in carried[id].share :
         n > checked =>
           /\ carried[id].share = {n}
           /\ \A other \in DOMAIN carried \ {id} : n \notin carried[other].share

(* The checks that guard the session against itself never fire: a plan of  *)
(* its own is canonical, and after a flush the revealed wire is there.     *)
NoInternalError == status \notin {"plan not canonical", "gather"}

(* Between honest parties the c_gamma check fails only if a wire already   *)
(* carried into the run had different Lambda bits at the two parties.      *)
GammaFailsOnlyOnDisagreement ==
    [][status' = "c_gamma" =>
         \E id \in DOMAIN carried : carried[id].lamA # carried[id].lamB]_vars

(* What the code's comments promise and the code does not keep: the next   *)
(* two are each refuted by a run of their own.                             *)
(* protocol.h: decode returns the cleartext bits at the recipient.         *)
RevealCorrect == opened.correct

(* ag2pc_session.h: the COT check has run before a value is revealed.      *)
RevealSettled == opened.settled
===============================================================================
