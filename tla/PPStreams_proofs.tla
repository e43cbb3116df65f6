-------------------------- MODULE PPStreams_proofs --------------------------
(***************************************************************************)
(* Proofs about the streams, for every depth of the pipeline, every order  *)
(* of the threads and streams and any number of steps:                     *)
(*   - the PLE connector asks for one step at a time and stages for each   *)
(*     step that step's own inputs (AskInv, Windows);                      *)
(*   - the collectives that meet on the broadcast stream are one and the   *)
(*     same (CollInv);                                                     *)
(*   - the main streams read only what has arrived (ReadInv);              *)
(*   - the rotating block tables of a step are its own (TableInv).         *)
(***************************************************************************)
EXTENDS PPStreams, SequenceTheorems, FiniteSetTheorems, TLAPS

Call == [step : Nat \ {0}, kind : Kinds]
Op   == [op : {"inputs", "forward", "wait", "apply", "propose"}, step : Nat]

StreamTypes ==
  /\ scheduled \in Nat
  /\ calls \in [Ranks -> Seq(Call)]
  /\ part \in [Ranks -> {"execute", "forward", "sample"}]
  /\ \A r \in Ranks : part[r] # "execute" => calls[r] # <<>>
  /\ slots \in [Ranks -> Seq(Nat)]
  /\ \A r \in Ranks \ {Last} : Len(slots[r]) = Depth
  /\ main \in [Ranks -> Seq(Op)]
  /\ staged \in BOOLEAN /\ requests \in Seq(Nat \ {0}) /\ copying \in Nat
  /\ live \in Nat /\ copied \in [step : Nat, inputs : Nat]

LEMMA FirstRank == 1 \in Ranks /\ 1 # Last /\ Last \in Ranks /\ Depth \in Nat
BY PPStreamsAssumption DEF Ranks, Last

LEMMA StreamTypesInit == Init => StreamTypes
BY PPStreamsAssumption DEF Init, StreamTypes, Ranks, Last

-----------------------------------------------------------------------------
(* What a rank appends to its main stream.                                 *)

Reads == [op : {"wait", "apply"}, step : Nat]

\* Of its queue a rank only waits for entries and reads them.
LEMMA ReadsTyped ==
  ASSUME NEW r \in Ranks \ {Last}, slots[r] \in Seq(Nat), Len(slots[r]) = Depth,
         NEW freed \in BOOLEAN
  PROVE  Peeks(r) \o Consumes(r, freed) \in Seq(Reads)
<1>1. slots[r][1] \in Nat /\ slots[r][Depth] \in Nat
  BY PPStreamsAssumption
<1>2. \A t \in Nat : MainOp("wait", t) \in Reads /\ MainOp("apply", t) \in Reads
  BY DEF MainOp, Reads
<1>3. \A a, b \in Reads : <<a, b>> \in Seq(Reads)
  OBVIOUS
<1>4. <<>> \in Seq(Reads)
  OBVIOUS
<1>5. Peeks(r) \in Seq(Reads)
  BY <1>1, <1>2, <1>3, <1>4 DEF Peeks
<1>6. Consumes(r, freed) \in Seq(Reads)
  BY <1>1, <1>2, <1>3, <1>4 DEF Consumes
<1> QED
  BY <1>5, <1>6, ConcatProperties

\* What execute_model issues on rank r.
LEMMA Issued ==
  ASSUME StreamTypes, NEW r \in Ranks, NEW freed \in BOOLEAN, ExecuteModel(r, freed)
  PROVE  \E ops \in Seq(Op) :
           /\ main' = [main EXCEPT ![r] = main[r] \o ops]
           /\ \A j \in DOMAIN ops : ops[j].op = "inputs" => ops[j].step = Head(calls[r]).step
           /\ Head(calls[r]).kind # "empty" => \E j \in DOMAIN ops : ops[j].op = "inputs"
           /\ Head(calls[r]).kind = "empty" => \A j \in DOMAIN ops : ops[j].op # "inputs"
<1> DEFINE call  == Head(calls[r])
           reads == IF r = Last THEN <<>> ELSE Peeks(r) \o Consumes(r, freed)
           runs  == IF call.kind = "empty" THEN <<>>
                    ELSE IF HasPle(r) THEN <<MainOp("inputs", call.step)>>
                    ELSE <<MainOp("inputs", call.step), MainOp("forward", call.step)>>
<1>1. /\ main[r] \in Seq(Op) /\ slots[r] \in Seq(Nat)
      /\ r # Last => Len(slots[r]) = Depth
      /\ call \in Call
  BY DEF StreamTypes, ExecuteModel
<1>2. main' = [main EXCEPT ![r] = (main[r] \o reads) \o runs]
  BY DEF ExecuteModel
<1>3. reads \in Seq(Reads)
  BY <1>1, ReadsTyped
<1>4. Reads \subseteq Op
  BY DEF Reads, Op
<1>5. reads \in Seq(Op)
  BY <1>3, <1>4, SeqMonotonic
<1>6. /\ MainOp("inputs", call.step) \in Op /\ MainOp("forward", call.step) \in Op
      /\ MainOp("inputs", call.step).op = "inputs"
      /\ MainOp("inputs", call.step).step = call.step
      /\ MainOp("forward", call.step).op = "forward"
  BY <1>1 DEF MainOp, Op, Call
<1> DEFINE a == MainOp("inputs", call.step)
           b == MainOp("forward", call.step)
<1>8. /\ runs \in Seq(Op)
      /\ \A j \in DOMAIN runs : runs[j].op = "inputs" => runs[j].step = call.step
      /\ call.kind # "empty" => 1 \in DOMAIN runs /\ runs[1].op = "inputs"
      /\ call.kind = "empty" => DOMAIN runs = {}
  <2> HIDE DEF a, b, call
  <2>1. a \in Op /\ b \in Op /\ a.op = "inputs" /\ a.step = call.step /\ b.op = "forward"
    BY <1>6 DEF a, b
  <2>2. CASE call.kind = "empty"
    BY <2>2
  <2>3. CASE call.kind # "empty" /\ HasPle(r)
    <3>1. runs = <<a>>
      BY <2>3 DEF a
    <3> HIDE DEF runs
    <3> QED
      BY <2>1, <2>3, <3>1
  <2>4. CASE call.kind # "empty" /\ ~HasPle(r)
    <3>1. runs = <<a, b>>
      BY <2>4 DEF a, b
    <3> HIDE DEF runs
    <3> QED
      BY <2>1, <2>4, <3>1
  <2> QED
    BY <2>2, <2>3, <2>4
<1> DEFINE ops == reads \o runs
<1> HIDE DEF reads, runs
<1> HIDE DEF a, b, call
<1>9. /\ ops \in Seq(Op)
      /\ Len(ops) = Len(reads) + Len(runs)
      /\ \A i \in 1..(Len(reads) + Len(runs)) :
           ops[i] = IF i <= Len(reads) THEN reads[i] ELSE runs[i - Len(reads)]
  BY <1>5, <1>8, ConcatProperties
<1>14. main' = [main EXCEPT ![r] = main[r] \o ops]
  <2>1. main[r] \in Seq(Op) /\ reads \in Seq(Op) /\ runs \in Seq(Op)
    BY <1>1, <1>5, <1>8
  <2>2. \A s, t, u \in Seq(Op) : (s \o t) \o u = s \o (t \o u)
    BY ConcatAssociative
  <2>3. (main[r] \o reads) \o runs = main[r] \o ops
    BY <2>1, <2>2, Zenon DEF ops
  <2> HIDE DEF ops
  <2> QED
    BY <1>2, <2>3, Zenon
<1> HIDE DEF ops
<1>10. \A j \in 1..Len(reads) : reads[j].op # "inputs"
  <2>1. \A j \in 1..Len(reads) : reads[j] \in Reads
    BY <1>3, ElementOfSeq
  <2>2. \A x \in Reads : x.op # "inputs"
    BY DEF Reads
  <2> QED
    BY <2>1, <2>2
<1>11. /\ Len(reads) \in Nat /\ Len(runs) \in Nat
       /\ DOMAIN runs = 1..Len(runs) /\ DOMAIN ops = 1..Len(ops)
  BY <1>3, <1>8, <1>9, LenProperties
<1>12. \A j \in DOMAIN ops :
         ops[j].op = "inputs" => j - Len(reads) \in DOMAIN runs /\ ops[j] = runs[j - Len(reads)]
  BY <1>9, <1>10, <1>11
<1>13. call.kind # "empty" => Len(reads) + 1 \in DOMAIN ops /\ ops[Len(reads) + 1] = runs[1]
  BY <1>8, <1>9, <1>11
<1> QED
  BY <1>8, <1>9, <1>12, <1>13, <1>14 DEF call

\* A main stream runs its first operation, of the kind op.
LEMMA Popped ==
  ASSUME StreamTypes, NEW r \in Ranks, NEW op, Runs(r, op)
  PROVE  /\ main' = [main EXCEPT ![r] = Tail(main[r])]
         /\ main'[r] \in Seq(Op) /\ main[r] # <<>> /\ main[r][1].op = op
         /\ Running(r) = main[r][1].step /\ Running(r) \in Nat
         /\ DOMAIN main'[r] = {i \in Nat \ {0} : i + 1 \in DOMAIN main[r]}
         /\ \A i \in DOMAIN main'[r] : main'[r][i] = main[r][i + 1]
<1>1. main[r] \in Seq(Op) /\ main[r] # <<>>
  BY DEF StreamTypes, Runs
<1>2. main' = [main EXCEPT ![r] = Tail(main[r])] /\ main'[r] = Tail(main[r])
  BY DEF StreamTypes, Runs
<1>3. /\ Tail(main[r]) \in Seq(Op) /\ Head(main[r]) = main[r][1] /\ Head(main[r]) \in Op
      /\ DOMAIN Tail(main[r]) = {i \in Nat \ {0} : i + 1 \in DOMAIN main[r]}
      /\ \A i \in DOMAIN Tail(main[r]) : Tail(main[r])[i] = main[r][i + 1]
  BY <1>1
<1>4. Head(main[r]).op = op /\ Head(main[r]).step \in Nat
  BY <1>3 DEF Runs, Op
<1> QED
  BY <1>1, <1>2, <1>3, <1>4 DEF Running

-----------------------------------------------------------------------------
(* Types.                                                                  *)

LEMMA StreamTypesStep == StreamTypes /\ [Next]_vars => StreamTypes'
<1> SUFFICES ASSUME StreamTypes, [Next]_vars PROVE StreamTypes'
  OBVIOUS
<1> USE DEF StreamTypes, engineVars, rankVars, pleVars
<1>1. CASE UNCHANGED vars
  BY <1>1 DEF vars
<1>2. ASSUME NEW k \in Kinds, Schedule(k) PROVE StreamTypes'
  <2> DEFINE c == [step |-> scheduled + 1, kind |-> k]
  <2>1. c \in Call
    BY DEF Call
  <2>2. calls' = [r \in Ranks |-> Append(calls[r], c)]
    BY <1>2 DEF Schedule
  <2> HIDE DEF c
  <2>3. ASSUME NEW q \in Seq(Call) PROVE Append(q, c) \in Seq(Call) /\ Append(q, c) # <<>>
    <3> HIDE DEF StreamTypes
    <3> QED
      BY <2>1, AppendProperties
  <2>4. calls' \in [Ranks -> Seq(Call)] /\ \A r \in Ranks : calls'[r] # <<>>
    BY <2>2, <2>3
  <2>5. scheduled' \in Nat /\ UNCHANGED <<part, slots, main, pleVars>>
    BY <1>2 DEF Schedule
  <2> QED
    BY <2>4, <2>5
<1>3. ASSUME Process PROVE StreamTypes'
  BY <1>3 DEF Process
<1>4. ASSUME NEW r \in Ranks, NEW freed \in BOOLEAN, ExecuteModel(r, freed)
      PROVE  StreamTypes'
  <2>1. PICK ops \in Seq(Op) : main' = [main EXCEPT ![r] = main[r] \o ops]
    BY <1>4, Issued
  <2>2. main' \in [Ranks -> Seq(Op)]
    BY <2>1
  <2>3. \A q \in Seq(Nat) : q # <<>> =>
          Append(Tail(q), 0) \in Seq(Nat) /\ Len(Append(Tail(q), 0)) = Len(q)
    <3> SUFFICES ASSUME NEW q \in Seq(Nat), q # <<>>
                 PROVE  Append(Tail(q), 0) \in Seq(Nat) /\ Len(Append(Tail(q), 0)) = Len(q)
      OBVIOUS
    <3>1. Tail(q) \in Seq(Nat) /\ Len(Tail(q)) = Len(q) - 1 /\ Len(q) \in Nat
      BY HeadTailProperties, LenProperties
    <3> QED
      BY <3>1, AppendProperties
  <2>4. r # Last => slots[r] # <<>> /\ slots' = [slots EXCEPT ![r] = Append(Tail(slots[r]), 0)]
    <3>1. r # Last => Len(slots[r]) = Depth /\ slots[r] \in Seq(Nat)
      OBVIOUS
    <3>2. r # Last => slots[r] # <<>>
      BY <3>1, EmptySeq, PPStreamsAssumption
    <3> QED
      BY <1>4, <3>2 DEF ExecuteModel
  <2>5. /\ slots' \in [Ranks -> Seq(Nat)]
        /\ \A s \in Ranks \ {Last} : Len(slots'[s]) = Depth
    <3>1. CASE r = Last
      BY <1>4, <3>1 DEF ExecuteModel
    <3>2. CASE r # Last
      <4>1. /\ Append(Tail(slots[r]), 0) \in Seq(Nat)
            /\ Len(Append(Tail(slots[r]), 0)) = Depth
        BY <2>3, <2>4, <3>2
      <4>2. slots' = [slots EXCEPT ![r] = Append(Tail(slots[r]), 0)]
        BY <2>4, <3>2
      <4> HIDE DEF StreamTypes
      <4>3. slots \in [Ranks -> Seq(Nat)] /\ \A s \in Ranks \ {Last} : Len(slots[s]) = Depth
        BY DEF StreamTypes
      <4> QED
        BY <4>1, <4>2, <4>3
    <3> QED
      BY <3>1, <3>2
  <2>6. /\ calls[r] \in Seq(Call) /\ calls[r] # <<>> /\ Tail(calls[r]) \in Seq(Call)
    BY <1>4 DEF ExecuteModel
  <2>7. /\ calls' \in [Ranks -> Seq(Call)]
        /\ part' \in [Ranks -> {"execute", "forward", "sample"}]
        /\ \A s \in Ranks : part'[s] # "execute" => calls'[s] # <<>>
    BY <1>4, <2>6 DEF ExecuteModel
  <2> QED
    BY <1>4, <2>2, <2>5, <2>7 DEF ExecuteModel
<1>5. ASSUME NEW r \in Ranks, SampleTokens(r) PROVE StreamTypes'
  <2>1. calls[r] # <<>> /\ Head(calls[r]) \in Call /\ Tail(calls[r]) \in Seq(Call)
    BY <1>5 DEF SampleTokens
  <2>2. Head(calls[r]).step \in Nat
    BY <2>1 DEF Call
  <2>3. main' \in [Ranks -> Seq(Op)]
    <3>1. MainOp("propose", Head(calls[r]).step) \in Op
      BY <2>2 DEF MainOp, Op
    <3>2. Append(main[r], MainOp("propose", Head(calls[r]).step)) \in Seq(Op)
      BY <3>1
    <3> QED
      BY <1>5, <3>2 DEF SampleTokens
  <2>4. /\ slots' \in [Ranks -> Seq(Nat)]
        /\ \A s \in Ranks \ {Last} : Len(slots'[s]) = Depth
    <3>1. CASE slots' = slots
      BY <3>1
    <3>2. CASE slots' # slots
      <4>1. r # Last /\ slots' = [slots EXCEPT ![r][Depth] = Head(calls[r]).step]
        BY <1>5, <3>2 DEF SampleTokens
      <4>2. /\ [slots[r] EXCEPT ![Depth] = Head(calls[r]).step] \in Seq(Nat)
            /\ Len([slots[r] EXCEPT ![Depth] = Head(calls[r]).step]) = Depth
        <5>1. slots[r] \in Seq(Nat) /\ Len(slots[r]) = Depth
          BY <4>1
        <5>2. Depth \in 1..Len(slots[r])
          BY <5>1, PPStreamsAssumption
        <5> QED
          BY <2>2, <5>1, <5>2, ExceptSeq
      <4> QED
        BY <4>1, <4>2
    <3> QED
      BY <3>1, <3>2
  <2>5. /\ calls' \in [Ranks -> Seq(Call)]
        /\ part' \in [Ranks -> {"execute", "forward", "sample"}]
        /\ \A s \in Ranks : part'[s] # "execute" => calls'[s] # <<>>
    BY <1>5, <2>1 DEF SampleTokens
  <2> QED
    BY <1>5, <2>3, <2>4, <2>5 DEF SampleTokens
<1>6. ASSUME PrepareForward PROVE StreamTypes'
  <2>1. calls[1] # <<>> /\ Head(calls[1]) \in Call
    BY <1>6, FirstRank DEF PrepareForward
  <2>2. Head(calls[1]).step \in Nat \ {0}
    BY <2>1 DEF Call
  <2>3. MainOp("forward", Head(calls[1]).step) \in Op
    BY <2>2 DEF MainOp, Op
  <2>4. main' \in [Ranks -> Seq(Op)] /\ requests' \in Seq(Nat \ {0})
    BY <1>6, <2>2, <2>3, FirstRank DEF PrepareForward
  <2> QED
    BY <1>6, <2>1, <2>4, FirstRank DEF PrepareForward
<1>7. ASSUME NEW r \in Ranks, NEW op, Runs(r, op), live' \in {live, Running(r)}
      PROVE  StreamTypes'
  <2>1. main' = [main EXCEPT ![r] = Tail(main[r])] /\ Tail(main[r]) \in Seq(Op)
        /\ Running(r) \in Nat
    BY <1>7, Popped
  <2> QED
    BY <1>7, <2>1 DEF Runs
<1>8. ASSUME RunCollective PROVE StreamTypes'
  BY <1>8 DEF RunCollective
<1>9. ASSUME TakeRequest PROVE StreamTypes'
  BY <1>9 DEF TakeRequest
<1>10. ASSUME StageInputs PROVE StreamTypes'
  BY <1>10 DEF StageInputs
<1>11. ASSUME NEW r \in Ranks, RunMain(r) PROVE StreamTypes'
  BY <1>7, <1>11 DEF RunMain, PrepareInputs, Forward, WaitReceived, ApplySampled, Propose
<1> QED
  BY <1>1, <1>2, <1>3, <1>4, <1>5, <1>6, <1>8, <1>9, <1>10, <1>11 DEF Next, Work, Issue

-----------------------------------------------------------------------------
(* One request at a time.                                                  *)

Requested ==
  /\ staged => requests = <<>> /\ copying = 0
  /\ ~staged => copying # 0 \/ requests # <<>>
  /\ copying # 0 => requests = <<>>
  /\ Len(requests) <= 1

LEMMA RequestedStep == StreamTypes /\ Requested /\ [Next]_vars => Requested'
<1> SUFFICES ASSUME StreamTypes, Requested, [Next]_vars PROVE Requested'
  OBVIOUS
<1>1. CASE UNCHANGED <<staged, requests, copying>>
  BY <1>1 DEF Requested
<1>2. ASSUME PrepareForward PROVE Requested'
  <2>1. /\ staged /\ staged' = FALSE /\ copying' = copying
        /\ requests' = Append(requests, Head(calls[1]).step)
    BY <1>2 DEF PrepareForward, MayPut
  <2>2. requests = <<>> /\ copying = 0
    BY <2>1 DEF Requested
  <2>3. requests' # <<>> /\ Len(requests') = 1
    BY <2>1, <2>2
  <2> QED
    BY <2>1, <2>2, <2>3 DEF Requested
<1>3. ASSUME TakeRequest PROVE Requested'
  <2>1. /\ requests # <<>> /\ copying = 0 /\ staged' = staged
        /\ copying' = Head(requests) /\ requests' = Tail(requests)
    BY <1>3 DEF TakeRequest
  <2>2. requests \in Seq(Nat \ {0}) /\ Len(requests) = 1
    <3>1. requests \in Seq(Nat \ {0})
      BY DEF StreamTypes
    <3>2. Len(requests) \in Nat /\ Len(requests) # 0
      BY <2>1, <3>1, LenProperties, EmptySeq
    <3>3. Len(requests) <= 1
      BY DEF Requested
    <3>4. \A n \in Nat : n # 0 /\ n <= 1 => n = 1
      OBVIOUS
    <3> QED
      BY <3>1, <3>2, <3>3, <3>4, Zenon
  <2>3. copying' # 0 /\ requests' = <<>> /\ Len(requests') = 0
    BY <2>1, <2>2
  <2> QED
    BY <2>1, <2>3 DEF Requested
<1>4. ASSUME StageInputs PROVE Requested'
  BY <1>4 DEF StageInputs, Requested
<1> QED
  BY <1>1, <1>2, <1>3, <1>4
     DEF Next, Work, Issue, vars, pleVars, Schedule, Process, ExecuteModel, SampleTokens,
         RunMain, PrepareInputs, Forward, WaitReceived, ApplySampled, Propose, Runs,
         RunCollective

-----------------------------------------------------------------------------
(* The first rank's thread asks in the order of the steps.                 *)

\* The step asked for and not staged.
Asked == IF copying # 0 THEN copying ELSE Head(requests)

Ordered ==
  /\ \A i \in DOMAIN calls[1] : calls[1][i].step <= scheduled
  /\ \A i, j \in DOMAIN calls[1] : i < j => calls[1][i].step < calls[1][j].step
  /\ copied.step <= scheduled /\ (~staged => Asked <= scheduled)
  /\ \A i \in DOMAIN calls[1] : i > 1 \/ part[1] # "sample" =>
       copied.step < calls[1][i].step /\ (~staged => Asked < calls[1][i].step)
  /\ ~staged => copied.step < Asked

AskInv == StreamTypes /\ Requested /\ Ordered

LEMMA OrderedStep == AskInv /\ [Next]_vars => Ordered'
<1> SUFFICES ASSUME AskInv, [Next]_vars PROVE Ordered'
  OBVIOUS
<1>0. /\ StreamTypes /\ Requested /\ Ordered
      /\ calls[1] \in Seq(Call) /\ scheduled \in Nat /\ copied.step \in Nat
      /\ ~staged => Asked \in Nat
  <2>1. requests # <<>> => Head(requests) \in Nat
    BY HeadTailProperties DEF AskInv, StreamTypes
  <2> QED
    BY <2>1, FirstRank DEF AskInv, StreamTypes, Asked, Requested
<1>1. CASE UNCHANGED <<scheduled, calls, part, staged, requests, copying, copied>>
  BY <1>0, <1>1 DEF Ordered, Asked
<1>2. ASSUME NEW k \in Kinds, Schedule(k) PROVE Ordered'
  <2> DEFINE c == [step |-> scheduled + 1, kind |-> k]
  <2>1. /\ calls'[1] = Append(calls[1], c) /\ scheduled' = scheduled + 1
        /\ UNCHANGED <<part, staged, requests, copying, copied>>
    BY <1>2, FirstRank DEF Schedule, pleVars
  <2>2. c \in Call /\ c.step = scheduled + 1
    BY <1>0 DEF Call
  <2> HIDE DEF c
  <2>3. /\ DOMAIN calls'[1] = DOMAIN calls[1] \cup {Len(calls[1]) + 1}
        /\ \A i \in DOMAIN calls[1] : calls'[1][i] = calls[1][i] /\ i < Len(calls[1]) + 1
        /\ calls'[1][Len(calls[1]) + 1] = c
    BY <1>0, <2>1, <2>2
  <2>4. \A i \in DOMAIN calls[1] : calls[1][i].step \in Nat
    <3>1. \A i \in DOMAIN calls[1] : calls[1][i] \in Call
      BY <1>0
    <3>2. \A x \in Call : x.step \in Nat
      BY DEF Call
    <3> QED
      BY <3>1, <3>2
  <2>5. Asked' = Asked
    BY <2>1 DEF Asked
  <2> QED
    BY <1>0, <2>1, <2>2, <2>3, <2>4, <2>5 DEF Ordered
<1>3. ASSUME calls[1] # <<>>, calls'[1] = Tail(calls[1]), part'[1] = "execute",
             UNCHANGED <<scheduled, staged, requests, copying, copied>>
      PROVE  Ordered'
  <2>1. /\ \A i \in DOMAIN calls'[1] :
             i > 0 /\ i \in Nat /\ i + 1 \in DOMAIN calls[1] /\ calls'[1][i] = calls[1][i + 1]
    BY <1>0, <1>3
  <2>2. Asked' = Asked
    BY <1>3 DEF Asked
  <2> QED
    BY <1>0, <1>3, <2>1, <2>2 DEF Ordered
<1>4. ASSUME calls'[1] = calls[1], part[1] # "sample" \/ part'[1] = part[1],
             UNCHANGED <<scheduled, staged, requests, copying, copied>>
      PROVE  Ordered'
  <2>1. Asked' = Asked
    BY <1>4 DEF Asked
  <2> QED
    BY <1>0, <1>4, <2>1 DEF Ordered
<1>5. ASSUME NEW r \in Ranks, Issue(r) PROVE Ordered'
  <2>1. UNCHANGED <<scheduled, staged, requests, copying, copied>>
    BY <1>5 DEF Issue, ExecuteModel, SampleTokens, engineVars, pleVars
  <2>2. \/ calls[1] # <<>> /\ calls'[1] = Tail(calls[1]) /\ part'[1] = "execute"
        \/ calls'[1] = calls[1] /\ (part[1] # "sample" \/ part'[1] = part[1])
    <3>1. CASE r # 1
      BY <1>0, <1>5, <3>1, FirstRank DEF Issue, ExecuteModel, SampleTokens, StreamTypes
    <3>2. CASE r = 1
      BY <1>0, <1>5, <3>2, FirstRank DEF Issue, ExecuteModel, SampleTokens, StreamTypes
    <3> QED
      BY <3>1, <3>2
  <2> QED
    BY <1>3, <1>4, <2>1, <2>2
<1>6. ASSUME PrepareForward PROVE Ordered'
  <2>1. /\ staged /\ staged' = FALSE /\ part[1] = "forward" /\ part'[1] = "sample"
        /\ requests' = Append(requests, Head(calls[1]).step)
        /\ UNCHANGED <<calls, scheduled, copying, copied>>
    BY <1>0, <1>6, FirstRank DEF PrepareForward, MayPut, engineVars, StreamTypes
  <2>2. /\ requests = <<>> /\ copying = 0
        /\ calls[1] # <<>> /\ 1 \in DOMAIN calls[1] /\ Head(calls[1]) = calls[1][1]
    BY <1>0, <2>1, FirstRank DEF Requested, StreamTypes
  <2>3. Asked' = calls[1][1].step
    BY <2>1, <2>2 DEF Asked
  <2> QED
    BY <1>0, <2>1, <2>2, <2>3 DEF Ordered
<1>7. ASSUME TakeRequest PROVE Ordered'
  <2>1. /\ requests # <<>> /\ copying = 0 /\ copying' = Head(requests)
        /\ UNCHANGED <<scheduled, calls, part, staged, copied>>
    BY <1>7 DEF TakeRequest, engineVars, rankVars
  <2>2. Head(requests) # 0
    BY <1>0, <2>1 DEF StreamTypes
  <2>3. Asked' = Asked
    BY <2>1, <2>2 DEF Asked
  <2> QED
    BY <1>0, <2>1, <2>3 DEF Ordered
<1>8. ASSUME StageInputs PROVE Ordered'
  <2>1. /\ copying # 0 /\ staged' = TRUE /\ copied'.step = copying
        /\ UNCHANGED <<scheduled, calls, part>>
    BY <1>8 DEF StageInputs, engineVars, rankVars
  <2>2. ~staged /\ Asked = copying
    BY <1>0, <2>1 DEF Requested, Asked
  <2> QED
    BY <1>0, <2>1, <2>2 DEF Ordered
<1> QED
  BY <1>1, <1>2, <1>5, <1>6, <1>7, <1>8
     DEF Next, Work, vars, engineVars, rankVars, pleVars, Process, RunMain, PrepareInputs,
         Forward, WaitReceived, ApplySampled, Propose, Runs, RunCollective

-----------------------------------------------------------------------------
(* The live buffers of the first rank and the operations that fill them.   *)

\* After the first n operations of q the buffers that hold l hold step t.
Filled(q, n, l, t) ==
  /\ \A i \in DOMAIN q : i <= n /\ q[i].op = "inputs" => q[i].step = t
  /\ (\A i \in DOMAIN q : i <= n => q[i].op # "inputs") => l = t

\* The operations of q after the n-th that fill the buffers.
Later(q, n) == {i \in DOMAIN q : i > n /\ q[i].op = "inputs"}

\* The step the first rank's thread is issuing.
Current == Head(calls[1]).step

\* Between the buffers and the forward pass of the step asked for there are
\* the inputs of no other step, and after it only those of the current one.
Windows ==
  /\ part[1] = "forward" \/ ~staged => Ple
  /\ Ple /\ staged =>
       IF part[1] = "forward" THEN Filled(main[1], Len(main[1]), live, Current)
       ELSE Later(main[1], 0) = {}
  /\ Ple /\ ~staged => \E p \in DOMAIN main[1] :
       /\ main[1][p] = MainOp("forward", Asked)
       /\ Filled(main[1], p, live, Asked)
       /\ IF part[1] = "forward"
          THEN /\ Later(main[1], p) # {}
               /\ \A i \in Later(main[1], p) : main[1][i].step = Current
          ELSE Later(main[1], p) = {}

LEMMA PoppedFilled ==
  ASSUME NEW q \in Seq(Op), q # <<>>, NEW n \in Nat, n >= 1, NEW l, NEW t,
         Filled(q, n, l, t)
  PROVE  Filled(Tail(q), n - 1, IF q[1].op = "inputs" THEN q[1].step ELSE l, t)
<1>1. /\ 1 \in DOMAIN q
      /\ \A i \in DOMAIN Tail(q) :
           i \in Nat /\ i + 1 \in DOMAIN q /\ Tail(q)[i] = q[i + 1]
      /\ \A i \in DOMAIN q : i \in Nat /\ (i = 1 \/ i - 1 \in DOMAIN Tail(q))
  OBVIOUS
<1>2. \A i \in DOMAIN Tail(q) :
        i <= n - 1 /\ Tail(q)[i].op = "inputs" => Tail(q)[i].step = t
  BY <1>1 DEF Filled
<1>3. ASSUME \A i \in DOMAIN Tail(q) : i <= n - 1 => Tail(q)[i].op # "inputs",
             q[1].op # "inputs"
      PROVE  l = t
  <2>1. \A i \in DOMAIN q : i <= n => q[i].op # "inputs"
    <3> TAKE i \in DOMAIN q
    <3>1. i = 1 \/ (i - 1 \in DOMAIN Tail(q) /\ i \in Nat)
      BY <1>1
    <3>2. i - 1 \in DOMAIN Tail(q) /\ i \in Nat => Tail(q)[i - 1] = q[i]
      BY <1>1
    <3> QED
      BY <1>3, <3>1, <3>2
  <2> QED
    BY <2>1 DEF Filled
<1>4. q[1].op = "inputs" => q[1].step = t
  BY <1>1 DEF Filled
<1> QED
  BY <1>2, <1>3, <1>4 DEF Filled

LEMMA PoppedLater ==
  ASSUME NEW q \in Seq(Op), q # <<>>, NEW n \in Nat, n >= 1
  PROVE  /\ \A i \in Later(q, n) : i - 1 \in Later(Tail(q), n - 1)
         /\ \A i \in Later(Tail(q), n - 1) :
              i + 1 \in Later(q, n) /\ Tail(q)[i] = q[i + 1]
<1>1. /\ \A i \in DOMAIN Tail(q) :
           i \in Nat /\ i + 1 \in DOMAIN q /\ Tail(q)[i] = q[i + 1]
      /\ \A i \in DOMAIN q : i \in Nat /\ (i = 1 \/ i - 1 \in DOMAIN Tail(q))
  OBVIOUS
<1> QED
  BY <1>1 DEF Later

\* An operation of the first rank runs that is not the forward pass of the
\* step asked for.
LEMMA WindowsPopped ==
  ASSUME StreamTypes, Windows, NEW op, Runs(1, op),
         ~staged => main[1][1] # MainOp("forward", Asked),
         live' = IF op = "inputs" THEN Running(1) ELSE live
  PROVE  Windows'
<1> DEFINE q == main[1]
           l == IF q[1].op = "inputs" THEN q[1].step ELSE live
<1>1. q \in Seq(Op) /\ q # <<>> /\ main'[1] = Tail(q) /\ live' = l
  <2>1. main \in [Ranks -> Seq(Op)]
    BY DEF StreamTypes
  <2> QED
    BY <2>1, Popped, FirstRank
<1>2. UNCHANGED <<calls, part, staged, requests, copying>>
  BY DEF Runs
<1>3. Asked' = Asked /\ Current' = Current
  BY <1>2 DEF Asked, Current
<1>4. /\ Len(q) \in Nat /\ Len(q) >= 1 /\ Len(Tail(q)) = Len(q) - 1
      /\ DOMAIN q = 1..Len(q) /\ Tail(q) \in Seq(Op) /\ DOMAIN Tail(q) = 1..(Len(q) - 1)
      /\ \A i \in DOMAIN Tail(q) : Tail(q)[i] = q[i + 1]
  BY <1>1
<1> HIDE DEF q, l
<1>5. (part[1] = "forward" \/ ~staged => Ple)'
  BY <1>2 DEF Windows
<1>6. CASE Ple /\ staged
  <2>1. CASE part[1] = "forward"
    <3>1. Filled(q, Len(q), live, Current)
      BY <1>6, <2>1 DEF Windows, q
    <3>2. Filled(Tail(q), Len(Tail(q)), l, Current)
      BY <1>1, <1>4, <3>1, PoppedFilled DEF l
    <3> QED
      BY <1>1, <1>2, <1>3, <1>6, <2>1, <3>2 DEF Windows
  <2>2. CASE part[1] # "forward"
    <3>1. Later(q, 0) = {}
      BY <1>6, <2>2 DEF Windows, q
    <3>2. Later(Tail(q), 0) = {}
      BY <1>4, <3>1 DEF Later
    <3> QED
      BY <1>1, <1>2, <1>6, <2>2, <3>2 DEF Windows
  <2> QED
    BY <2>1, <2>2
<1>7. CASE Ple /\ ~staged
  <2>1. PICK p \in DOMAIN q :
          /\ q[p] = MainOp("forward", Asked)
          /\ Filled(q, p, live, Asked)
          /\ IF part[1] = "forward"
             THEN /\ Later(q, p) # {}
                  /\ \A i \in Later(q, p) : q[i].step = Current
             ELSE Later(q, p) = {}
    BY <1>7 DEF Windows, q
  <2>2. p \in Nat /\ p >= 1 /\ p # 1
    BY <1>4, <1>7, <2>1 DEF q
  <2>3. p - 1 \in DOMAIN Tail(q) /\ Tail(q)[p - 1] = MainOp("forward", Asked)
    <3>1. p - 1 \in DOMAIN Tail(q)
      BY <1>4, <2>2
    <3>2. Tail(q)[p - 1] = q[(p - 1) + 1] /\ (p - 1) + 1 = p
      BY <1>4, <2>2, <3>1
    <3> QED
      BY <2>1, <3>1, <3>2
  <2>4. Filled(Tail(q), p - 1, l, Asked)
    BY <1>1, <2>1, <2>2, PoppedFilled DEF l
  <2>5. IF part[1] = "forward"
        THEN /\ Later(Tail(q), p - 1) # {}
             /\ \A i \in Later(Tail(q), p - 1) : Tail(q)[i].step = Current
        ELSE Later(Tail(q), p - 1) = {}
    <3>1. /\ \A i \in Later(q, p) : i - 1 \in Later(Tail(q), p - 1)
          /\ \A i \in Later(Tail(q), p - 1) :
               i + 1 \in Later(q, p) /\ Tail(q)[i] = q[i + 1]
      BY <1>1, <2>2, PoppedLater
    <3> QED
      BY <2>1, <3>1
  <2> QED
    BY <1>1, <1>2, <1>3, <1>5, <1>7, <2>3, <2>4, <2>5 DEF Windows
<1> QED
  BY <1>2, <1>5, <1>6, <1>7 DEF Windows

\* Operations are put behind those of the first rank's main stream.
LEMMA Behind ==
  ASSUME NEW q \in Seq(Op), NEW ops \in Seq(Op), NEW n \in 0..Len(q)
  PROVE  /\ q \o ops \in Seq(Op) /\ DOMAIN q \subseteq DOMAIN (q \o ops)
         /\ \A i \in DOMAIN q : (q \o ops)[i] = q[i]
         /\ \A i \in Later(q \o ops, n) :
              \/ i \in Later(q, n) /\ (q \o ops)[i] = q[i]
              \/ \E j \in DOMAIN ops : ops[j].op = "inputs" /\ (q \o ops)[i] = ops[j]
         /\ \A j \in DOMAIN ops : ops[j].op = "inputs" => Later(q \o ops, n) # {}
         /\ \A l, t : Filled(q, n, l, t) => Filled(q \o ops, n, l, t)
<1> DEFINE w == q \o ops
<1>1. /\ w \in Seq(Op) /\ DOMAIN q = 1..Len(q) /\ DOMAIN ops = 1..Len(ops)
      /\ DOMAIN w = 1..(Len(q) + Len(ops)) /\ Len(q) \in Nat /\ Len(ops) \in Nat
      /\ \A i \in 1..(Len(q) + Len(ops)) :
           w[i] = IF i <= Len(q) THEN q[i] ELSE ops[i - Len(q)]
  BY ConcatProperties, LenProperties
<1> HIDE DEF w
<1>2. \A i \in DOMAIN q : i \in DOMAIN w /\ w[i] = q[i]
  BY <1>1
<1>3. \A i \in Later(w, n) :
        \/ i \in Later(q, n) /\ w[i] = q[i]
        \/ \E j \in DOMAIN ops : ops[j].op = "inputs" /\ w[i] = ops[j]
  <2> TAKE i \in Later(w, n)
  <2>1. i \in DOMAIN w /\ i > n /\ w[i].op = "inputs"
    BY DEF Later
  <2>2. CASE i <= Len(q)
    BY <1>1, <2>1, <2>2 DEF Later
  <2>3. CASE ~(i <= Len(q))
    <3>1. i - Len(q) \in DOMAIN ops /\ w[i] = ops[i - Len(q)]
      BY <1>1, <2>1, <2>3
    <3> QED
      BY <2>1, <3>1
  <2> QED
    BY <2>2, <2>3
<1>4. ASSUME NEW j \in DOMAIN ops, ops[j].op = "inputs" PROVE Later(w, n) # {}
  <2>1. Len(q) + j \in DOMAIN w /\ w[Len(q) + j] = ops[j] /\ Len(q) + j > n
    BY <1>1
  <2> QED
    BY <1>4, <2>1 DEF Later
<1>5. ASSUME NEW l, NEW t, Filled(q, n, l, t) PROVE Filled(w, n, l, t)
  <2>1. \A i \in DOMAIN w : i <= n => i \in DOMAIN q /\ w[i] = q[i]
    BY <1>1
  <2> QED
    BY <1>2, <1>5, <2>1 DEF Filled
<1> QED
  BY <1>1, <1>2, <1>3, <1>4, <1>5 DEF w

LEMMA WindowsInit == Init => Windows
BY FirstRank, PPStreamsAssumption DEF Init, Windows, Later, Ranks

\* Without a new operation of the first rank's main stream, and in the same
\* window, nothing changes.
LEMMA WindowsSame ==
  ASSUME Windows, UNCHANGED <<live, staged, requests, copying>>, main'[1] = main[1],
         part'[1] = "forward" <=> part[1] = "forward",
         part[1] = "forward" => Current' = Current
  PROVE  Windows'
<1>1. Asked' = Asked
  BY DEF Asked
<1> QED
  BY <1>1 DEF Windows

\* execute_model of the first rank opens the window of its step.
LEMMA WindowsExecute ==
  ASSUME StreamTypes, Windows, NEW freed \in BOOLEAN, ExecuteModel(1, freed)
  PROVE  Windows'
<1> DEFINE q == main[1]
<1>1. PICK ops \in Seq(Op) :
        /\ main' = [main EXCEPT ![1] = q \o ops]
        /\ \A j \in DOMAIN ops : ops[j].op = "inputs" => ops[j].step = Current
        /\ Head(calls[1]).kind # "empty" => \E j \in DOMAIN ops : ops[j].op = "inputs"
        /\ Head(calls[1]).kind = "empty" => \A j \in DOMAIN ops : ops[j].op # "inputs"
  BY FirstRank, Issued DEF Current
<1>2. q \in Seq(Op) /\ Len(q) \in Nat /\ DOMAIN q = 1..Len(q) /\ main'[1] = q \o ops
  <2>1. main \in [Ranks -> Seq(Op)] /\ 1 \in Ranks
    BY FirstRank DEF StreamTypes
  <2>2. q \in Seq(Op) /\ main'[1] = q \o ops
    BY <1>1, <2>1
  <2> HIDE DEF q
  <2> QED
    BY <2>2, LenProperties
<1>3. /\ part[1] = "execute" /\ UNCHANGED <<live, staged, requests, copying>>
      /\ part \in [Ranks -> {"execute", "forward", "sample"}]
  BY DEF ExecuteModel, pleVars, StreamTypes
<1>4. Asked' = Asked
  BY <1>3 DEF Asked
<1>5. /\ Head(calls[1]).kind = "empty" => part' = part
      /\ Head(calls[1]).kind # "empty" =>
           /\ calls' = calls
           /\ part'[1] = IF Ple THEN "forward" ELSE "sample"
  BY <1>3, FirstRank DEF ExecuteModel, HasPle
<1> HIDE DEF q
<1>6. (part[1] = "forward" \/ ~staged => Ple)'
  BY <1>3, <1>5 DEF Windows
<1>7. ASSUME NEW n \in 0..Len(q), Later(q, n) = {}, Head(calls[1]).kind # "empty"
      PROVE  /\ Later(q \o ops, n) # {}
             /\ \A i \in Later(q \o ops, n) : (q \o ops)[i].step = Current
  <2>1. /\ \A i \in Later(q \o ops, n) :
             \/ i \in Later(q, n) /\ (q \o ops)[i] = q[i]
             \/ \E j \in DOMAIN ops : ops[j].op = "inputs" /\ (q \o ops)[i] = ops[j]
        /\ \A j \in DOMAIN ops : ops[j].op = "inputs" => Later(q \o ops, n) # {}
    BY <1>2, Behind
  <2>2. /\ \A j \in DOMAIN ops : ops[j].op = "inputs" => ops[j].step = Current
        /\ \E j \in DOMAIN ops : ops[j].op = "inputs"
    BY <1>1, <1>7
  <2> QED
    BY <1>7, <2>1, <2>2, Zenon
<1>8. ASSUME NEW n \in 0..Len(q), Later(q, n) = {}, Head(calls[1]).kind = "empty"
       PROVE  Later(q \o ops, n) = {}
  <2>1. \A i \in Later(q \o ops, n) :
          \/ i \in Later(q, n) /\ (q \o ops)[i] = q[i]
          \/ \E j \in DOMAIN ops : ops[j].op = "inputs" /\ (q \o ops)[i] = ops[j]
    BY <1>2, Behind
  <2>2. \A j \in DOMAIN ops : ops[j].op # "inputs"
    BY <1>1, <1>8
  <2> QED
    BY <1>8, <2>1, <2>2, Zenon
<1>9. CASE Ple /\ staged
  <2>1. Later(q, 0) = {} /\ \A i \in DOMAIN q : q[i].op # "inputs"
    BY <1>2, <1>3, <1>9 DEF Windows, Later, q
  <2>2. CASE Head(calls[1]).kind = "empty"
    <3>1. Later(q \o ops, 0) = {}
      <4>1. 0 \in 0..Len(q)
        BY <1>2
      <4> QED
        BY <1>8, <2>1, <2>2, <4>1, Zenon
    <3> QED
      BY <1>2, <1>3, <1>5, <1>6, <1>9, <2>2, <3>1 DEF Windows
  <2>3. CASE Head(calls[1]).kind # "empty"
    <3>1. /\ Later(q \o ops, 0) # {}
          /\ \A i \in Later(q \o ops, 0) : (q \o ops)[i].step = Current
      <4>1. 0 \in 0..Len(q)
        BY <1>2
      <4> QED
        BY <1>7, <2>1, <2>3, <4>1, Zenon
    <3>2. \A i \in DOMAIN (q \o ops) : i > 0 /\ i <= Len(q \o ops)
      BY <1>2, ConcatProperties, LenProperties
    <3>3. Filled(q \o ops, Len(q \o ops), live, Current)
      BY <3>1, <3>2 DEF Filled, Later
    <3>4. part'[1] = "forward" /\ Current' = Current
      BY <1>5, <1>9, <2>3 DEF Current
    <3> QED
      BY <1>2, <1>3, <1>6, <1>9, <3>3, <3>4 DEF Windows
  <2> QED
    BY <2>2, <2>3
<1>10. CASE Ple /\ ~staged
  <2>1. PICK p \in DOMAIN q :
          /\ q[p] = MainOp("forward", Asked)
          /\ Filled(q, p, live, Asked)
          /\ Later(q, p) = {}
    BY <1>3, <1>10 DEF Windows, q
  <2>2. p \in 0..Len(q)
    BY <1>2
  <2>3. /\ p \in DOMAIN (q \o ops) /\ (q \o ops)[p] = MainOp("forward", Asked)
        /\ Filled(q \o ops, p, live, Asked)
    BY <1>2, <2>1, <2>2, Behind
  <2>4. CASE Head(calls[1]).kind = "empty"
    <3>1. Later(q \o ops, p) = {}
      BY <1>8, <2>1, <2>2, <2>4, Zenon
    <3> QED
      BY <1>2, <1>3, <1>4, <1>5, <1>6, <1>10, <2>3, <2>4, <3>1 DEF Windows
  <2>5. CASE Head(calls[1]).kind # "empty"
    <3>1. /\ Later(q \o ops, p) # {}
          /\ \A i \in Later(q \o ops, p) : (q \o ops)[i].step = Current
      BY <1>7, <2>1, <2>2, <2>5, Zenon
    <3>2. part'[1] = "forward" /\ Current' = Current
      BY <1>5, <1>10, <2>5 DEF Current
    <3> QED
      BY <1>2, <1>3, <1>4, <1>6, <1>10, <2>3, <3>1, <3>2 DEF Windows
  <2> QED
    BY <2>4, <2>5
<1> QED
  BY <1>3, <1>6, <1>9, <1>10 DEF Windows

\* prepare_forward, with the first rank's buffers.
LEMMA WindowsPrepare ==
  ASSUME StreamTypes, Requested, Windows, PrepareForward
  PROVE  Windows'
<1> DEFINE q == main[1]
           x == MainOp("forward", Current)
<1>1. /\ staged /\ staged' = FALSE /\ part[1] = "forward" /\ part'[1] = "sample"
      /\ main'[1] = Append(q, x) /\ requests' = Append(requests, Current)
      /\ UNCHANGED <<live, copying>>
  BY FirstRank DEF PrepareForward, MayPut, StreamTypes, Current
<1>2. requests = <<>> /\ copying = 0
  BY <1>1 DEF Requested
<1>3. Asked' = Current
  BY <1>1, <1>2 DEF Asked
<1>4. Ple /\ Filled(q, Len(q), live, Current)
  BY <1>1 DEF Windows
<1>5. Current \in Nat
  <2>1. calls[1] # <<>> /\ calls[1] \in Seq(Call)
    BY <1>1, FirstRank DEF StreamTypes
  <2>2. Head(calls[1]) \in Call
    BY <2>1
  <2> QED
    BY <2>2 DEF Current, Call
<1>6. q \in Seq(Op) /\ x \in Op /\ x.op = "forward"
  BY <1>5, FirstRank DEF StreamTypes, MainOp, Op
<1> DEFINE w == Append(q, x)
           p == Len(q) + 1
<1> HIDE DEF x, q
<1>7. /\ p \in DOMAIN w /\ w[p] = x
      /\ \A i \in DOMAIN w : i \in Nat /\ i <= p /\ (i = p \/ (i \in DOMAIN q /\ w[i] = q[i]))
      /\ \A i \in DOMAIN q : i \in DOMAIN w /\ i <= p /\ i <= Len(q) /\ w[i] = q[i]
  <2>1. /\ Len(q) \in Nat /\ DOMAIN q = 1..Len(q)
        /\ DOMAIN w = 1..(Len(q) + 1)
        /\ \A i \in 1..Len(q) : w[i] = q[i]
        /\ w[Len(q) + 1] = x
    BY <1>6, AppendProperties, LenProperties
  <2> HIDE DEF w
  <2> QED
    BY <2>1
<1> HIDE DEF w, p
<1>8. Later(w, p) = {}
  <2>1. \A i \in DOMAIN w : ~(i > p)
    <3> TAKE i \in DOMAIN w
    <3>1. p \in Nat /\ i \in Nat /\ i <= p
      BY <1>7
    <3> QED
      BY <3>1
  <2> QED
    BY <2>1 DEF Later
<1>9. Filled(w, p, live, Current)
  <2>1. \A i \in DOMAIN w : w[i].op = "inputs" => i \in DOMAIN q /\ i <= Len(q) /\ w[i] = q[i]
    BY <1>6, <1>7
  <2>2. \A i \in DOMAIN q : i \in DOMAIN w /\ i <= p /\ w[i] = q[i]
    BY <1>7
  <2> QED
    BY <1>4, <2>1, <2>2, Zenon DEF Filled
<1>10. main'[1] = w /\ w[p] = MainOp("forward", Asked')
  BY <1>1, <1>3, <1>7, Zenon DEF w, x
<1> QED
  BY <1>1, <1>3, <1>4, <1>7, <1>8, <1>9, <1>10 DEF Windows

\* The embeddings of the step asked for have not come: its forward pass waits.
LEMMA WindowsRun ==
  ASSUME AskInv, Windows, NEW r \in Ranks, RunMain(r)
  PROVE  Windows'
<1>1. CASE r # 1
  <2>1. /\ main'[1] = main[1]
        /\ UNCHANGED <<live, calls, part, staged, requests, copying>>
    <3>1. PICK op : Runs(r, op) /\ (live' = live \/ r = 1)
      BY <1>1 DEF RunMain, PrepareInputs, Forward, WaitReceived, ApplySampled, Propose
    <3>2. main' = [main EXCEPT ![r] = Tail(main[r])] /\ main \in [Ranks -> Seq(Op)]
      BY <3>1 DEF Runs, AskInv, StreamTypes
    <3> QED
      BY <1>1, <3>1, <3>2, FirstRank DEF Runs
  <2>2. Current' = Current
    BY <2>1 DEF Current
  <2> QED
    BY <2>1, <2>2, WindowsSame
<1>2. CASE r = 1
  <2>1. PICK op : /\ Runs(1, op)
                  /\ live' = IF op = "inputs" THEN Running(1) ELSE live
                  /\ op = "forward" => Fed(1, Running(1))
    BY <1>2 DEF RunMain, PrepareInputs, Forward, WaitReceived, ApplySampled, Propose
  <2>2. main[1][1].op = op /\ Running(1) = main[1][1].step
    BY <2>1, FirstRank, Popped DEF AskInv
  <2>3. ASSUME ~staged, main[1][1] = MainOp("forward", Asked) PROVE FALSE
    <3>1. op = "forward" /\ Running(1) = Asked
      BY <2>2, <2>3 DEF MainOp
    <3>2. copied.step = Asked
      BY <2>1, <2>3, <3>1 DEF Fed, HasPle, Windows
    <3>3. copied.step < Asked /\ copied.step \in Nat
      BY <2>3 DEF AskInv, Ordered, StreamTypes
    <3> QED
      BY <3>2, <3>3
  <2> QED
    BY <2>1, <2>3, WindowsPopped DEF AskInv
<1> QED
  BY <1>1, <1>2

LEMMA WindowsStep == AskInv /\ Windows /\ [Next]_vars => Windows'
<1> SUFFICES ASSUME AskInv, Windows, [Next]_vars PROVE Windows'
  OBVIOUS
<1>0. StreamTypes /\ Requested
  BY DEF AskInv
<1>1. CASE UNCHANGED <<calls, part, main, live, staged, requests, copying>>
  <2>1. Current' = Current
    BY <1>1 DEF Current
  <2> QED
    BY <1>1, <2>1, WindowsSame
<1>2. ASSUME NEW k \in Kinds, Schedule(k) PROVE Windows'
  <2>1. UNCHANGED <<live, staged, requests, copying, main, part>>
    BY <1>2 DEF Schedule, pleVars
  <2>2. part[1] = "forward" => Current' = Current
    <3>1. SUFFICES ASSUME part[1] = "forward" PROVE Current' = Current
      OBVIOUS
    <3>2. calls[1] # <<>> /\ calls[1] \in Seq(Call)
      BY <3>1, FirstRank DEF AskInv, StreamTypes
    <3> DEFINE c == [step |-> scheduled + 1, kind |-> k]
    <3>3. c \in Call
      BY DEF AskInv, StreamTypes, Call
    <3>4. calls'[1] = Append(calls[1], c)
      BY <1>2, FirstRank DEF Schedule
    <3> HIDE DEF c
    <3>5. Head(Append(calls[1], c)) = Head(calls[1])
      BY <3>2, <3>3
    <3> QED
      BY <3>4, <3>5 DEF Current
  <2> QED
    BY <2>1, <2>2, WindowsSame
<1>3. ASSUME NEW r \in Ranks, NEW freed \in BOOLEAN, ExecuteModel(r, freed) PROVE Windows'
  <2>1. CASE r = 1
    BY <1>3, <2>1, WindowsExecute DEF AskInv
  <2>2. CASE r # 1
    <3>1. /\ UNCHANGED <<live, staged, requests, copying>>
          /\ main'[1] = main[1] /\ part'[1] = part[1] /\ calls'[1] = calls[1]
      BY <1>3, <2>2, FirstRank DEF ExecuteModel, pleVars, AskInv, StreamTypes
    <3>2. Current' = Current
      BY <3>1 DEF Current
    <3> QED
      BY <3>1, <3>2, WindowsSame
  <2> QED
    BY <2>1, <2>2
<1>4. ASSUME NEW r \in Ranks, SampleTokens(r) PROVE Windows'
  <2>1. UNCHANGED <<live, staged, requests, copying>> /\ main'[1] = main[1]
    BY <1>4, FirstRank DEF SampleTokens, pleVars, AskInv, StreamTypes
  <2>2. CASE r = 1
    <3>1. part[1] # "forward" /\ part'[1] # "forward"
      BY <1>4, <2>2, FirstRank DEF SampleTokens, AskInv, StreamTypes
    <3> QED
      BY <2>1, <3>1, WindowsSame
  <2>3. CASE r # 1
    <3>1. part'[1] = part[1] /\ calls'[1] = calls[1]
      BY <1>4, <2>3, FirstRank DEF SampleTokens, AskInv, StreamTypes
    <3>2. Current' = Current
      BY <3>1 DEF Current
    <3> QED
      BY <2>1, <3>1, <3>2, WindowsSame
  <2> QED
    BY <2>2, <2>3
<1>5. ASSUME TakeRequest PROVE Windows'
  <2>1. /\ requests # <<>> /\ copying = 0 /\ copying' = Head(requests)
        /\ UNCHANGED <<calls, part, main, live, staged>>
        /\ requests \in Seq(Nat \ {0})
    BY <1>5 DEF TakeRequest, rankVars, AskInv, StreamTypes
  <2>2. Head(requests) # 0
    BY <2>1
  <2>3. Asked' = Asked /\ Current' = Current
    BY <2>1, <2>2 DEF Asked, Current
  <2> QED
    BY <2>1, <2>3 DEF Windows
<1>6. ASSUME StageInputs PROVE Windows'
  <2>1. /\ copying # 0 /\ staged' = TRUE
        /\ \A i \in DOMAIN main[1] : main[1][i] # MainOp("inputs", copying)
        /\ UNCHANGED <<calls, part, main, live>>
    BY <1>6 DEF StageInputs, rankVars
  <2>2. ~staged /\ Asked = copying
    BY <2>1 DEF AskInv, Requested, Asked
  <2>3. Ple
    BY <2>2 DEF Windows
  <2> DEFINE q == main[1]
  <2>4. PICK p \in DOMAIN q :
          /\ q[p] = MainOp("forward", Asked)
          /\ Filled(q, p, live, Asked)
          /\ IF part[1] = "forward"
             THEN /\ Later(q, p) # {}
                  /\ \A i \in Later(q, p) : q[i].step = Current
             ELSE Later(q, p) = {}
    BY <2>2, <2>3 DEF Windows
  <2>5. q \in Seq(Op) /\ DOMAIN q = 1..Len(q) /\ Len(q) \in Nat
    BY FirstRank DEF AskInv, StreamTypes
  <2> HIDE DEF q
  <2>6. \A i \in DOMAIN q : q[i].op = "inputs" => i \in Later(q, p)
    <3> SUFFICES ASSUME NEW i \in DOMAIN q, q[i].op = "inputs", ~(i > p) PROVE FALSE
      BY DEF Later
    <3>1. q[i].step = Asked
      BY <2>4, <2>5 DEF Filled
    <3>2. q[i] = MainOp("inputs", Asked)
      <4>1. q[i] \in Op
        BY <2>5
      <4>2. \A x \in Op : x = MainOp(x.op, x.step)
        BY DEF Op, MainOp
      <4>3. q[i] = MainOp(q[i].op, q[i].step)
        BY <4>1, <4>2, Zenon
      <4> QED
        BY <3>1, <4>3, Zenon
    <3> QED
      BY <2>1, <2>2, <3>2 DEF q
  <2>7. Current' = Current
    BY <2>1 DEF Current
  <2>8. CASE part[1] = "forward"
    <3>1. \A i \in DOMAIN q : q[i].op = "inputs" => q[i].step = Current
      BY <2>4, <2>6, <2>8
    <3>2. \E i \in DOMAIN q : q[i].op = "inputs" /\ i <= Len(q)
      BY <2>4, <2>5, <2>8 DEF Later
    <3>3. Filled(q, Len(q), live, Current)
      BY <3>1, <3>2 DEF Filled
    <3> QED
      BY <2>1, <2>3, <2>7, <2>8, <3>3 DEF Windows, q
  <2>9. CASE part[1] # "forward"
    <3>1. Later(q, 0) = {}
      BY <2>4, <2>6, <2>9 DEF Later
    <3> QED
      BY <2>1, <2>3, <2>9, <3>1 DEF Windows, q
  <2> QED
    BY <2>8, <2>9
<1>7. ASSUME PrepareForward PROVE Windows'
  BY <1>0, <1>7, WindowsPrepare
<1>8. ASSUME NEW r \in Ranks, RunMain(r) PROVE Windows'
  BY <1>8, WindowsRun
<1>9. CASE Process \/ RunCollective \/ UNCHANGED vars
  BY <1>1, <1>9 DEF Process, RunCollective, vars, rankVars, pleVars
<1> QED
  BY <1>2, <1>3, <1>4, <1>5, <1>6, <1>7, <1>8, <1>9 DEF Next, Work, Issue

-----------------------------------------------------------------------------
(***************************************************************************)
(* At most one step has been asked for and not staged, so the put of       *)
(* prepare_forward finds the queue of one place empty (patch_p0.py:391).   *)
(***************************************************************************)
THEOREM OneRequest == Spec => []QueueRoom
<1>1. Init => StreamTypes /\ Requested
  BY StreamTypesInit DEF Init, Requested
<1>2. StreamTypes /\ Requested /\ [Next]_vars => StreamTypes' /\ Requested'
  BY StreamTypesStep, RequestedStep
<1>3. StreamTypes /\ Requested => QueueRoom
  BY DEF Requested, QueueRoom
<1> QED
  BY <1>1, <1>2, <1>3, PTL DEF Spec

\* What StageInputs copies, it copies before another step fills the buffers.
LEMMA StagedStep == AskInv /\ Windows /\ StagedOwn /\ [Next]_vars => StagedOwn'
<1> SUFFICES ASSUME AskInv, Windows, StagedOwn, [Next]_vars PROVE StagedOwn'
  OBVIOUS
<1>1. CASE UNCHANGED copied
  BY <1>1 DEF StagedOwn
<1>2. CASE StageInputs
  <2>1. /\ copying # 0
        /\ \A i \in DOMAIN main[1] : main[1][i] # MainOp("inputs", copying)
        /\ copied' = [step |-> copying, inputs |-> live]
    BY <1>2 DEF StageInputs
  <2>2. ~staged /\ Asked = copying
    BY <2>1 DEF AskInv, Requested, Asked
  <2>3. Ple
    BY <2>2 DEF Windows
  <2> DEFINE q == main[1]
  <2>4. PICK p \in DOMAIN q : Filled(q, p, live, Asked)
    BY <2>2, <2>3 DEF Windows
  <2>5. q \in Seq(Op)
    BY FirstRank DEF AskInv, StreamTypes
  <2>6. ASSUME NEW i \in DOMAIN q, i <= p, q[i].op = "inputs" PROVE FALSE
    <3>1. q[i].step = Asked
      BY <2>4, <2>6 DEF Filled
    <3>2. q[i] \in Op
      BY <2>5
    <3>3. \A x \in Op : x = MainOp(x.op, x.step)
      BY DEF Op, MainOp
    <3>4. q[i] = MainOp("inputs", Asked)
      BY <2>6, <3>1, <3>2, <3>3, Zenon
    <3> QED
      BY <2>1, <2>2, <3>4
  <2>7. live = Asked
    BY <2>4, <2>6 DEF Filled
  <2> QED
    BY <2>1, <2>2, <2>7 DEF StagedOwn
<1> QED
  BY <1>1, <1>2
     DEF Next, Work, vars, engineVars, rankVars, pleVars, Schedule, Process, Issue,
         ExecuteModel, SampleTokens, RunMain, PrepareInputs, Forward, WaitReceived,
         ApplySampled, Propose, Runs, PrepareForward, RunCollective, TakeRequest

(***************************************************************************)
(* The inputs the request thread copies for a step are those of that step, *)
(* though the buffers it reads are refilled for the next ones              *)
(* (patch_p0.py:388-394).                                                  *)
(***************************************************************************)
THEOREM StagesOwnInputs == Spec => []StagedOwn
<1>1. Init => AskInv /\ Windows /\ StagedOwn
  <2>1. ASSUME Init PROVE Requested /\ Ordered /\ StagedOwn
    BY <2>1, FirstRank DEF Init, Requested, Ordered, StagedOwn
  <2> QED
    BY <2>1, StreamTypesInit, WindowsInit DEF AskInv
<1>2. AskInv /\ Windows /\ StagedOwn /\ [Next]_vars => AskInv' /\ Windows' /\ StagedOwn'
  BY StreamTypesStep, RequestedStep, OrderedStep, WindowsStep, StagedStep DEF AskInv
<1> QED
  BY <1>1, <1>2, PTL DEF Spec

-----------------------------------------------------------------------------
(* The collectives: every rank issues those of the same steps, in order.   *)

Coll == [op : {"sampled", "combined", "draft"}, step : Nat, width : Nat, ahead : Nat]

PartOf(op)  == IF op = "sampled" THEN 0 ELSE IF op = "combined" THEN 1 ELSE 2
WidthOf(op) == IF op = "sampled" THEN NumSpec + 1 ELSE IF op = "combined" THEN 2 ELSE NumSpec
Parts == IF Relay THEN {0, 1, 2} ELSE {0, 1}

\* The place of part p of step t in the order of all collectives.
Key(t, p) == 3 * t + p
KeyOf(c)  == Key(c.step, PartOf(c.op))

\* The collective at place k waits on rank r, or its step is yet to be issued.
Comes(r, k) ==
  \/ \E i \in DOMAIN side[r] : KeyOf(side[r][i]) = k
  \/ \E i \in DOMAIN calls[r] : \E p \in Parts :
       calls[r][i].kind = "sampled" /\ k = Key(calls[r][i].step, p)

\* The steps rank r has not finished are the last ones scheduled.
Lined ==
  \A r \in Ranks :
    /\ Len(calls[r]) <= scheduled
    /\ \A i \in DOMAIN calls[r] : calls[r][i].step = (scheduled - Len(calls[r])) + i

Sided ==
  /\ side \in [Ranks -> Seq(Coll)]
  /\ \A r \in Ranks : \A i \in DOMAIN side[r] :
       /\ side[r][i].step <= scheduled - Len(calls[r])
       /\ side[r][i].width = WidthOf(side[r][i].op)
  /\ \A r \in Ranks : \A i, j \in DOMAIN side[r] :
       i < j => KeyOf(side[r][i]) < KeyOf(side[r][j])

SameComing == \A r, s \in Ranks : \A k \in Nat : Comes(r, k) => Comes(s, k)

CollInv == StreamTypes /\ Lined /\ Sided /\ SameComing

LEMMA KeyFacts ==
  ASSUME NEW s \in Nat, NEW t \in Nat, NEW p \in 0..2, NEW q \in 0..2
  PROVE  /\ Key(s, p) \in Nat
         /\ Key(s, p) = Key(t, q) => s = t /\ p = q
         /\ s < t => Key(s, p) < Key(t, q)
         /\ p < q => Key(s, p) < Key(s, q)
BY DEF Key

LEMMA PartFacts ==
  /\ Parts \subseteq 0..2
  /\ \A c \in Coll : PartOf(c.op) \in 0..2 /\ c.step \in Nat /\ KeyOf(c) \in Nat
  /\ \A c, d \in Coll : KeyOf(c) = KeyOf(d) => c.step = d.step /\ c.op = d.op
<1>1. Parts \subseteq 0..2
  BY DEF Parts
<1>2. ASSUME NEW c \in Coll PROVE PartOf(c.op) \in 0..2 /\ c.step \in Nat
  BY DEF Coll, PartOf
<1>3. ASSUME NEW c \in Coll PROVE KeyOf(c) \in Nat
  BY <1>2, KeyFacts DEF KeyOf
<1>4. ASSUME NEW c \in Coll, NEW d \in Coll, KeyOf(c) = KeyOf(d)
      PROVE  c.step = d.step /\ c.op = d.op
  <2>1. c.step = d.step /\ PartOf(c.op) = PartOf(d.op)
    BY <1>2, <1>4, KeyFacts DEF KeyOf
  <2> QED
    BY <2>1 DEF Coll, PartOf
<1> QED
  BY <1>1, <1>2, <1>3, <1>4

\* What waits on a rank comes before what it has yet to issue.
LEMMA SideFacts ==
  ASSUME CollInv, NEW r \in Ranks
  PROVE  /\ scheduled \in Nat /\ Len(calls[r]) \in Nat /\ Len(calls[r]) <= scheduled
         /\ calls[r] \in Seq(Call) /\ side[r] \in Seq(Coll)
         /\ \A i \in DOMAIN side[r] : side[r][i] \in Coll /\ KeyOf(side[r][i]) \in Nat
         /\ \A i \in DOMAIN calls[r] : /\ calls[r][i].step \in Nat
                                       /\ calls[r][i].step > scheduled - Len(calls[r])
         /\ \A i \in DOMAIN side[r] : \A j \in DOMAIN calls[r] : \A p \in Parts :
              KeyOf(side[r][i]) < Key(calls[r][j].step, p)
<1>1. /\ scheduled \in Nat /\ Len(calls[r]) \in Nat /\ Len(calls[r]) <= scheduled
      /\ calls[r] \in Seq(Call) /\ side[r] \in Seq(Coll)
  BY DEF CollInv, StreamTypes, Lined, Sided
<1>2. \A i \in DOMAIN side[r] : side[r][i] \in Coll /\ KeyOf(side[r][i]) \in Nat
  BY <1>1, ElementOfSeq, PartFacts
<1>3. ASSUME NEW i \in DOMAIN calls[r]
      PROVE  calls[r][i].step \in Nat /\ calls[r][i].step > scheduled - Len(calls[r])
  <2> DEFINE n == Len(calls[r])
             x == calls[r][i].step
  <2>1. i \in Nat /\ i >= 1
    BY <1>1
  <2>2. x = (scheduled - n) + i
    BY DEF CollInv, Lined
  <2>3. scheduled \in Nat /\ n \in Nat /\ n <= scheduled
    BY <1>1
  <2> HIDE DEF n, x
  <2>4. x \in Nat /\ x > scheduled - n
    BY <2>1, <2>2, <2>3
  <2> QED
    BY <2>4 DEF n, x
<1>4. ASSUME NEW i \in DOMAIN side[r], NEW j \in DOMAIN calls[r], NEW p \in Parts
      PROVE  KeyOf(side[r][i]) < Key(calls[r][j].step, p)
  <2> DEFINE s == side[r][i].step
             t == calls[r][j].step
             q == PartOf(side[r][i].op)
  <2>1. s \in Nat /\ q \in 0..2 /\ p \in 0..2
    BY <1>2, PartFacts
  <2>2. t \in Nat /\ t > scheduled - Len(calls[r])
    BY <1>3
  <2>3. s <= scheduled - Len(calls[r])
    BY DEF CollInv, Sided
  <2>4. KeyOf(side[r][i]) = Key(s, q)
    BY DEF KeyOf
  <2> HIDE DEF s, t, q
  <2>5. s < t
    BY <1>1, <2>1, <2>2, <2>3
  <2>6. Key(s, q) < Key(t, p)
    BY <2>1, <2>2, <2>5, KeyFacts
  <2> QED
    BY <2>4, <2>6 DEF t
<1> QED
  BY <1>1, <1>2, <1>3, <1>4

\* Of two ranks none is the first to have something earlier.
LEMMA NoneEarlier ==
  ASSUME CollInv, NEW r \in Ranks, NEW s \in Ranks,
         NEW i \in DOMAIN side[r] \cap DOMAIN side[s],
         \A j \in DOMAIN side[r] \cap DOMAIN side[s] :
           j < i => KeyOf(side[r][j]) = KeyOf(side[s][j]),
         KeyOf(side[r][i]) < KeyOf(side[s][i])
  PROVE  FALSE
<1> DEFINE k == KeyOf(side[r][i])
<1>1. /\ k \in Nat /\ KeyOf(side[s][i]) \in Nat /\ i \in Nat
      /\ \A j \in DOMAIN side[s] : j \in Nat /\ KeyOf(side[s][j]) \in Nat
      /\ \A j \in DOMAIN side[s] : j < i => j \in DOMAIN side[r]
  <2>1. side[r] \in Seq(Coll) /\ side[s] \in Seq(Coll)
    BY SideFacts
  <2>2. \A j \in DOMAIN side[s] : KeyOf(side[s][j]) \in Nat
    BY SideFacts
  <2>3. k \in Nat
    BY SideFacts
  <2> HIDE DEF k
  <2> QED
    BY <2>1, <2>2, <2>3
<1>2. Comes(r, k)
  BY DEF Comes
<1>3. Comes(s, k)
  BY <1>1, <1>2 DEF CollInv, SameComing
<1>4. ASSUME NEW j \in DOMAIN side[s], KeyOf(side[s][j]) = k PROVE FALSE
  <2>1. CASE j < i
    <3>1. j \in DOMAIN side[r] /\ KeyOf(side[r][j]) = k
      BY <1>1, <1>4, <2>1
    <3>2. KeyOf(side[r][j]) < KeyOf(side[r][i])
      BY <2>1, <3>1 DEF CollInv, Sided
    <3> QED
      BY <1>1, <3>1, <3>2
  <2>2. CASE j = i
    BY <1>1, <1>4, <2>2
  <2>3. CASE i < j
    <3>1. KeyOf(side[s][i]) < KeyOf(side[s][j])
      BY <2>3 DEF CollInv, Sided
    <3> HIDE DEF k
    <3>2. k < KeyOf(side[s][i])
      BY DEF k
    <3> QED
      BY <1>1, <1>4, <3>1, <3>2
  <2>4. j < i \/ j = i \/ i < j
    BY <1>1
  <2> QED
    BY <2>1, <2>2, <2>3, <2>4
<1>5. ASSUME NEW j \in DOMAIN calls[s], NEW p \in Parts, k = Key(calls[s][j].step, p)
      PROVE  FALSE
  <2>1. KeyOf(side[s][i]) < Key(calls[s][j].step, p)
    BY SideFacts
  <2> HIDE DEF k
  <2>2. k < KeyOf(side[s][i])
    BY DEF k
  <2> QED
    BY <1>1, <1>5, <2>1, <2>2
<1> QED
  BY <1>3, <1>4, <1>5 DEF Comes

\* A set of numbers that is not empty has a least one.
LEMMA Least ==
  ASSUME NEW T \in SUBSET Nat, T # {}
  PROVE  \E x \in T : \A y \in T : x <= y
<1> DEFINE R == {p \in Nat \X Nat : p[1] < p[2]}
<1>1. IsWellFoundedOn(R, Nat)
  BY NatLessThanWellFounded, Zenon DEF OpToRel
<1>2. \A x, y \in Nat : y < x => <<y, x>> \in R
  OBVIOUS
<1> HIDE DEF R
<1>3. PICK x \in T : \A y \in T : ~(<<y, x>> \in R)
  BY <1>1, WFMin, Zenon
<1>4. \A y \in T : x \in Nat /\ y \in Nat /\ ~(y < x)
  BY <1>2, <1>3, Zenon
<1>5. \A y \in T : x <= y
  BY <1>4
<1> QED
  BY <1>5, Zenon

\* What stands at one place on two ranks is one collective.
LEMMA SidesAgree ==
  ASSUME CollInv, NEW r \in Ranks, NEW s \in Ranks,
         NEW i \in DOMAIN side[r] \cap DOMAIN side[s]
  PROVE  KeyOf(side[r][i]) = KeyOf(side[s][i])
<1> DEFINE D == DOMAIN side[r] \cap DOMAIN side[s]
           T == {j \in D : KeyOf(side[r][j]) # KeyOf(side[s][j])}
<1>1. D \subseteq Nat
  <2>1. side[r] \in Seq(Coll)
    BY SideFacts
  <2> QED
    BY <2>1
<1>2. ASSUME T # {} PROVE FALSE
  <2>1. T \in SUBSET Nat
    BY <1>1
  <2> HIDE DEF T
  <2>2. PICK x \in T : \A y \in T : x <= y
    BY <1>2, <2>1, Least
  <2>3. x \in D /\ x \in Nat /\ KeyOf(side[r][x]) # KeyOf(side[s][x])
    BY <2>1 DEF T
  <2>4. \A y \in D : y < x => KeyOf(side[r][y]) = KeyOf(side[s][y])
    <3>1. \A y \in D : y \in Nat /\ (y \notin T => KeyOf(side[r][y]) = KeyOf(side[s][y]))
      BY <1>1 DEF T
    <3> QED
      BY <2>2, <2>3, <3>1
  <2>5. KeyOf(side[r][x]) \in Nat /\ KeyOf(side[s][x]) \in Nat
    BY <2>3, SideFacts
  <2>6. CASE KeyOf(side[r][x]) < KeyOf(side[s][x])
    BY <2>3, <2>4, <2>6, NoneEarlier
  <2>7. CASE KeyOf(side[s][x]) < KeyOf(side[r][x])
    <3>1. /\ x \in DOMAIN side[s] \cap DOMAIN side[r]
          /\ \A y \in DOMAIN side[s] \cap DOMAIN side[r] :
               y < x => KeyOf(side[s][y]) = KeyOf(side[r][y])
      BY <2>3, <2>4
    <3> QED
      BY <2>7, <3>1, NoneEarlier
  <2> QED
    BY <2>3, <2>5, <2>6, <2>7
<1> QED
  BY <1>2

\* The collectives one rank issues for step t: each part once, in order.
Posted(posts, t) ==
  /\ posts \in Seq(Coll)
  /\ \A i \in DOMAIN posts :
       /\ posts[i].step = t /\ posts[i].width = WidthOf(posts[i].op)
       /\ PartOf(posts[i].op) = i - 1 /\ PartOf(posts[i].op) \in Parts
  /\ \A p \in Parts : \E i \in DOMAIN posts : PartOf(posts[i].op) = p

LEMMA PartsPosted ==
  ASSUME NEW t \in Nat, NEW n \in Nat, NEW m \in Nat
  PROVE  Posted(<<Collective("sampled", t, NumSpec + 1, n), Collective("combined", t, 2, n)>>
                  \o (IF Relay THEN <<Collective("draft", t, NumSpec, m)>> ELSE <<>>), t)
<1> DEFINE a == Collective("sampled", t, NumSpec + 1, n)
           b == Collective("combined", t, 2, n)
           d == Collective("draft", t, NumSpec, m)
<1>1. /\ a \in Coll /\ a.step = t /\ a.width = WidthOf(a.op) /\ PartOf(a.op) = 0
      /\ b \in Coll /\ b.step = t /\ b.width = WidthOf(b.op) /\ PartOf(b.op) = 1
      /\ d \in Coll /\ d.step = t /\ d.width = WidthOf(d.op) /\ PartOf(d.op) = 2
  BY PPStreamsAssumption DEF Collective, Coll, WidthOf, PartOf
<1> HIDE DEF a, b, d
<1>2. CASE Relay
  <2>1. <<a, b>> \o <<d>> = <<a, b, d>>
    <3> DEFINE u == <<a, b>> \o <<d>>
    <3>1. <<a, b>> \in Seq(Coll) /\ <<d>> \in Seq(Coll) /\ <<a, b, d>> \in Seq(Coll)
      BY <1>1
    <3>2. Len(<<a, b>>) = 2 /\ Len(<<d>>) = 1 /\ Len(<<a, b, d>>) = 3
      OBVIOUS
    <3>3. u \in Seq(Coll) /\ Len(u) = 3 /\ u[1] = a /\ u[2] = b /\ u[3] = d
      BY <3>1, <3>2, ConcatProperties
    <3> HIDE DEF u
    <3>4. \A i \in 1..Len(u) : u[i] = <<a, b, d>>[i]
      BY <3>3
    <3>5. u = <<a, b, d>>
      BY <3>1, <3>2, <3>3, <3>4, SeqEqual, Zenon
    <3> QED
      BY <3>5 DEF u
  <2>2. Posted(<<a, b, d>>, t)
    <3>1. /\ <<a, b, d>> \in Seq(Coll) /\ DOMAIN <<a, b, d>> = {1, 2, 3}
          /\ <<a, b, d>>[1] = a /\ <<a, b, d>>[2] = b /\ <<a, b, d>>[3] = d
      BY <1>1
    <3> DEFINE w == <<a, b, d>>
    <3> HIDE DEF w
    <3>2. Posted(w, t)
      BY <1>1, <1>2, <3>1 DEF Posted, Parts, w
    <3> QED
      BY <3>2 DEF w
  <2> QED
    BY <1>2, <2>1, <2>2 DEF a, b, d
<1>3. CASE ~Relay
  <2>1. <<a, b>> \o <<>> = <<a, b>>
    BY <1>1
  <2>2. Posted(<<a, b>>, t)
    <3>1. /\ <<a, b>> \in Seq(Coll) /\ DOMAIN <<a, b>> = {1, 2}
          /\ <<a, b>>[1] = a /\ <<a, b>>[2] = b
      BY <1>1
    <3> DEFINE w == <<a, b>>
    <3> HIDE DEF w
    <3>2. Posted(w, t)
      BY <1>1, <1>3, <3>1 DEF Posted, Parts, w
    <3> QED
      BY <3>2 DEF w
  <2> QED
    BY <1>3, <2>1, <2>2 DEF a, b, d
<1> QED
  BY <1>2, <1>3

\* A rank finishes its oldest step, and issues the collectives of it.
Finishes(r, posts) ==
  LET call == Head(calls[r])
  IN
  /\ calls[r] # <<>>
  /\ calls' = [calls EXCEPT ![r] = Tail(calls[r])]
  /\ side' = [side EXCEPT ![r] = side[r] \o posts]
  /\ scheduled' = scheduled
  /\ IF call.kind = "sampled" THEN Posted(posts, call.step) ELSE posts = <<>>

LEMMA ExecuteFinishes ==
  ASSUME StreamTypes, side \in [Ranks -> Seq(Coll)], NEW r \in Ranks,
         NEW freed \in BOOLEAN, ExecuteModel(r, freed)
  PROVE  \/ UNCHANGED <<calls, side, scheduled>>
         \/ Finishes(r, <<>>)
<1>1. CASE Head(calls[r]).kind # "empty"
  BY <1>1 DEF ExecuteModel, engineVars
<1>2. CASE Head(calls[r]).kind = "empty"
  <2>1. /\ calls[r] # <<>> /\ calls' = [calls EXCEPT ![r] = Tail(calls[r])]
        /\ side' = side /\ scheduled' = scheduled
    BY <1>2 DEF ExecuteModel, engineVars
  <2>2. side[r] \o <<>> = side[r]
    BY ConcatEmptySeq
  <2>3. side' = [side EXCEPT ![r] = side[r] \o <<>>]
    BY <2>1, <2>2
  <2> QED
    BY <1>2, <2>1, <2>3 DEF Finishes
<1> QED
  BY <1>1, <1>2

LEMMA SampleFinishes ==
  ASSUME StreamTypes, side \in [Ranks -> Seq(Coll)], NEW r \in Ranks, SampleTokens(r)
  PROVE  \E posts \in Seq(Coll) : Finishes(r, posts)
<1> DEFINE call  == Head(calls[r])
           ahead == Len(main[r])
           posts(width) == IF ~NeedsSampled(call) THEN <<>>
                           ELSE IF r = Last THEN Broadcasts(call, ahead, width)
                           ELSE Receives(call, ahead)
<1>1. /\ calls[r] # <<>> /\ call.step \in Nat /\ ahead \in Nat
      /\ calls' = [calls EXCEPT ![r] = Tail(calls[r])] /\ scheduled' = scheduled
  <2>1. calls[r] # <<>> /\ calls[r] \in Seq(Call) /\ main[r] \in Seq(Op)
    BY DEF StreamTypes, SampleTokens
  <2>2. call \in Call /\ ahead \in Nat
    BY <2>1, HeadTailProperties, LenProperties
  <2> QED
    BY <2>1, <2>2 DEF SampleTokens, engineVars, Call
<1>2. PICK width \in SampledWidths : side' = [side EXCEPT ![r] = side[r] \o posts(width)]
  BY DEF SampleTokens
<1>3. CASE ~NeedsSampled(call)
  <2>1. side' = [side EXCEPT ![r] = side[r] \o <<>>]
    BY <1>2, <1>3
  <2>2. Finishes(r, <<>>)
    BY <1>1, <1>3, <2>1 DEF Finishes, NeedsSampled
  <2>3. <<>> \in Seq(Coll)
    OBVIOUS
  <2> QED
    BY <2>2, <2>3, Zenon
<1>4. CASE NeedsSampled(call)
  <2>1. Posted(Receives(call, ahead), call.step)
    BY <1>1, PartsPosted DEF Receives
  <2>2. Posted(Broadcasts(call, ahead, width), call.step)
    <3>1. ahead + 1 \in Nat
      BY <1>1
    <3> HIDE DEF call, ahead
    <3> QED
      BY <1>1, <3>1, PartsPosted DEF Broadcasts, PaddedWidth
  <2> DEFINE p == IF r = Last THEN Broadcasts(call, ahead, width) ELSE Receives(call, ahead)
  <2>3. p \in Seq(Coll) /\ Posted(p, call.step)
    BY <2>1, <2>2 DEF Posted
  <2>4. posts(width) = p
    BY <1>4
  <2> HIDE DEF p, posts
  <2>5. Finishes(r, p)
    BY <1>1, <1>2, <1>4, <2>3, <2>4 DEF Finishes, NeedsSampled
  <2> QED
    BY <2>3, <2>5
<1> QED
  BY <1>3, <1>4

LEMMA FinishLined ==
  ASSUME CollInv, NEW r \in Ranks, NEW posts \in Seq(Coll), Finishes(r, posts)
  PROVE  /\ Lined'
         /\ Len(calls'[r]) = Len(calls[r]) - 1
         /\ Head(calls[r]).step = scheduled - Len(calls'[r])
         /\ Head(calls[r]) = calls[r][1] /\ 1 \in DOMAIN calls[r]
         /\ calls'[r] \in Seq(Call) /\ Len(calls'[r]) \in Nat
         /\ \A s \in Ranks \ {r} : calls'[s] = calls[s] /\ side'[s] = side[s]
         /\ calls'[r] = Tail(calls[r]) /\ side'[r] = side[r] \o posts
<1> DEFINE q == calls[r]
           w == Tail(calls[r])
<1>1. /\ q \in Seq(Call) /\ q # <<>> /\ calls' = [calls EXCEPT ![r] = w] /\ scheduled' = scheduled
      /\ scheduled \in Nat /\ calls \in [Ranks -> Seq(Call)] /\ side \in [Ranks -> Seq(Coll)]
      /\ side' = [side EXCEPT ![r] = side[r] \o posts]
  BY DEF CollInv, StreamTypes, Finishes, Sided
<1>2. /\ Len(q) <= scheduled
      /\ \A i \in DOMAIN q : q[i].step = (scheduled - Len(q)) + i
  BY DEF CollInv, Lined
<1>3. /\ w \in Seq(Call) /\ Len(w) = Len(q) - 1 /\ Len(q) \in Nat /\ Len(w) \in Nat
      /\ DOMAIN q = 1..Len(q) /\ DOMAIN w = 1..Len(w)
      /\ \A i \in 1..Len(w) : w[i] = q[i + 1]
      /\ Head(q) = q[1] /\ 1 \in DOMAIN q
  <2> HIDE DEF q, w
  <2>1. w \in Seq(Call) /\ Len(w) = Len(q) - 1 /\ \A i \in 1..Len(w) : w[i] = q[i + 1]
    BY <1>1, HeadTailProperties DEF w, q
  <2>2. Len(q) \in Nat \ {0} /\ DOMAIN q = 1..Len(q) /\ Head(q) = q[1]
    BY <1>1, EmptySeq, LenProperties
  <2>3. Len(w) \in Nat /\ DOMAIN w = 1..Len(w)
    BY <2>1, LenProperties
  <2> QED
    BY <2>1, <2>2, <2>3
<1>4. calls'[r] = w /\ side'[r] = side[r] \o posts
      /\ \A s \in Ranks \ {r} : calls'[s] = calls[s] /\ side'[s] = side[s]
  BY <1>1
<1> HIDE DEF q, w
<1>5. Len(w) <= scheduled /\ \A i \in DOMAIN w : w[i].step = (scheduled - Len(w)) + i
  <2>1. Len(w) <= scheduled
    BY <1>1, <1>2, <1>3
  <2>2. ASSUME NEW i \in DOMAIN w PROVE w[i].step = (scheduled - Len(w)) + i
    <3>1. i \in Nat /\ i + 1 \in DOMAIN q /\ w[i] = q[i + 1]
      BY <1>3
    <3>2. w[i].step = (scheduled - Len(q)) + (i + 1)
      BY <1>2, <3>1
    <3> QED
      BY <1>1, <1>3, <3>1, <3>2
  <2> QED
    BY <2>1, <2>2
<1>6. Head(q).step = scheduled - Len(w)
  <2>1. Head(q).step = (scheduled - Len(q)) + 1
    BY <1>2, <1>3
  <2> QED
    BY <1>1, <1>3, <2>1
<1>7. Lined'
  BY <1>1, <1>4, <1>5 DEF CollInv, Lined
<1> QED
  BY <1>1, <1>3, <1>4, <1>6, <1>7 DEF q, w

LEMMA FinishSided ==
  ASSUME CollInv, NEW r \in Ranks, NEW posts \in Seq(Coll), Finishes(r, posts)
  PROVE  Sided'
<1> DEFINE q == side[r]
           w == q \o posts
           call == Head(calls[r])
           n == Len(calls'[r])
<1>1. /\ side' = [side EXCEPT ![r] = w] /\ scheduled' = scheduled
      /\ side \in [Ranks -> Seq(Coll)] /\ q \in Seq(Coll) /\ scheduled \in Nat
      /\ side'[r] = w
  BY DEF Finishes, CollInv, Sided, StreamTypes
<1>2. /\ w \in Seq(Coll) /\ Len(w) = Len(q) + Len(posts)
      /\ Len(q) \in Nat /\ Len(posts) \in Nat
      /\ DOMAIN q = 1..Len(q) /\ DOMAIN posts = 1..Len(posts) /\ DOMAIN w = 1..Len(w)
      /\ \A i \in 1..(Len(q) + Len(posts)) :
           w[i] = IF i <= Len(q) THEN q[i] ELSE posts[i - Len(q)]
  BY <1>1, ConcatProperties, LenProperties
<1>3. /\ call.step = scheduled - n /\ n \in Nat /\ n = Len(calls[r]) - 1
      /\ Len(calls[r]) \in Nat /\ call.step \in Nat
      /\ call = calls[r][1] /\ 1 \in DOMAIN calls[r]
      /\ \A s \in Ranks \ {r} : calls'[s] = calls[s] /\ side'[s] = side[s]
  BY FinishLined, SideFacts
<1>4. \A i \in DOMAIN posts :
        /\ call.kind = "sampled"
        /\ posts[i].step = call.step /\ posts[i].width = WidthOf(posts[i].op)
        /\ PartOf(posts[i].op) = i - 1 /\ PartOf(posts[i].op) \in Parts
        /\ posts[i] \in Coll
  <2>1. CASE call.kind = "sampled"
    BY <1>2, <2>1, ElementOfSeq DEF Finishes, Posted
  <2>2. CASE call.kind # "sampled"
    BY <2>2 DEF Finishes
  <2> QED
    BY <2>1, <2>2
<1>5. \A i \in DOMAIN q :
        /\ q[i].step <= scheduled - Len(calls[r]) /\ q[i].width = WidthOf(q[i].op)
        /\ q[i] \in Coll /\ KeyOf(q[i]) \in Nat
        /\ \A p \in Parts : KeyOf(q[i]) < Key(call.step, p)
  BY <1>3, SideFacts DEF CollInv, Sided
<1>6. \A i, j \in DOMAIN q : i < j => KeyOf(q[i]) < KeyOf(q[j])
  BY DEF CollInv, Sided
<1> HIDE DEF q, call, n
<1> HIDE DEF w
<1>7. \A i \in DOMAIN w :
        \/ i \in DOMAIN q /\ w[i] = q[i]
        \/ i - Len(q) \in DOMAIN posts /\ w[i] = posts[i - Len(q)] /\ i > Len(q)
  BY <1>2
<1>8. ASSUME NEW i \in DOMAIN w
      PROVE  w[i].step <= scheduled - n /\ w[i].width = WidthOf(w[i].op)
  <2>1. CASE i \in DOMAIN q /\ w[i] = q[i]
    <3> DEFINE x == w[i].step
               m == Len(calls[r])
    <3>1. x \in Nat /\ x <= scheduled - m /\ w[i].width = WidthOf(w[i].op)
      BY <1>5, <2>1 DEF Coll
    <3>2. n = m - 1 /\ m \in Nat /\ n \in Nat
      BY <1>3
    <3> HIDE DEF x, m
    <3>3. x <= scheduled - n
      BY <1>1, <3>1, <3>2
    <3> QED
      BY <3>1, <3>3 DEF x
  <2>2. CASE i - Len(q) \in DOMAIN posts /\ w[i] = posts[i - Len(q)]
    <3>1. w[i].step = scheduled - n /\ w[i].width = WidthOf(w[i].op)
      BY <1>3, <1>4, <2>2
    <3>2. scheduled - n \in Int
      BY <1>1, <1>3
    <3> QED
      BY <3>1, <3>2
  <2> QED
    BY <1>7, <2>1, <2>2
<1>9. ASSUME NEW i \in DOMAIN w, NEW j \in DOMAIN w, i < j PROVE KeyOf(w[i]) < KeyOf(w[j])
  <2>0. i \in Nat /\ j \in Nat
    BY <1>2
  <2>1. CASE i \in DOMAIN q /\ w[i] = q[i] /\ j \in DOMAIN q /\ w[j] = q[j]
    BY <1>6, <1>9, <2>1
  <2>2. CASE /\ i \in DOMAIN q /\ w[i] = q[i]
             /\ j - Len(q) \in DOMAIN posts /\ w[j] = posts[j - Len(q)]
    BY <1>4, <1>5, <2>2 DEF KeyOf
  <2>3. CASE /\ i - Len(q) \in DOMAIN posts /\ w[i] = posts[i - Len(q)]
             /\ j - Len(q) \in DOMAIN posts /\ w[j] = posts[j - Len(q)]
    <3> DEFINE a == PartOf(w[i].op)
               b == PartOf(w[j].op)
    <3>1. a = (i - Len(q)) - 1 /\ b = (j - Len(q)) - 1 /\ a \in Parts /\ b \in Parts
      BY <1>4, <2>3
    <3>2. KeyOf(w[i]) = Key(call.step, a) /\ KeyOf(w[j]) = Key(call.step, b)
      BY <1>4, <2>3 DEF KeyOf
    <3>3. a \in 0..2 /\ b \in 0..2
      BY <3>1, PartFacts
    <3> HIDE DEF a, b
    <3>4. a < b
      BY <1>2, <1>9, <2>0, <3>1, <3>3
    <3> DEFINE t == call.step
    <3>5. t \in Nat
      BY <1>3
    <3> HIDE DEF t
    <3>6. Key(t, a) < Key(t, b)
      BY <3>3, <3>4, <3>5, KeyFacts
    <3> QED
      BY <3>2, <3>6 DEF t
  <2>4. \/ i \in DOMAIN q /\ w[i] = q[i]
        \/ i > Len(q) /\ i - Len(q) \in DOMAIN posts /\ w[i] = posts[i - Len(q)]
    BY <1>7
  <2>5. \/ j \in DOMAIN q /\ w[j] = q[j] /\ j <= Len(q)
        \/ j - Len(q) \in DOMAIN posts /\ w[j] = posts[j - Len(q)]
    BY <1>2, <1>7
  <2>6. j <= Len(q) => ~(i > Len(q))
    BY <1>2, <1>9, <2>0
  <2> QED
    BY <2>1, <2>2, <2>3, <2>4, <2>5, <2>6
<1>10. side' \in [Ranks -> Seq(Coll)]
  BY <1>1, <1>2
<1>11. ASSUME NEW s \in Ranks \ {r}
       PROVE /\ \A i \in DOMAIN side'[s] :
                  /\ side'[s][i].step <= scheduled' - Len(calls'[s])
                  /\ side'[s][i].width = WidthOf(side'[s][i].op)
             /\ \A i, j \in DOMAIN side'[s] :
                  i < j => KeyOf(side'[s][i]) < KeyOf(side'[s][j])
  BY <1>1, <1>3 DEF CollInv, Sided
<1>12. /\ \A i \in DOMAIN side'[r] :
                  /\ side'[r][i].step <= scheduled' - Len(calls'[r])
                  /\ side'[r][i].width = WidthOf(side'[r][i].op)
       /\ \A i, j \in DOMAIN side'[r] :
                  i < j => KeyOf(side'[r][i]) < KeyOf(side'[r][j])
  BY <1>1, <1>8, <1>9 DEF n
<1> QED
  BY <1>10, <1>11, <1>12 DEF Sided

\* Finishing a step only moves its collectives from the future to the stream.
LEMMA FinishSame ==
  ASSUME CollInv, NEW r \in Ranks, NEW posts \in Seq(Coll), Finishes(r, posts)
  PROVE  SameComing'
<1> DEFINE q == side[r]
           c == calls[r]
           call == Head(c)
<1>1. /\ c \in Seq(Call) /\ call = c[1] /\ 1 \in DOMAIN c /\ c # <<>>
      /\ q \in Seq(Coll) /\ calls'[r] = Tail(c) /\ side'[r] = q \o posts
      /\ \A s \in Ranks \ {r} : calls'[s] = calls[s] /\ side'[s] = side[s]
  BY FinishLined, SideFacts DEF Finishes
<1>2. /\ DOMAIN c = 1..Len(c) /\ Len(c) \in Nat /\ DOMAIN Tail(c) = 1..(Len(c) - 1)
      /\ \A i \in 1..(Len(c) - 1) : Tail(c)[i] = c[i + 1]
  <2> HIDE DEF c
  <2>1. Tail(c) \in Seq(Call) /\ Len(Tail(c)) = Len(c) - 1
        /\ \A i \in 1..Len(Tail(c)) : Tail(c)[i] = c[i + 1]
    BY <1>1, HeadTailProperties
  <2> QED
    BY <1>1, <2>1, LenProperties
<1>3. /\ Len(q) \in Nat /\ Len(posts) \in Nat
      /\ DOMAIN q = 1..Len(q) /\ DOMAIN posts = 1..Len(posts)
      /\ DOMAIN (q \o posts) = 1..(Len(q) + Len(posts))
      /\ \A i \in 1..(Len(q) + Len(posts)) :
           (q \o posts)[i] = IF i <= Len(q) THEN q[i] ELSE posts[i - Len(q)]
  <2> HIDE DEF q
  <2>1. /\ q \o posts \in Seq(Coll) /\ Len(q \o posts) = Len(q) + Len(posts)
        /\ \A i \in 1..(Len(q) + Len(posts)) :
             (q \o posts)[i] = IF i <= Len(q) THEN q[i] ELSE posts[i - Len(q)]
    BY <1>1, ConcatProperties
  <2> QED
    BY <1>1, <2>1, LenProperties
<1>4. IF call.kind = "sampled" THEN Posted(posts, call.step) ELSE posts = <<>>
  BY DEF Finishes
<1> DEFINE w == q \o posts
           d == Tail(c)
<1> HIDE DEF q, c, call
<1>5. ASSUME NEW k \in Nat, Comes(r, k)' PROVE Comes(r, k)
  <2>1. ASSUME NEW i \in DOMAIN w, KeyOf(w[i]) = k PROVE Comes(r, k)
    <3>1. CASE i \in DOMAIN q
      <4>1. KeyOf(q[i]) = k
        BY <1>3, <2>1, <3>1
      <4> QED
        BY <3>1, <4>1 DEF Comes, q
    <3>2. CASE i \notin DOMAIN q
      <4> DEFINE j == i - Len(q)
      <4>1. j \in DOMAIN posts /\ w[i] = posts[j]
        BY <1>3, <2>1, <3>2
      <4>2. call.kind = "sampled" /\ Posted(posts, call.step)
        BY <1>4, <4>1
      <4>3. posts[j].step = call.step /\ PartOf(posts[j].op) \in Parts
        BY <4>1, <4>2 DEF Posted
      <4>4. k = Key(call.step, PartOf(posts[j].op))
        BY <2>1, <4>1, <4>3 DEF KeyOf
      <4> QED
        BY <1>1, <4>2, <4>3, <4>4 DEF Comes, c
    <3> QED
      BY <3>1, <3>2
  <2>2. ASSUME NEW i \in DOMAIN d, NEW p \in Parts,
               d[i].kind = "sampled", k = Key(d[i].step, p)
        PROVE  Comes(r, k)
    <3>1. i + 1 \in DOMAIN c /\ d[i] = c[i + 1]
      BY <1>2, <2>2
    <3> QED
      BY <2>2, <3>1 DEF Comes, c
  <2>3. \/ \E i \in DOMAIN w : KeyOf(w[i]) = k
        \/ \E i \in DOMAIN d : \E p \in Parts : d[i].kind = "sampled" /\ k = Key(d[i].step, p)
    <3> HIDE DEF w, d
    <3>1. calls'[r] = d /\ side'[r] = w
      BY <1>1 DEF d, w
    <3>2. \/ \E i \in DOMAIN side'[r] : KeyOf(side'[r][i]) = k
          \/ \E i \in DOMAIN calls'[r] : \E p \in Parts :
               calls'[r][i].kind = "sampled" /\ k = Key(calls'[r][i].step, p)
      BY <1>5 DEF Comes
    <3> QED
      BY <3>1, <3>2
  <2> QED
    BY <2>1, <2>2, <2>3
<1>6. ASSUME NEW k \in Nat, Comes(r, k) PROVE Comes(r, k)'
  <2>0. calls'[r] = d /\ side'[r] = w
    BY <1>1
  <2>1. ASSUME NEW i \in DOMAIN q, KeyOf(q[i]) = k PROVE Comes(r, k)'
    <3>1. i \in DOMAIN w /\ w[i] = q[i]
      BY <1>3
    <3> HIDE DEF w
    <3> QED
      BY <2>0, <2>1, <3>1 DEF Comes
  <2>2. ASSUME NEW i \in DOMAIN c, NEW p \in Parts,
               c[i].kind = "sampled", k = Key(c[i].step, p)
        PROVE  Comes(r, k)'
    <3>1. CASE i = 1
      <4>1. Posted(posts, call.step)
        BY <1>1, <1>4, <2>2, <3>1
      <4>2. PICK j \in DOMAIN posts : PartOf(posts[j].op) = p
        BY <4>1 DEF Posted
      <4>3. posts[j].step = call.step
        BY <4>1 DEF Posted
      <4>4. Len(q) + j \in DOMAIN w /\ w[Len(q) + j] = posts[j]
        BY <1>3
      <4>5. KeyOf(w[Len(q) + j]) = k
        BY <1>1, <2>2, <3>1, <4>2, <4>3, <4>4 DEF KeyOf
      <4> HIDE DEF w
      <4> QED
        BY <2>0, <4>4, <4>5 DEF Comes
    <3>2. CASE i # 1
      <4>1. i - 1 \in DOMAIN d /\ d[i - 1] = c[i]
        BY <1>2, <3>2
      <4> HIDE DEF d
      <4> QED
        BY <2>0, <2>2, <4>1 DEF Comes
    <3> QED
      BY <3>1, <3>2
  <2>3. \/ \E i \in DOMAIN q : KeyOf(q[i]) = k
        \/ \E i \in DOMAIN c : \E p \in Parts : c[i].kind = "sampled" /\ k = Key(c[i].step, p)
    BY <1>6 DEF Comes, q, c
  <2> QED
    BY <2>1, <2>2, <2>3
<1>7. \A s \in Ranks : \A k \in Nat : Comes(s, k)' <=> Comes(s, k)
  <2>1. ASSUME NEW s \in Ranks \ {r}, NEW k \in Nat PROVE Comes(s, k)' <=> Comes(s, k)
    <3>1. calls'[s] = calls[s] /\ side'[s] = side[s]
      BY <1>1
    <3> QED
      BY <3>1 DEF Comes
  <2> QED
    BY <1>5, <1>6, <2>1
<1> QED
  BY <1>7 DEF CollInv, SameComing

LEMMA CollFinish ==
  ASSUME CollInv, StreamTypes', NEW r \in Ranks, NEW posts \in Seq(Coll), Finishes(r, posts)
  PROVE  CollInv'
BY FinishLined, FinishSided, FinishSame DEF CollInv

\* Every rank is told of the same new step.
LEMMA CollSchedule ==
  ASSUME CollInv, StreamTypes', NEW k \in Kinds, Schedule(k)
  PROVE  CollInv'
<1> DEFINE c == [step |-> scheduled + 1, kind |-> k]
<1>1. /\ scheduled' = scheduled + 1 /\ side' = side /\ scheduled \in Nat
      /\ calls' = [r \in Ranks |-> Append(calls[r], c)]
  BY DEF Schedule, CollInv, StreamTypes
<1>2. c \in Call /\ c.step = scheduled + 1
  BY <1>1 DEF Call
<1> HIDE DEF c
<1>3. ASSUME NEW r \in Ranks
      PROVE  /\ Len(calls'[r]) = Len(calls[r]) + 1 /\ Len(calls[r]) \in Nat
             /\ calls[r] \in Seq(Call)
             /\ DOMAIN calls[r] = 1..Len(calls[r])
             /\ DOMAIN calls'[r] = 1..(Len(calls[r]) + 1)
             /\ \A i \in 1..Len(calls[r]) : calls'[r][i] = calls[r][i]
             /\ calls'[r][Len(calls[r]) + 1] = c
  <2>1. calls[r] \in Seq(Call) /\ calls'[r] = Append(calls[r], c)
    BY <1>1, SideFacts
  <2>2. /\ Append(calls[r], c) \in Seq(Call) /\ Len(Append(calls[r], c)) = Len(calls[r]) + 1
        /\ \A i \in 1..Len(calls[r]) : Append(calls[r], c)[i] = calls[r][i]
        /\ Append(calls[r], c)[Len(calls[r]) + 1] = c
    BY <1>2, <2>1, AppendProperties
  <2> QED
    BY <2>1, <2>2, LenProperties
<1>4. Lined'
  <2> SUFFICES ASSUME NEW r \in Ranks
               PROVE  /\ Len(calls'[r]) <= scheduled'
                      /\ \A i \in DOMAIN calls'[r] :
                           calls'[r][i].step = (scheduled' - Len(calls'[r])) + i
    BY DEF Lined
  <2> DEFINE q == calls[r]
             w == calls'[r]
             n == Len(calls[r])
  <2>1. /\ n <= scheduled
        /\ \A i \in DOMAIN q : q[i].step = (scheduled - n) + i
    BY DEF CollInv, Lined
  <2>2. /\ Len(w) = n + 1 /\ n \in Nat /\ DOMAIN q = 1..n /\ DOMAIN w = 1..(n + 1)
        /\ \A i \in 1..n : w[i] = q[i]
        /\ w[n + 1] = c
    BY <1>3
  <2> HIDE DEF q, w, n
  <2>3. ASSUME NEW i \in DOMAIN w PROVE w[i].step = (scheduled - n) + i
    <3>1. CASE i \in DOMAIN q
      BY <2>1, <2>2, <3>1
    <3>2. CASE i \notin DOMAIN q
      <4>1. i = n + 1 /\ w[i].step = scheduled + 1
        BY <1>2, <2>2, <3>2
      <4> QED
        BY <1>1, <2>2, <4>1
    <3> QED
      BY <3>1, <3>2
  <2>4. scheduled' - Len(w) = scheduled - n /\ Len(w) <= scheduled'
    BY <1>1, <2>1, <2>2
  <2>5. \A i \in DOMAIN w : w[i].step = (scheduled' - Len(w)) + i
    BY <2>3, <2>4
  <2> QED
    BY <2>4, <2>5 DEF w
<1>5. Sided'
  <2>1. \A r \in Ranks : scheduled' - Len(calls'[r]) = scheduled - Len(calls[r])
    <3> TAKE r \in Ranks
    <3> DEFINE n == Len(calls[r])
               m == Len(calls'[r])
    <3>1. m = n + 1 /\ n \in Nat
      BY <1>3
    <3> HIDE DEF m, n
    <3>2. scheduled' - m = scheduled - n
      BY <1>1, <3>1
    <3> QED
      BY <3>2 DEF m, n
  <2> QED
    BY <1>1, <2>1 DEF CollInv, Sided
<1>6. ASSUME NEW r \in Ranks, NEW x \in Nat
      PROVE  Comes(r, x)' <=> \/ Comes(r, x)
                              \/ k = "sampled" /\ \E p \in Parts : x = Key(scheduled + 1, p)
  <2>1. c.kind = k
    BY DEF c
  <2> DEFINE q == calls[r]
             w == calls'[r]
             n == Len(calls[r])
  <2>2. /\ n \in Nat /\ DOMAIN q = 1..n /\ DOMAIN w = 1..(n + 1)
        /\ \A i \in 1..n : w[i] = q[i]
        /\ w[n + 1] = c
    BY <1>3
  <2>3. Comes(r, x) <=>
          \/ \E i \in DOMAIN side[r] : KeyOf(side[r][i]) = x
          \/ \E i \in DOMAIN q : \E p \in Parts : q[i].kind = "sampled" /\ x = Key(q[i].step, p)
    BY DEF Comes
  <2>4. Comes(r, x)' <=>
          \/ \E i \in DOMAIN side[r] : KeyOf(side[r][i]) = x
          \/ \E i \in DOMAIN w : \E p \in Parts : w[i].kind = "sampled" /\ x = Key(w[i].step, p)
    BY <1>1 DEF Comes
  <2> HIDE DEF q, w, n
  <2>5. n + 1 \in DOMAIN w /\ \A i \in DOMAIN w : i = n + 1 \/ (i \in DOMAIN q /\ w[i] = q[i])
    BY <2>2
  <2>6. \A i \in DOMAIN q : i \in DOMAIN w /\ w[i] = q[i]
    BY <2>2
  <2> QED
    BY <1>2, <2>1, <2>2, <2>3, <2>4, <2>5, <2>6
<1>7. SameComing'
  BY <1>6 DEF CollInv, SameComing
<1> QED
  BY <1>4, <1>5, <1>7 DEF CollInv

\* An operation of the main stream brings its rank's collectives nearer.
LEMMA CollRuns ==
  ASSUME CollInv, StreamTypes', NEW r \in Ranks, NEW op, Runs(r, op)
  PROVE  CollInv'
<1> DEFINE q == side[r]
           w == [i \in DOMAIN q |-> Nearer(q[i])]
<1>1. /\ side' = [side EXCEPT ![r] = w] /\ calls' = calls /\ scheduled' = scheduled
      /\ side \in [Ranks -> Seq(Coll)] /\ q \in Seq(Coll)
  BY DEF Runs, engineVars, CollInv, Sided
<1>2. \A x \in Coll : /\ Nearer(x) \in Coll /\ Nearer(x).op = x.op
                      /\ Nearer(x).step = x.step /\ Nearer(x).width = x.width
  BY DEF Nearer, Coll
<1>3. w \in Seq(Coll) /\ DOMAIN w = DOMAIN q
  <2>1. \A i \in DOMAIN q : Nearer(q[i]) \in Coll
    BY <1>1, <1>2
  <2>2. DOMAIN q = 1..Len(q) /\ Len(q) \in Nat
    BY <1>1
  <2> HIDE DEF q
  <2>3. w \in [1..Len(q) -> Coll]
    BY <2>1, <2>2
  <2> QED
    BY <2>2, <2>3, SeqDef
<1>4. \A i \in DOMAIN q : /\ w[i].op = q[i].op /\ w[i].step = q[i].step
                          /\ w[i].width = q[i].width
  BY <1>1, <1>2
<1> HIDE DEF q, w
<1>5. \A s \in Ranks : /\ DOMAIN side'[s] = DOMAIN side[s]
                       /\ \A i \in DOMAIN side[s] :
                            /\ side'[s][i].op = side[s][i].op
                            /\ side'[s][i].step = side[s][i].step
                            /\ side'[s][i].width = side[s][i].width
                            /\ KeyOf(side'[s][i]) = KeyOf(side[s][i])
  BY <1>1, <1>3, <1>4 DEF q, KeyOf
<1>6. side' \in [Ranks -> Seq(Coll)]
  BY <1>1, <1>3
<1>7. Lined'
  BY <1>1 DEF CollInv, Lined
<1>8. Sided'
  BY <1>1, <1>5, <1>6 DEF CollInv, Sided
<1>9. \A s \in Ranks : \A k \in Nat : Comes(s, k)' <=> Comes(s, k)
  BY <1>1, <1>5 DEF Comes
<1> QED
  BY <1>7, <1>8, <1>9 DEF CollInv, SameComing

\* A collective runs: every rank takes the same one from its stream.
LEMMA CollCollective ==
  ASSUME CollInv, StreamTypes', RunCollective
  PROVE  CollInv'
<1> DEFINE K == KeyOf(side[Last][1])
<1>1. /\ side' = [r \in Ranks |-> Tail(side[r])] /\ calls' = calls /\ scheduled' = scheduled
      /\ \A r \in Ranks : side[r] # <<>>
  BY DEF RunCollective, engineVars
<1>2. ASSUME NEW r \in Ranks
      PROVE  /\ side'[r] \in Seq(Coll) /\ 1 \in DOMAIN side[r]
             /\ \A i \in DOMAIN side'[r] :
                  /\ i \in Nat /\ i >= 1
                  /\ i + 1 \in DOMAIN side[r] /\ side'[r][i] = side[r][i + 1]
             /\ \A i \in DOMAIN side[r] :
                  i = 1 \/ (i - 1 \in DOMAIN side'[r] /\ side'[r][i - 1] = side[r][i])
  <2> DEFINE q == side[r]
             w == side'[r]
  <2>1. q \in Seq(Coll) /\ q # <<>> /\ w = Tail(q)
    BY <1>1, SideFacts
  <2> HIDE DEF q, w
  <2>2. w \in Seq(Coll) /\ Len(w) = Len(q) - 1 /\ \A i \in 1..Len(w) : w[i] = q[i + 1]
    BY <2>1, HeadTailProperties
  <2>3. Len(q) \in Nat \ {0} /\ DOMAIN q = 1..Len(q) /\ DOMAIN w = 1..Len(w)
    BY <2>1, <2>2, EmptySeq, LenProperties
  <2> QED
    BY <2>2, <2>3 DEF q, w
<1>3. \A r \in Ranks : KeyOf(side[r][1]) = K
  BY <1>2, FirstRank, SidesAgree
<1> HIDE DEF K
<1>4. Lined'
  BY <1>1 DEF CollInv, Lined
<1>5. Sided'
  <2>1. side' \in [Ranks -> Seq(Coll)]
    BY <1>1, <1>2
  <2>2. ASSUME NEW r \in Ranks, NEW i \in DOMAIN side'[r]
        PROVE  /\ side'[r][i].step <= scheduled' - Len(calls'[r])
               /\ side'[r][i].width = WidthOf(side'[r][i].op)
    BY <1>1, <1>2 DEF CollInv, Sided
  <2>3. ASSUME NEW r \in Ranks, NEW i \in DOMAIN side'[r], NEW j \in DOMAIN side'[r], i < j
        PROVE  KeyOf(side'[r][i]) < KeyOf(side'[r][j])
    <3>1. i + 1 < j + 1
      BY <1>2, <2>3
    <3>2. /\ i + 1 \in DOMAIN side[r] /\ side'[r][i] = side[r][i + 1]
          /\ j + 1 \in DOMAIN side[r] /\ side'[r][j] = side[r][j + 1]
      BY <1>2
    <3>3. \A a, b \in DOMAIN side[r] : a < b => KeyOf(side[r][a]) < KeyOf(side[r][b])
      BY DEF CollInv, Sided
    <3> QED
      BY <3>1, <3>2, <3>3
  <2> QED
    BY <2>1, <2>2, <2>3 DEF Sided
<1>6. ASSUME NEW r \in Ranks, NEW k \in Nat
      PROVE  Comes(r, k)' <=> Comes(r, k) /\ k # K
  <2>1. ASSUME NEW i \in DOMAIN side'[r], KeyOf(side'[r][i]) = k
        PROVE  Comes(r, k) /\ k # K
    <3>1. i + 1 \in DOMAIN side[r] /\ KeyOf(side[r][i + 1]) = k /\ 1 < i + 1 /\ 1 \in DOMAIN side[r]
      BY <1>2, <2>1
    <3>2. KeyOf(side[r][1]) < KeyOf(side[r][i + 1])
      BY <3>1 DEF CollInv, Sided
    <3>3. K < k
      BY <1>3, <3>1, <3>2
    <3>4. K \in Nat
      BY FirstRank, <1>2, SideFacts DEF K
    <3> QED
      BY <3>1, <3>3, <3>4 DEF Comes
  <2>2. ASSUME NEW i \in DOMAIN calls[r], NEW p \in Parts, calls[r][i].kind = "sampled",
               k = Key(calls[r][i].step, p)
        PROVE  Comes(r, k) /\ k # K
    <3>1. KeyOf(side[r][1]) < Key(calls[r][i].step, p) /\ KeyOf(side[r][1]) \in Nat
      BY <1>2, SideFacts
    <3>2. K < k /\ K \in Nat
      BY <1>3, <2>2, <3>1
    <3> QED
      BY <2>2, <3>2 DEF Comes
  <2>3. ASSUME NEW i \in DOMAIN side[r], KeyOf(side[r][i]) = k, k # K
        PROVE  \E j \in DOMAIN side'[r] : KeyOf(side'[r][j]) = k
    BY <1>2, <1>3, <2>3
  <2>4. Comes(r, k)' <=>
          \/ \E i \in DOMAIN side'[r] : KeyOf(side'[r][i]) = k
          \/ \E i \in DOMAIN calls[r] : \E p \in Parts :
               calls[r][i].kind = "sampled" /\ k = Key(calls[r][i].step, p)
    BY <1>1 DEF Comes
  <2>5. Comes(r, k) <=>
          \/ \E i \in DOMAIN side[r] : KeyOf(side[r][i]) = k
          \/ \E i \in DOMAIN calls[r] : \E p \in Parts :
               calls[r][i].kind = "sampled" /\ k = Key(calls[r][i].step, p)
    BY DEF Comes
  <2> QED
    BY <2>1, <2>2, <2>3, <2>4, <2>5
<1>7. SameComing'
  BY <1>6 DEF CollInv, SameComing
<1> QED
  BY <1>4, <1>5, <1>7 DEF CollInv

LEMMA CollSame ==
  ASSUME CollInv, StreamTypes', UNCHANGED <<calls, side, scheduled>>
  PROVE  CollInv'
<1>1. Lined' /\ Sided'
  BY DEF CollInv, Lined, Sided
<1>2. SameComing'
  BY DEF CollInv, SameComing, Comes
<1> QED
  BY <1>1, <1>2 DEF CollInv

LEMMA CollStep == CollInv /\ [Next]_vars => CollInv'
<1> SUFFICES ASSUME CollInv, [Next]_vars PROVE CollInv'
  OBVIOUS
<1>1. StreamTypes /\ side \in [Ranks -> Seq(Coll)] /\ StreamTypes'
  BY StreamTypesStep DEF CollInv, Sided
<1>2. ASSUME NEW k \in Kinds, Schedule(k) PROVE CollInv'
  BY <1>1, <1>2, CollSchedule
<1>3. ASSUME NEW r \in Ranks, NEW freed \in BOOLEAN, ExecuteModel(r, freed) PROVE CollInv'
  <2>1. <<>> \in Seq(Coll)
    OBVIOUS
  <2>2. UNCHANGED <<calls, side, scheduled>> \/ Finishes(r, <<>>)
    BY <1>1, <1>3, ExecuteFinishes
  <2>3. CASE Finishes(r, <<>>)
    BY <1>1, <2>1, <2>3, CollFinish
  <2> QED
    BY <1>1, <2>2, <2>3, CollSame
<1>4. ASSUME NEW r \in Ranks, SampleTokens(r) PROVE CollInv'
  BY <1>1, <1>4, SampleFinishes, CollFinish
<1>5. ASSUME NEW r \in Ranks, RunMain(r) PROVE CollInv'
  <2>1. \E op : Runs(r, op)
    BY <1>5 DEF RunMain, PrepareInputs, Forward, WaitReceived, ApplySampled, Propose
  <2> QED
    BY <1>1, <2>1, CollRuns
<1>6. ASSUME RunCollective PROVE CollInv'
  BY <1>1, <1>6, CollCollective
<1>7. CASE Process \/ PrepareForward \/ TakeRequest \/ StageInputs \/ UNCHANGED vars
  <2>1. UNCHANGED <<calls, side, scheduled>>
    BY <1>7 DEF Process, PrepareForward, TakeRequest, StageInputs, vars, engineVars, rankVars
  <2> QED
    BY <1>1, <2>1, CollSame
<1> QED
  BY <1>2, <1>3, <1>4, <1>5, <1>6, <1>7 DEF Next, Work, Issue

LEMMA CollInit == Init => CollInv
<1> SUFFICES ASSUME Init PROVE CollInv
  OBVIOUS
<1>1. StreamTypes
  BY StreamTypesInit
<1>2. /\ scheduled = 0 /\ calls = [r \in Ranks |-> <<>>] /\ side = [r \in Ranks |-> <<>>]
  BY DEF Init
<1>3. \A r \in Ranks : calls[r] = <<>> /\ side[r] = <<>> /\ DOMAIN calls[r] = {} /\ DOMAIN side[r] = {}
  BY <1>2
<1>4. Lined
  BY <1>2, <1>3 DEF Lined
<1>5. Sided
  BY <1>2, <1>3 DEF Sided
<1>6. SameComing
  BY <1>3 DEF SameComing, Comes
<1> QED
  BY <1>1, <1>4, <1>5, <1>6 DEF CollInv

(***************************************************************************)
(* The collectives that meet are the same part of the same step with the   *)
(* same size, though nothing but the order in which each rank issues them  *)
(* matches them (pp_utils.py:181-184, 227-232).                            *)
(***************************************************************************)
THEOREM CollectivesPaired == Spec => []Paired
<1>1. CollInv => Paired
  <2> SUFFICES ASSUME CollInv, NEW r \in Ranks, NEW s \in Ranks,
                      NEW i \in DOMAIN side[r] \cap DOMAIN side[s]
               PROVE  Matches(side[r][i], side[s][i])
    BY DEF Paired
  <2>1. KeyOf(side[r][i]) = KeyOf(side[s][i])
    BY SidesAgree
  <2>2. side[r][i] \in Coll /\ side[s][i] \in Coll
    BY SideFacts
  <2>3. side[r][i].step = side[s][i].step /\ side[r][i].op = side[s][i].op
    BY <2>1, <2>2, PartFacts
  <2>4. /\ side[r][i].width = WidthOf(side[r][i].op)
        /\ side[s][i].width = WidthOf(side[s][i].op)
    BY DEF CollInv, Sided
  <2> QED
    BY <2>3, <2>4 DEF Matches
<1> QED
  BY <1>1, CollInit, CollStep, PTL DEF Spec

-----------------------------------------------------------------------------
(* What the main stream reads of the receive queue.                        *)

\* The entries execute_model may read, of a rank that receives.
Due(r) == IF r = Last THEN {} ELSE {slots[r][1], slots[r][Depth]} \ {0}

\* Entries of S, each read right after it was waited for.
ReadOps(q, S) ==
  /\ q \in Seq(Op)
  /\ \A j \in DOMAIN q :
       /\ q[j].op \in {"wait", "apply"} /\ q[j].step \in S
       /\ q[j].op = "apply" => j > 1 /\ q[j - 1] = MainOp("wait", q[j].step)

LEMMA ReadsConcat ==
  ASSUME NEW S, NEW a, NEW b, ReadOps(a, S), ReadOps(b, S)
  PROVE  ReadOps(a \o b, S)
<1> DEFINE w == a \o b
<1>1. /\ a \in Seq(Op) /\ b \in Seq(Op) /\ w \in Seq(Op)
      /\ Len(a) \in Nat /\ DOMAIN a = 1..Len(a) /\ Len(b) \in Nat /\ DOMAIN b = 1..Len(b)
      /\ DOMAIN w = 1..(Len(a) + Len(b))
      /\ \A i \in 1..(Len(a) + Len(b)) : w[i] = IF i <= Len(a) THEN a[i] ELSE b[i - Len(a)]
  <2>1. a \in Seq(Op) /\ b \in Seq(Op)
    BY DEF ReadOps
  <2>2. /\ w \in Seq(Op) /\ Len(w) = Len(a) + Len(b)
        /\ \A i \in 1..(Len(a) + Len(b)) : w[i] = IF i <= Len(a) THEN a[i] ELSE b[i - Len(a)]
    BY <2>1, ConcatProperties
  <2> HIDE DEF w
  <2> QED
    BY <2>1, <2>2, LenProperties
<1> HIDE DEF w
<1>2. ASSUME NEW j \in DOMAIN w
      PROVE  /\ w[j].op \in {"wait", "apply"} /\ w[j].step \in S
             /\ w[j].op = "apply" => j > 1 /\ w[j - 1] = MainOp("wait", w[j].step)
  <2>1. CASE j <= Len(a)
    <3>1. j \in DOMAIN a /\ w[j] = a[j] /\ (j > 1 => w[j - 1] = a[j - 1])
      BY <1>1, <2>1
    <3> QED
      BY <3>1 DEF ReadOps
  <2>2. CASE ~(j <= Len(a))
    <3> DEFINE i == j - Len(a)
    <3>1. i \in DOMAIN b /\ w[j] = b[i] /\ j \in Nat
      BY <1>1, <2>2
    <3>2. i > 1 => j > 1 /\ w[j - 1] = b[i - 1]
      BY <1>1, <2>2
    <3> HIDE DEF i
    <3> QED
      BY <3>1, <3>2 DEF ReadOps
  <2> QED
    BY <2>1, <2>2
<1> QED
  BY <1>1, <1>2 DEF ReadOps, w

LEMMA ReadsDue ==
  ASSUME NEW r \in Ranks \ {Last}, slots[r] \in Seq(Nat), Len(slots[r]) = Depth,
         NEW freed \in BOOLEAN
  PROVE  ReadOps(Peeks(r) \o Consumes(r, freed), Due(r))
<1>1. slots[r][1] \in Nat /\ slots[r][Depth] \in Nat
  BY PPStreamsAssumption
<1>2. ReadOps(<<>>, Due(r))
  BY DEF ReadOps
<1>3. ASSUME NEW t \in Nat, t \in Due(r)
      PROVE  ReadOps(<<MainOp("wait", t), MainOp("apply", t)>>, Due(r))
  <2> DEFINE a == MainOp("wait", t)
             b == MainOp("apply", t)
             w == <<a, b>>
  <2>1. /\ a \in Op /\ a.op = "wait" /\ a.step = t
        /\ b \in Op /\ b.op = "apply" /\ b.step = t
    BY DEF MainOp, Op
  <2>2. a = MainOp("wait", t)
    OBVIOUS
  <2> HIDE DEF a, b
  <2>3. w \in Seq(Op) /\ DOMAIN w = {1, 2} /\ w[1] = a /\ w[2] = b
    BY <2>1
  <2> HIDE DEF w
  <2>4. ReadOps(w, Due(r))
    BY <1>3, <2>1, <2>2, <2>3 DEF ReadOps
  <2> QED
    BY <2>4 DEF w, a, b
<1>4. ReadOps(Peeks(r), Due(r))
  <2>1. slots[r][Depth] # 0 => slots[r][Depth] \in Due(r)
    BY DEF Due
  <2> QED
    BY <1>1, <1>2, <1>3, <2>1 DEF Peeks
<1>5. ReadOps(Consumes(r, freed), Due(r))
  <2>1. slots[r][1] # 0 => slots[r][1] \in Due(r)
    BY DEF Due
  <2> QED
    BY <1>1, <1>2, <1>3, <2>1 DEF Consumes
<1> QED
  BY <1>4, <1>5, ReadsConcat

\* What execute_model appends: the entries due, then the step's own work.
Issues(r, ops) ==
  LET call == Head(calls[r])
  IN
  /\ ops \in Seq(Op)
  /\ main' = [main EXCEPT ![r] = main[r] \o ops]
  /\ \A j \in DOMAIN ops :
       /\ ops[j].op \in {"wait", "apply"} => ops[j].step \in Due(r)
       /\ ops[j].op = "apply" => j > 1 /\ ops[j - 1] = MainOp("wait", ops[j].step)
  /\ IF call.kind = "empty" THEN \A j \in DOMAIN ops : ops[j].op # "inputs"
     ELSE \E n \in DOMAIN ops :
            /\ ops[n] = MainOp("inputs", call.step)
            /\ \A j \in DOMAIN ops : /\ ops[j].op = "inputs" => j = n
                                     /\ ops[j].op = "apply" => j < n

LEMMA ExecuteIssues ==
  ASSUME StreamTypes, NEW r \in Ranks, NEW freed \in BOOLEAN, ExecuteModel(r, freed)
  PROVE  \E ops : Issues(r, ops)
<1> DEFINE call  == Head(calls[r])
           reads == IF r = Last THEN <<>> ELSE Peeks(r) \o Consumes(r, freed)
           runs  == IF call.kind = "empty" THEN <<>>
                    ELSE IF HasPle(r) THEN <<MainOp("inputs", call.step)>>
                    ELSE <<MainOp("inputs", call.step), MainOp("forward", call.step)>>
<1>1. /\ main[r] \in Seq(Op) /\ slots[r] \in Seq(Nat)
      /\ r # Last => Len(slots[r]) = Depth
      /\ call \in Call
  BY DEF StreamTypes, ExecuteModel
<1>2. main' = [main EXCEPT ![r] = (main[r] \o reads) \o runs]
  BY DEF ExecuteModel
<1>3. ReadOps(reads, Due(r))
  <2>1. CASE r = Last
    BY <2>1 DEF ReadOps
  <2>2. CASE r # Last
    BY <1>1, <2>2, ReadsDue
  <2> QED
    BY <2>1, <2>2
<1> DEFINE a == MainOp("inputs", call.step)
           b == MainOp("forward", call.step)
<1>4. a \in Op /\ b \in Op /\ a.op = "inputs" /\ b.op = "forward"
  BY <1>1 DEF MainOp, Op, Call
<1>5. /\ runs \in Seq(Op)
      /\ \A j \in DOMAIN runs : j \in Nat /\ runs[j].op \in {"inputs", "forward"}
                                /\ (runs[j].op = "inputs" => j = 1)
      /\ IF call.kind = "empty" THEN DOMAIN runs = {} ELSE 1 \in DOMAIN runs /\ runs[1] = a
  <2> HIDE DEF a, b, call
  <2>1. CASE call.kind = "empty"
    BY <2>1
  <2>2. CASE call.kind # "empty" /\ HasPle(r)
    <3>1. runs = <<a>>
      BY <2>2 DEF a
    <3> HIDE DEF runs
    <3> QED
      BY <1>4, <2>2, <3>1
  <2>3. CASE call.kind # "empty" /\ ~HasPle(r)
    <3>1. runs = <<a, b>>
      BY <2>3 DEF a, b
    <3> HIDE DEF runs
    <3> QED
      BY <1>4, <2>3, <3>1
  <2> QED
    BY <2>1, <2>2, <2>3
<1> DEFINE ops == reads \o runs
<1> HIDE DEF reads, runs, a, b, call
<1>6. /\ reads \in Seq(Op)
      /\ \A j \in DOMAIN reads :
           /\ reads[j].op \in {"wait", "apply"} /\ reads[j].step \in Due(r)
           /\ reads[j].op = "apply" => j > 1 /\ reads[j - 1] = MainOp("wait", reads[j].step)
  BY <1>3 DEF ReadOps
<1>7. /\ ops \in Seq(Op)
      /\ Len(reads) \in Nat /\ DOMAIN reads = 1..Len(reads)
      /\ Len(runs) \in Nat /\ DOMAIN runs = 1..Len(runs)
      /\ DOMAIN ops = 1..(Len(reads) + Len(runs))
      /\ \A i \in 1..(Len(reads) + Len(runs)) :
           ops[i] = IF i <= Len(reads) THEN reads[i] ELSE runs[i - Len(reads)]
  <2>1. /\ ops \in Seq(Op) /\ Len(ops) = Len(reads) + Len(runs)
        /\ \A i \in 1..(Len(reads) + Len(runs)) :
             ops[i] = IF i <= Len(reads) THEN reads[i] ELSE runs[i - Len(reads)]
    BY <1>5, <1>6, ConcatProperties
  <2> HIDE DEF ops
  <2> QED
    BY <1>5, <1>6, <2>1, LenProperties
<1>8. main' = [main EXCEPT ![r] = main[r] \o ops]
  <2>1. main[r] \in Seq(Op) /\ reads \in Seq(Op) /\ runs \in Seq(Op)
    BY <1>1, <1>5, <1>6
  <2>2. \A s, t, u \in Seq(Op) : (s \o t) \o u = s \o (t \o u)
    BY ConcatAssociative
  <2>3. (main[r] \o reads) \o runs = main[r] \o ops
    BY <2>1, <2>2, Zenon DEF ops
  <2> HIDE DEF ops
  <2> QED
    BY <1>2, <2>3, Zenon
<1> HIDE DEF ops
<1>9. ASSUME NEW j \in DOMAIN ops
      PROVE  /\ ops[j].op \in {"wait", "apply"} => j <= Len(reads) /\ ops[j].step \in Due(r)
             /\ ops[j].op = "apply" => j > 1 /\ ops[j - 1] = MainOp("wait", ops[j].step)
             /\ ops[j].op = "inputs" => j = Len(reads) + 1
             /\ j > Len(reads) => DOMAIN runs # {}
  <2>1. CASE j <= Len(reads)
    <3>1. j \in DOMAIN reads /\ ops[j] = reads[j] /\ (j > 1 => ops[j - 1] = reads[j - 1])
      BY <1>7, <2>1
    <3>2. ops[j].op # "inputs"
      BY <1>6, <3>1
    <3>3. ~(j > Len(reads))
      BY <1>7, <2>1
    <3> QED
      BY <1>6, <2>1, <3>1, <3>2, <3>3
  <2>2. CASE ~(j <= Len(reads))
    <3> DEFINE i == j - Len(reads)
    <3>1. i \in DOMAIN runs /\ ops[j] = runs[i] /\ j = Len(reads) + i
      BY <1>7, <2>2
    <3> HIDE DEF i
    <3>2. ops[j].op \in {"inputs", "forward"} /\ (ops[j].op = "inputs" => i = 1)
      BY <1>5, <3>1
    <3> QED
      BY <3>1, <3>2
  <2> QED
    BY <2>1, <2>2
<1>10. CASE call.kind = "empty"
  <2>1. \A j \in DOMAIN ops : ops[j].op # "inputs"
    <3>1. \A j \in DOMAIN ops : ~(j > Len(reads))
      BY <1>5, <1>9, <1>10
    <3>2. \A j \in DOMAIN ops : ops[j].op = "inputs" => j > Len(reads)
      BY <1>7, <1>9
    <3> QED
      BY <3>1, <3>2
  <2> QED
    BY <1>7, <1>8, <1>9, <1>10, <2>1 DEF Issues, call
<1>11. CASE call.kind # "empty"
  <2> DEFINE n == Len(reads) + 1
  <2>1. n \in DOMAIN ops /\ ops[n] = a
    BY <1>5, <1>7, <1>11
  <2>2. \A j \in DOMAIN ops : /\ ops[j].op = "inputs" => j = n
                              /\ ops[j].op = "apply" => j < n
    <3> TAKE j \in DOMAIN ops
    <3>1. j \in Nat /\ Len(reads) \in Nat
      BY <1>7
    <3>2. ops[j].op = "apply" => j <= Len(reads)
      BY <1>9
    <3> QED
      BY <1>9, <3>1, <3>2
  <2> HIDE DEF n
  <2>3. \E m \in DOMAIN ops :
          /\ ops[m] = MainOp("inputs", call.step)
          /\ \A j \in DOMAIN ops : /\ ops[j].op = "inputs" => j = m
                                   /\ ops[j].op = "apply" => j < m
    BY <2>1, <2>2 DEF a
  <2> QED
    BY <1>7, <1>8, <1>9, <1>11, <2>3 DEF Issues, call
<1> QED
  BY <1>10, <1>11

\* The last step rank r has issued all of.
Finished(r) == scheduled - Len(calls[r])

\* What rank r has queued or will read is of steps it has issued, and a read
\* follows the wait for it or, if that has run, what it reads has come.
Readable(r) ==
  /\ \A j \in DOMAIN slots[r] : slots[r][j] <= Finished(r)
  /\ \A i \in DOMAIN main[r] :
       /\ main[r][i].op \in {"wait", "apply"} => main[r][i].step <= Finished(r)
       /\ main[r][i].op = "apply" =>
            IF i = 1 THEN Arrived(r, main[r][i].step)
            ELSE main[r][i - 1] = MainOp("wait", main[r][i].step)

ReadInv == \A r \in Ranks : Readable(r)

\* Nothing rank r will read is among the collectives it gains.
NothingDue(r) ==
  /\ Finished(r) <= Finished(r)'
  /\ \A j \in DOMAIN side'[r] :
       \/ \E i \in DOMAIN side[r] : side'[r][j].step = side[r][i].step
       \/ Finished(r) < side'[r][j].step

LEMMA FinishedFacts ==
  ASSUME CollInv, NEW r \in Ranks
  PROVE  /\ Finished(r) \in Nat /\ main[r] \in Seq(Op) /\ slots[r] \in Seq(Nat)
         /\ \A i \in DOMAIN main[r] : i \in Nat /\ i >= 1 /\ main[r][i] \in Op /\ main[r][i].step \in Nat
         /\ \A i \in DOMAIN main[r] : i # 1 => i - 1 \in DOMAIN main[r]
         /\ \A j \in DOMAIN slots[r] : slots[r][j] \in Nat
<1>1. Finished(r) \in Nat
  <2>1. scheduled \in Nat /\ Len(calls[r]) \in Nat /\ Len(calls[r]) <= scheduled
    BY SideFacts
  <2> DEFINE n == Len(calls[r])
  <2> HIDE DEF n
  <2>2. scheduled - n \in Nat
    BY <2>1 DEF n
  <2> QED
    BY <2>2 DEF n, Finished
<1>2. main[r] \in Seq(Op) /\ slots[r] \in Seq(Nat)
  BY DEF CollInv, StreamTypes
<1>3. \A i \in DOMAIN main[r] : i \in Nat /\ i >= 1 /\ main[r][i] \in Op
  BY <1>2
<1>4. \A x \in Op : x.step \in Nat
  BY DEF Op
<1>5. \A i \in DOMAIN main[r] : i # 1 => i - 1 \in DOMAIN main[r]
  BY <1>2
<1>6. \A j \in DOMAIN slots[r] : slots[r][j] \in Nat
  BY <1>2
<1> QED
  BY <1>1, <1>2, <1>3, <1>4, <1>5, <1>6

LEMMA FinishedNext ==
  ASSUME CollInv', NEW r \in Ranks
  PROVE  Finished(r)' \in Nat
<1>1. scheduled' \in Nat /\ Len(calls'[r]) \in Nat /\ Len(calls'[r]) <= scheduled'
  BY DEF CollInv, StreamTypes, Lined
<1> DEFINE n == Len(calls'[r])
<1> HIDE DEF n
<1>2. scheduled' - n \in Nat
  BY <1>1 DEF n
<1> QED
  BY <1>2 DEF n, Finished

\* What has come has come for good.
LEMMA StillArrived ==
  ASSUME NEW r \in Ranks, NothingDue(r), NEW t \in Nat, t <= Finished(r),
         Finished(r) \in Nat, Arrived(r, t)
  PROVE  \A j \in DOMAIN side'[r] : side'[r][j].step # t
<1> SUFFICES ASSUME NEW j \in DOMAIN side'[r], side'[r][j].step = t PROVE FALSE
  OBVIOUS
<1>1. CASE \E i \in DOMAIN side[r] : side'[r][j].step = side[r][i].step
  BY <1>1 DEF Arrived
<1>2. CASE Finished(r) < side'[r][j].step
  BY <1>2
<1> QED
  BY <1>1, <1>2 DEF NothingDue

\* A main stream that only grows, by reads that wait.
LEMMA ReadGrown ==
  ASSUME CollInv, CollInv', NEW r \in Ranks, Readable(r), NothingDue(r),
         \A j \in DOMAIN slots'[r] :
           slots'[r][j] <= Finished(r)' \/ \E i \in DOMAIN slots[r] : slots'[r][j] = slots[r][i],
         \A i \in DOMAIN main[r] : i \in DOMAIN main'[r] /\ main'[r][i] = main[r][i],
         \A i \in DOMAIN main'[r] :
           \/ i \in DOMAIN main[r]
           \/ /\ main'[r][i].op \in {"wait", "apply"} => main'[r][i].step <= Finished(r)
              /\ main'[r][i].op = "apply" =>
                   i # 1 /\ main'[r][i - 1] = MainOp("wait", main'[r][i].step)
  PROVE  Readable(r)'
<1>0. Finished(r) \in Nat /\ Finished(r)' \in Nat /\ Finished(r) <= Finished(r)'
  BY FinishedFacts, FinishedNext DEF NothingDue
<1> DEFINE N == Finished(r)
           M == Finished(r)'
<1>1. N \in Nat /\ M \in Nat /\ N <= M
  BY <1>0
<1>2. \A j \in DOMAIN slots'[r] : slots'[r][j] <= M
  <2> TAKE j \in DOMAIN slots'[r]
  <2>1. CASE \E i \in DOMAIN slots[r] : slots'[r][j] = slots[r][i]
    <3>1. PICK i \in DOMAIN slots[r] : slots'[r][j] = slots[r][i]
      BY <2>1
    <3>2. slots[r][i] \in Nat /\ slots[r][i] <= N
      BY FinishedFacts DEF Readable
    <3> HIDE DEF N, M
    <3> QED
      BY <1>1, <3>1, <3>2
  <2> QED
    BY <2>1
<1>3. ASSUME NEW i \in DOMAIN main'[r]
      PROVE  /\ main'[r][i].op \in {"wait", "apply"} => main'[r][i].step <= M
             /\ main'[r][i].op = "apply" =>
                  IF i = 1 THEN Arrived(r, main[r][i].step)'
                  ELSE main'[r][i - 1] = MainOp("wait", main'[r][i].step)
  <2> DEFINE x == main'[r][i].step
  <2>0. main'[r][i] \in Op /\ x \in Nat
    <3>1. main'[r] \in Seq(Op)
      BY DEF CollInv, StreamTypes
    <3>2. main'[r][i] \in Op
      BY <3>1
    <3> QED
      BY <3>2 DEF Op
  <2>1. CASE i \in DOMAIN main[r]
    <3>1. main'[r][i] = main[r][i] /\ (i # 1 => main'[r][i - 1] = main[r][i - 1])
      BY <2>1, FinishedFacts
    <3>2. main'[r][i].op \in {"wait", "apply"} => x <= N
      BY <2>1, <3>1 DEF Readable
    <3>3. main'[r][i].op \in {"wait", "apply"} => x <= M
      <4> HIDE DEF N, M, x
      <4> QED
        BY <1>1, <2>0, <3>2
    <3>4. CASE i = 1 /\ main'[r][i].op = "apply"
      <4>1. Arrived(r, x)
        BY <2>1, <3>1, <3>4 DEF Readable
      <4>2. x \in Nat /\ x <= Finished(r)
        BY <2>0, <3>2, <3>4
      <4> HIDE DEF x
      <4>3. \A j \in DOMAIN side'[r] : side'[r][j].step # x
        BY <1>0, <4>1, <4>2, StillArrived
      <4>4. Arrived(r, main[r][i].step)'
        BY <4>3 DEF x, Arrived
      <4> QED
        BY <3>3, <3>4, <4>4 DEF x
    <3>5. CASE i # 1 /\ main'[r][i].op = "apply"
      BY <2>1, <3>1, <3>3, <3>5 DEF Readable
    <3> QED
      BY <3>3, <3>4, <3>5
  <2>2. CASE i \notin DOMAIN main[r]
    <3>1. /\ main'[r][i].op \in {"wait", "apply"} => x <= N
          /\ main'[r][i].op = "apply" => i # 1 /\ main'[r][i - 1] = MainOp("wait", x)
      BY <2>2
    <3>2. main'[r][i].op \in {"wait", "apply"} => x <= M
      <4> HIDE DEF N, M, x
      <4> QED
        BY <1>1, <2>0, <3>1
    <3> QED
      BY <3>1, <3>2
  <2> QED
    BY <2>1, <2>2
<1> QED
  BY <1>2, <1>3 DEF Readable

\* A main stream that runs its first operation.
LEMMA ReadPopped ==
  ASSUME CollInv, NEW r \in Ranks, Readable(r), NEW op, Runs(r, op),
         op = "wait" => Arrived(r, Running(r))
  PROVE  Readable(r)'
<1>1. /\ main[r][1].op = op /\ Running(r) = main[r][1].step
      /\ DOMAIN main'[r] = {i \in Nat \ {0} : i + 1 \in DOMAIN main[r]}
      /\ \A i \in DOMAIN main'[r] : main'[r][i] = main[r][i + 1]
  BY Popped DEF CollInv
<1>2. slots' = slots /\ calls' = calls /\ scheduled' = scheduled
      /\ Finished(r)' = Finished(r)
  BY DEF Runs, engineVars, Finished
<1>3. DOMAIN side'[r] = DOMAIN side[r] /\ \A i \in DOMAIN side[r] : side'[r][i].step = side[r][i].step
  <2>1. side' = [side EXCEPT ![r] = [i \in DOMAIN side[r] |-> Nearer(side[r][i])]]
        /\ side \in [Ranks -> Seq(Coll)]
    BY DEF Runs, CollInv, Sided
  <2>2. \A i \in DOMAIN side[r] : side[r][i] \in Coll
    BY SideFacts
  <2>3. \A x \in Coll : Nearer(x).step = x.step
    BY DEF Nearer, Coll
  <2> QED
    BY <2>1, <2>2, <2>3
<1>4. ASSUME NEW i \in DOMAIN main'[r]
      PROVE  /\ main'[r][i].op \in {"wait", "apply"} => main'[r][i].step <= Finished(r)
             /\ main'[r][i].op = "apply" =>
                  IF i = 1 THEN Arrived(r, main[r][i].step)'
                  ELSE main'[r][i - 1] = MainOp("wait", main'[r][i].step)
  <2>1. i + 1 \in DOMAIN main[r] /\ main'[r][i] = main[r][i + 1] /\ i \in Nat /\ i >= 1
    BY <1>1
  <2>2. /\ main[r][i + 1].op \in {"wait", "apply"} => main[r][i + 1].step <= Finished(r)
        /\ main[r][i + 1].op = "apply" => main[r][i] = MainOp("wait", main[r][i + 1].step)
    <3>1. i + 1 # 1 /\ (i + 1) - 1 = i
      BY <2>1
    <3> QED
      BY <2>1, <3>1 DEF Readable
  <2>3. CASE i = 1 /\ main'[r][i].op = "apply"
    <3>1. main[r][1] = MainOp("wait", main'[r][i].step)
      BY <2>1, <2>2, <2>3
    <3>2. op = "wait" /\ Running(r) = main'[r][i].step
      BY <1>1, <3>1 DEF MainOp
    <3>3. \A j \in DOMAIN side[r] : side[r][j].step # main'[r][i].step
      BY <3>2 DEF Arrived
    <3>4. Arrived(r, main[r][i].step)'
      BY <1>3, <3>3 DEF Arrived
    <3> QED
      BY <2>1, <2>2, <2>3, <3>4
  <2>4. CASE i # 1 /\ main'[r][i].op = "apply"
    <3>1. i - 1 \in DOMAIN main'[r]
      <4>1. i - 1 \in Nat \ {0} /\ (i - 1) + 1 = i
        BY <2>1, <2>4
      <4>2. i \in DOMAIN main[r]
        BY <2>1, FinishedFacts
      <4> QED
        BY <1>1, <4>1, <4>2
    <3>2. main'[r][i - 1] = main[r][i]
      <4>1. (i - 1) + 1 = i
        BY <2>1
      <4> QED
        BY <1>1, <3>1, <4>1
    <3> QED
      BY <2>1, <2>2, <2>4, <3>2
  <2> QED
    BY <2>1, <2>2, <2>3, <2>4
<1> QED
  BY <1>2, <1>4 DEF Readable

LEMMA ReadSame ==
  ASSUME CollInv, CollInv', NEW r \in Ranks, Readable(r), NothingDue(r),
         slots'[r] = slots[r], main'[r] = main[r]
  PROVE  Readable(r)'
<1>1. \A j \in DOMAIN slots'[r] : \E i \in DOMAIN slots[r] : slots'[r][j] = slots[r][i]
  OBVIOUS
<1>2. \A i \in DOMAIN main[r] : i \in DOMAIN main'[r] /\ main'[r][i] = main[r][i]
  OBVIOUS
<1>3. \A i \in DOMAIN main'[r] : i \in DOMAIN main[r]
  OBVIOUS
<1> QED
  BY <1>1, <1>2, <1>3, ReadGrown

\* A rank that does nothing, though others do, or that only pops its stream.
LEMMA NothingNew ==
  ASSUME CollInv, NEW r \in Ranks, scheduled' = scheduled, calls'[r] = calls[r],
         \A j \in DOMAIN side'[r] : \E i \in DOMAIN side[r] : side'[r][j].step = side[r][i].step
  PROVE  NothingDue(r)
<1>1. Finished(r)' = Finished(r)
  BY DEF Finished
<1>2. Finished(r) \in Nat
  BY FinishedFacts
<1> QED
  BY <1>1, <1>2 DEF NothingDue

\* A queue that moves by one place.
LEMMA Shifted ==
  ASSUME NEW q \in Seq(Nat), q # <<>>
  PROVE  /\ Append(Tail(q), 0) \in Seq(Nat) /\ Len(Append(Tail(q), 0)) = Len(q)
         /\ \A j \in 1..Len(q) : Append(Tail(q), 0)[j] = IF j = Len(q) THEN 0 ELSE q[j + 1]
<1> DEFINE d == Tail(q)
           w == Append(d, 0)
<1>1. /\ d \in Seq(Nat) /\ Len(d) = Len(q) - 1 /\ \A i \in 1..Len(d) : d[i] = q[i + 1]
      /\ Len(q) \in Nat /\ Len(d) \in Nat
  BY HeadTailProperties, LenProperties
<1> HIDE DEF d
<1>2. /\ w \in Seq(Nat) /\ Len(w) = Len(d) + 1
      /\ \A i \in 1..Len(d) : w[i] = d[i]
      /\ w[Len(d) + 1] = 0
  BY <1>1, AppendProperties
<1> HIDE DEF w
<1>3. \A j \in 1..Len(q) : w[j] = IF j = Len(q) THEN 0 ELSE q[j + 1]
  <2> TAKE j \in 1..Len(q)
  <2>1. CASE j = Len(q)
    BY <1>1, <1>2, <2>1
  <2>2. CASE j # Len(q)
    <3>1. j \in 1..Len(d)
      BY <1>1, <2>2
    <3>2. w[j] = d[j] /\ d[j] = q[j + 1]
      BY <1>1, <1>2, <3>1
    <3> QED
      BY <2>2, <3>2
  <2> QED
    BY <2>1, <2>2
<1>4. w \in Seq(Nat) /\ Len(w) = Len(q)
  BY <1>1, <1>2
<1> QED
  BY <1>3, <1>4 DEF w, d

\* What execute_model does to a rank's queue.
LEMMA ExecuteSlots ==
  ASSUME StreamTypes, NEW r \in Ranks, NEW freed \in BOOLEAN, ExecuteModel(r, freed)
  PROVE  /\ \A s \in Ranks \ {r} : slots'[s] = slots[s]
         /\ r = Last => slots' = slots
         /\ r # Last => /\ DOMAIN slots[r] = 1..Depth /\ DOMAIN slots'[r] = 1..Depth
                        /\ slots[r] \in Seq(Nat)
                        /\ \A j \in 1..Depth :
                             slots'[r][j] = IF j = Depth THEN 0 ELSE slots[r][j + 1]
<1>1. CASE r = Last
  BY <1>1 DEF ExecuteModel
<1>2. CASE r # Last
  <2>1. /\ slots' = [slots EXCEPT ![r] = Append(Tail(slots[r]), 0)]
        /\ slots \in [Ranks -> Seq(Nat)] /\ slots[r] \in Seq(Nat) /\ Len(slots[r]) = Depth
    BY <1>2 DEF ExecuteModel, StreamTypes
  <2>2. slots[r] # <<>> /\ DOMAIN slots[r] = 1..Depth
    BY <2>1, EmptySeq, LenProperties, PPStreamsAssumption
  <2>3. /\ slots'[r] = Append(Tail(slots[r]), 0)
        /\ \A s \in Ranks \ {r} : slots'[s] = slots[s]
    BY <2>1
  <2>4. /\ slots'[r] \in Seq(Nat) /\ Len(slots'[r]) = Depth
        /\ \A j \in 1..Depth : slots'[r][j] = IF j = Depth THEN 0 ELSE slots[r][j + 1]
    BY <2>1, <2>2, <2>3, Shifted
  <2>5. DOMAIN slots'[r] = 1..Depth
    BY <2>4, LenProperties
  <2> QED
    BY <1>2, <2>1, <2>2, <2>3, <2>4, <2>5
<1> QED
  BY <1>1, <1>2

\* Appending to a main stream moves nothing in it.
LEMMA MainAppended ==
  ASSUME NEW q \in Seq(Op), NEW ops \in Seq(Op)
  PROVE  /\ q \o ops \in Seq(Op)
         /\ Len(q) \in Nat /\ Len(ops) \in Nat
         /\ DOMAIN q = 1..Len(q) /\ DOMAIN ops = 1..Len(ops)
         /\ DOMAIN (q \o ops) = 1..(Len(q) + Len(ops))
         /\ \A i \in DOMAIN q : i \in DOMAIN (q \o ops) /\ (q \o ops)[i] = q[i]
         /\ \A j \in DOMAIN ops : Len(q) + j \in DOMAIN (q \o ops)
                                  /\ (q \o ops)[Len(q) + j] = ops[j]
         /\ \A i \in DOMAIN (q \o ops) :
              \/ i \in DOMAIN q
              \/ \E j \in DOMAIN ops : i = Len(q) + j
<1>1. /\ q \o ops \in Seq(Op) /\ Len(q \o ops) = Len(q) + Len(ops)
      /\ \A i \in 1..(Len(q) + Len(ops)) :
           (q \o ops)[i] = IF i <= Len(q) THEN q[i] ELSE ops[i - Len(q)]
  BY ConcatProperties
<1>2. Len(q) \in Nat /\ Len(ops) \in Nat /\ DOMAIN q = 1..Len(q) /\ DOMAIN ops = 1..Len(ops)
      /\ DOMAIN (q \o ops) = 1..(Len(q) + Len(ops))
  BY <1>1, LenProperties
<1>3. \A i \in DOMAIN q : i \in DOMAIN (q \o ops) /\ (q \o ops)[i] = q[i]
  BY <1>1, <1>2
<1>4. \A j \in DOMAIN ops : Len(q) + j \in DOMAIN (q \o ops) /\ (q \o ops)[Len(q) + j] = ops[j]
  <2> TAKE j \in DOMAIN ops
  <2>1. Len(q) + j \in 1..(Len(q) + Len(ops)) /\ ~(Len(q) + j <= Len(q)) /\ (Len(q) + j) - Len(q) = j
    BY <1>2
  <2> QED
    BY <1>1, <1>2, <2>1
<1>5. ASSUME NEW i \in DOMAIN (q \o ops), i \notin DOMAIN q
      PROVE  \E j \in DOMAIN ops : i = Len(q) + j
  <2>1. i - Len(q) \in DOMAIN ops /\ i = Len(q) + (i - Len(q))
    BY <1>2, <1>5
  <2> QED
    BY <2>1
<1> QED
  BY <1>1, <1>2, <1>3, <1>4, <1>5

LEMMA ReadExecute ==
  ASSUME CollInv, CollInv', NEW r \in Ranks, NEW freed \in BOOLEAN, ExecuteModel(r, freed),
         Readable(r)
  PROVE  Readable(r)'
<1>0. StreamTypes /\ side \in [Ranks -> Seq(Coll)]
  BY DEF CollInv, Sided
<1>1. PICK ops : Issues(r, ops)
  BY <1>0, ExecuteIssues
<1>2. NothingDue(r)
  <2>1. Finished(r) <= Finished(r)'
    <3>1. CASE UNCHANGED <<calls, side, scheduled>>
      BY <3>1, FinishedFacts DEF Finished
    <3>2. CASE Finishes(r, <<>>)
      <4>1. /\ Len(calls'[r]) = Len(calls[r]) - 1 /\ Len(calls'[r]) \in Nat
            /\ scheduled' = scheduled
        <5>1. <<>> \in Seq(Coll)
          OBVIOUS
        <5> QED
          BY <3>2, <5>1, FinishLined DEF Finishes
      <4>2. scheduled \in Nat /\ Len(calls[r]) \in Nat
        BY SideFacts
      <4> DEFINE m == Len(calls'[r])
                 n == Len(calls[r])
      <4> HIDE DEF m, n
      <4>3. scheduled - n <= scheduled - m
        BY <4>1, <4>2 DEF m, n
      <4> QED
        BY <4>1, <4>3 DEF Finished, m, n
    <3> QED
      BY <1>0, <3>1, <3>2, ExecuteFinishes
  <2>2. side' = side
    BY DEF ExecuteModel
  <2> QED
    BY <2>1, <2>2 DEF NothingDue
<1>3. \A t \in Due(r) : t <= Finished(r)
  <2>1. r # Last => 1 \in DOMAIN slots[r] /\ Depth \in DOMAIN slots[r]
    BY <1>0, ExecuteSlots, PPStreamsAssumption
  <2> QED
    BY <2>1 DEF Due, Readable
<1>4. \A j \in DOMAIN slots'[r] :
        slots'[r][j] <= Finished(r)' \/ \E i \in DOMAIN slots[r] : slots'[r][j] = slots[r][i]
  <2>1. CASE r = Last
    BY <1>0, <2>1, ExecuteSlots
  <2>2. CASE r # Last
    <3>1. /\ DOMAIN slots[r] = 1..Depth /\ DOMAIN slots'[r] = 1..Depth
          /\ \A j \in 1..Depth : slots'[r][j] = IF j = Depth THEN 0 ELSE slots[r][j + 1]
      BY <1>0, <2>2, ExecuteSlots
    <3>2. 0 <= Finished(r)'
      <4>1. Finished(r)' \in Nat
        BY FinishedNext
      <4> QED
        BY <4>1
    <3>3. \A j \in 1..Depth : j # Depth => j + 1 \in 1..Depth
      BY PPStreamsAssumption
    <3> QED
      BY <3>1, <3>2, <3>3
  <2> QED
    BY <2>1, <2>2
<1>5. /\ main[r] \in Seq(Op) /\ ops \in Seq(Op) /\ main'[r] = main[r] \o ops
  BY <1>0, <1>1 DEF StreamTypes, Issues
<1>6. \A i \in DOMAIN main[r] : i \in DOMAIN main'[r] /\ main'[r][i] = main[r][i]
  BY <1>5, MainAppended
<1>7. ASSUME NEW i \in DOMAIN main'[r], i \notin DOMAIN main[r]
      PROVE  /\ main'[r][i].op \in {"wait", "apply"} => main'[r][i].step <= Finished(r)
             /\ main'[r][i].op = "apply" =>
                  i # 1 /\ main'[r][i - 1] = MainOp("wait", main'[r][i].step)
  <2> DEFINE n == Len(main[r])
  <2>1. PICK j \in DOMAIN ops : i = n + j
    BY <1>5, <1>7, MainAppended
  <2>2. n \in Nat /\ j \in Nat /\ j >= 1 /\ main'[r][i] = ops[j]
    BY <1>5, <2>1, MainAppended
  <2>3. /\ ops[j].op \in {"wait", "apply"} => ops[j].step \in Due(r)
        /\ ops[j].op = "apply" => j > 1 /\ ops[j - 1] = MainOp("wait", ops[j].step)
    BY <1>1 DEF Issues
  <2>4. ops[j].op = "apply" => i # 1 /\ main'[r][i - 1] = MainOp("wait", ops[j].step)
    <3> SUFFICES ASSUME ops[j].op = "apply"
                 PROVE  i # 1 /\ main'[r][i - 1] = MainOp("wait", ops[j].step)
      OBVIOUS
    <3>1. j - 1 \in DOMAIN ops
      BY <1>5, <2>3
    <3>2. main'[r][n + (j - 1)] = ops[j - 1]
      BY <1>5, <3>1, MainAppended
    <3> HIDE DEF n
    <3>3. n + (j - 1) = i - 1 /\ i # 1
      BY <2>1, <2>2, <2>3
    <3> QED
      BY <2>3, <3>2, <3>3
  <2> QED
    BY <1>3, <2>2, <2>3, <2>4
<1> QED
  BY <1>2, <1>4, <1>6, <1>7, ReadGrown

\* One operation more, that neither waits for an entry nor reads one.
LEMMA ReadAppended ==
  ASSUME CollInv, CollInv', NEW r \in Ranks, Readable(r), NothingDue(r),
         \A j \in DOMAIN slots'[r] :
           slots'[r][j] <= Finished(r)' \/ \E i \in DOMAIN slots[r] : slots'[r][j] = slots[r][i],
         NEW x \in Op, x.op \notin {"wait", "apply"}, main'[r] = Append(main[r], x)
  PROVE  Readable(r)'
<1>1. main[r] \in Seq(Op)
  BY FinishedFacts
<1> DEFINE q == main[r]
           w == main'[r]
<1> HIDE DEF q, w
<1>2. /\ Len(q) \in Nat /\ DOMAIN q = 1..Len(q) /\ DOMAIN w = 1..(Len(q) + 1)
      /\ \A i \in 1..Len(q) : w[i] = q[i]
      /\ w[Len(q) + 1] = x
  <2>1. q \in Seq(Op) /\ w = Append(q, x)
    BY <1>1 DEF q, w
  <2> QED
    BY <2>1, AppendProperties, LenProperties
<1>3. \A i \in DOMAIN q : i \in DOMAIN w /\ w[i] = q[i]
  BY <1>2
<1>4. \A i \in DOMAIN w : i \in DOMAIN q \/ w[i].op \notin {"wait", "apply"}
  <2> TAKE i \in DOMAIN w
  <2>1. i \in DOMAIN q \/ i = Len(q) + 1
    BY <1>2
  <2> QED
    BY <1>2, <2>1
<1>5. /\ \A i \in DOMAIN main[r] : i \in DOMAIN main'[r] /\ main'[r][i] = main[r][i]
      /\ \A i \in DOMAIN main'[r] :
           i \in DOMAIN main[r] \/ main'[r][i].op \notin {"wait", "apply"}
  BY <1>3, <1>4 DEF q, w
<1> QED
  BY <1>5, ReadGrown

LEMMA ReadSample ==
  ASSUME CollInv, CollInv', NEW r \in Ranks, SampleTokens(r), Readable(r)
  PROVE  Readable(r)'
<1>0. StreamTypes /\ side \in [Ranks -> Seq(Coll)] /\ StreamTypes'
  BY DEF CollInv, Sided
<1> DEFINE call == Head(calls[r])
<1>1. PICK posts \in Seq(Coll) : Finishes(r, posts)
  BY <1>0, SampleFinishes
<1>2. /\ Len(calls'[r]) = Len(calls[r]) - 1 /\ Len(calls'[r]) \in Nat
      /\ call.step = scheduled - Len(calls'[r])
      /\ side'[r] = side[r] \o posts /\ scheduled' = scheduled
  BY <1>1, FinishLined DEF Finishes
<1>3. Finished(r)' = call.step /\ Finished(r) < call.step /\ call.step \in Nat
  <2>1. Finished(r)' = call.step
    BY <1>2 DEF Finished
  <2>2. call.step \in Nat
    BY <2>1, FinishedNext
  <2>3. Finished(r) < call.step
    <3> DEFINE m == Len(calls'[r])
               n == Len(calls[r])
               t == call.step
    <3>1. m = n - 1 /\ m \in Nat /\ n \in Nat /\ scheduled \in Nat /\ t = scheduled - m
      BY <1>2, SideFacts
    <3> HIDE DEF m, n, t
    <3>2. scheduled - n < t
      BY <3>1
    <3> QED
      BY <3>2 DEF Finished, n, t
  <2> QED
    BY <2>1, <2>2, <2>3
<1>4. ASSUME NEW j \in DOMAIN posts PROVE posts[j].step = call.step
  <2>1. call.kind = "sampled" => Posted(posts, call.step)
    BY <1>1 DEF Finishes
  <2>2. call.kind # "sampled" => posts = <<>>
    BY <1>1 DEF Finishes
  <2>3. call.kind = "sampled"
    BY <1>4, <2>2
  <2> QED
    BY <2>1, <2>3 DEF Posted
<1> HIDE DEF call
<1>5. NothingDue(r)
  <2>1. ASSUME NEW j \in DOMAIN side'[r]
        PROVE  \/ \E i \in DOMAIN side[r] : side'[r][j].step = side[r][i].step
               \/ Finished(r) < side'[r][j].step
    <3> DEFINE q == side[r]
               w == side'[r]
    <3>1. q \in Seq(Coll) /\ w = q \o posts
      BY <1>0, <1>2
    <3> HIDE DEF q, w
    <3>2. /\ w \in Seq(Coll) /\ Len(w) = Len(q) + Len(posts)
          /\ \A i \in 1..(Len(q) + Len(posts)) :
               w[i] = IF i <= Len(q) THEN q[i] ELSE posts[i - Len(q)]
          /\ DOMAIN q = 1..Len(q) /\ DOMAIN posts = 1..Len(posts) /\ DOMAIN w = 1..Len(w)
          /\ Len(q) \in Nat /\ Len(posts) \in Nat
      BY <3>1, ConcatProperties, LenProperties
    <3>3. j \in DOMAIN w
      BY DEF w
    <3>4. \/ j \in DOMAIN q /\ w[j] = q[j]
          \/ j - Len(q) \in DOMAIN posts /\ w[j] = posts[j - Len(q)]
      BY <3>2, <3>3
    <3>5. (\E i \in DOMAIN q : w[j].step = q[i].step) \/ Finished(r) < w[j].step
      BY <1>3, <1>4, <3>4
    <3> QED
      BY <3>5 DEF q, w
  <2>2. Finished(r) <= Finished(r)'
    BY <1>3, FinishedFacts
  <2> QED
    BY <2>1, <2>2 DEF NothingDue
<1>6. \A j \in DOMAIN slots'[r] :
        slots'[r][j] <= Finished(r)' \/ \E i \in DOMAIN slots[r] : slots'[r][j] = slots[r][i]
  <2>1. CASE slots' = slots
    BY <2>1
  <2>2. CASE slots' # slots
    <3>1. slots' = [slots EXCEPT ![r][Depth] = call.step]
      BY <2>2 DEF SampleTokens, call
    <3>2. /\ slots \in [Ranks -> Seq(Nat)]
          /\ slots'[r] = [slots[r] EXCEPT ![Depth] = call.step]
      BY <1>0, <3>1 DEF StreamTypes
    <3>3. \A j \in DOMAIN slots'[r] :
            j \in DOMAIN slots[r] /\ (slots'[r][j] = slots[r][j] \/ slots'[r][j] = call.step)
      BY <3>2
    <3>4. call.step <= Finished(r)'
      BY <1>3
    <3> QED
      BY <3>3, <3>4
  <2> QED
    BY <2>1, <2>2
<1>7. CASE main' = main
  <2>1. /\ \A i \in DOMAIN main[r] : i \in DOMAIN main'[r] /\ main'[r][i] = main[r][i]
        /\ \A i \in DOMAIN main'[r] : i \in DOMAIN main[r]
    BY <1>7
  <2> QED
    BY <1>5, <1>6, <2>1, ReadGrown
<1>8. CASE main' # main
  <2> DEFINE x == MainOp("propose", call.step)
  <2>1. x \in Op /\ x.op \notin {"wait", "apply"}
    BY <1>3 DEF MainOp, Op
  <2>2. main' = [main EXCEPT ![r] = Append(main[r], x)]
    BY <1>8 DEF SampleTokens, call
  <2> HIDE DEF x
  <2>3. main'[r] = Append(main[r], x)
    BY <1>0, <2>2 DEF StreamTypes
  <2> QED
    BY <1>5, <1>6, <2>1, <2>3, ReadAppended
<1> QED
  BY <1>7, <1>8

\* A step more for every rank: none has finished more of them.
LEMMA ScheduleFinished ==
  ASSUME CollInv, NEW k \in Kinds, Schedule(k), NEW r \in Ranks
  PROVE  Finished(r)' = Finished(r)
<1> DEFINE c == [step |-> scheduled + 1, kind |-> k]
           n == Len(calls[r])
           m == Len(calls'[r])
<1>1. calls[r] \in Seq(Call) /\ scheduled \in Nat
  BY DEF CollInv, StreamTypes
<1>2. c \in Call
  BY <1>1 DEF Call
<1>3. scheduled' = scheduled + 1 /\ calls' = [t \in Ranks |-> Append(calls[t], c)]
  BY DEF Schedule
<1>4. calls'[r] = Append(calls[r], c)
  BY <1>3
<1> HIDE DEF c
<1>5. m = n + 1 /\ n \in Nat
  BY <1>1, <1>2, <1>4, AppendProperties, LenProperties
<1> HIDE DEF m, n
<1>6. scheduled' - m = scheduled - n
  BY <1>1, <1>3, <1>5
<1> QED
  BY <1>6 DEF Finished, m, n

LEMMA ReadStep == CollInv /\ ReadInv /\ [Next]_vars => ReadInv'
<1> SUFFICES ASSUME CollInv, ReadInv, [Next]_vars, NEW r \in Ranks PROVE Readable(r)'
  BY DEF ReadInv
<1>0. /\ CollInv' /\ Readable(r) /\ StreamTypes /\ side \in [Ranks -> Seq(Coll)]
  BY CollStep DEF ReadInv, CollInv, Sided
<1>1. CASE UNCHANGED <<scheduled, calls, side, slots, main>>
  <2>1. NothingDue(r)
    BY <1>1, NothingNew
  <2> QED
    BY <1>0, <1>1, <2>1, ReadSame
<1>2. ASSUME NEW k \in Kinds, Schedule(k) PROVE Readable(r)'
  <2>1. UNCHANGED <<side, slots, main>>
    BY <1>2 DEF Schedule
  <2>2. Finished(r)' = Finished(r)
    BY <1>2, ScheduleFinished
  <2>3. NothingDue(r)
    BY <2>1, <2>2, FinishedFacts DEF NothingDue
  <2> QED
    BY <1>0, <2>1, <2>3, ReadSame
<1>3. ASSUME NEW s \in Ranks, NEW freed \in BOOLEAN, ExecuteModel(s, freed) PROVE Readable(r)'
  <2>1. CASE s = r
    BY <1>0, <1>3, <2>1, ReadExecute
  <2>2. CASE s # r
    <3>1. /\ side' = side /\ main'[r] = main[r] /\ calls'[r] = calls[r] /\ scheduled' = scheduled
          /\ slots'[r] = slots[r]
      BY <1>0, <1>3, <2>2 DEF ExecuteModel, engineVars, StreamTypes
    <3>2. NothingDue(r)
      BY <3>1, NothingNew
    <3> QED
      BY <1>0, <3>1, <3>2, ReadSame
  <2> QED
    BY <2>1, <2>2
<1>4. ASSUME NEW s \in Ranks, SampleTokens(s) PROVE Readable(r)'
  <2>1. CASE s = r
    BY <1>0, <1>4, <2>1, ReadSample
  <2>2. CASE s # r
    <3>1. /\ side'[r] = side[r] /\ main'[r] = main[r] /\ calls'[r] = calls[r]
          /\ scheduled' = scheduled /\ slots'[r] = slots[r]
      BY <1>0, <1>4, <2>2 DEF SampleTokens, engineVars, StreamTypes
    <3>2. NothingDue(r)
      BY <3>1, NothingNew
    <3> QED
      BY <1>0, <3>1, <3>2, ReadSame
  <2> QED
    BY <2>1, <2>2
<1>5. ASSUME NEW s \in Ranks, RunMain(s) PROVE Readable(r)'
  <2>1. PICK op : Runs(s, op) /\ (op = "wait" => Arrived(s, Running(s)))
    BY <1>5 DEF RunMain, PrepareInputs, Forward, WaitReceived, ApplySampled, Propose
  <2>2. CASE s = r
    BY <1>0, <2>1, <2>2, ReadPopped
  <2>3. CASE s # r
    <3>1. /\ side'[r] = side[r] /\ main'[r] = main[r] /\ calls' = calls
          /\ scheduled' = scheduled /\ slots' = slots
      BY <1>0, <2>1, <2>3 DEF Runs, engineVars, StreamTypes
    <3>2. NothingDue(r)
      BY <3>1, NothingNew
    <3> QED
      BY <1>0, <3>1, <3>2, ReadSame
  <2> QED
    BY <2>2, <2>3
<1>6. ASSUME RunCollective PROVE Readable(r)'
  <2>1. /\ side'[r] = Tail(side[r]) /\ side[r] # <<>> /\ side[r] \in Seq(Coll)
        /\ UNCHANGED <<main, calls, scheduled, slots>>
    BY <1>0, <1>6 DEF RunCollective, engineVars
  <2>2. \A j \in DOMAIN side'[r] : \E i \in DOMAIN side[r] : side'[r][j].step = side[r][i].step
    <3> DEFINE q == side[r]
               w == side'[r]
    <3>1. q \in Seq(Coll) /\ q # <<>> /\ w = Tail(q)
      BY <2>1
    <3> HIDE DEF q, w
    <3>2. w \in Seq(Coll) /\ Len(w) = Len(q) - 1 /\ \A i \in 1..Len(w) : w[i] = q[i + 1]
      BY <3>1, HeadTailProperties
    <3>3. Len(q) \in Nat \ {0} /\ DOMAIN q = 1..Len(q) /\ DOMAIN w = 1..Len(w)
      BY <3>1, <3>2, EmptySeq, LenProperties
    <3>4. \A j \in DOMAIN w : j + 1 \in DOMAIN q /\ w[j].step = q[j + 1].step
      BY <3>2, <3>3
    <3> QED
      BY <3>4 DEF q, w
  <2>3. NothingDue(r)
    BY <2>1, <2>2, NothingNew
  <2> QED
    BY <1>0, <2>1, <2>3, ReadSame
<1>7. ASSUME PrepareForward PROVE Readable(r)'
  <2>1. UNCHANGED <<side, calls, scheduled, slots>>
    BY <1>7 DEF PrepareForward, engineVars
  <2>2. NothingDue(r)
    BY <2>1, NothingNew
  <2>3. CASE r = 1
    <3> DEFINE x == MainOp("forward", Head(calls[1]).step)
    <3>1. x \in Op /\ x.op \notin {"wait", "apply"}
      <4>1. calls[1] # <<>> /\ calls[1] \in Seq(Call)
        BY <1>0, <1>7, FirstRank DEF PrepareForward, StreamTypes
      <4>2. Head(calls[1]) \in Call
        BY <4>1
      <4> QED
        BY <4>2 DEF MainOp, Op, Call
    <3>2. main' = [main EXCEPT ![1] = Append(main[1], x)]
      BY <1>7 DEF PrepareForward
    <3> HIDE DEF x
    <3>3. main'[r] = Append(main[r], x)
      BY <1>0, <2>3, <3>2 DEF StreamTypes
    <3>4. \A j \in DOMAIN slots'[r] : \E i \in DOMAIN slots[r] : slots'[r][j] = slots[r][i]
      BY <2>1
    <3> QED
      BY <1>0, <2>2, <3>1, <3>3, <3>4, ReadAppended
  <2>4. CASE r # 1
    <3>1. main'[r] = main[r]
      BY <1>0, <1>7, <2>4 DEF PrepareForward, StreamTypes
    <3> QED
      BY <1>0, <2>1, <2>2, <3>1, ReadSame
  <2> QED
    BY <2>3, <2>4
<1>8. CASE Process \/ TakeRequest \/ StageInputs \/ UNCHANGED vars
  BY <1>1, <1>8 DEF Process, TakeRequest, StageInputs, vars, engineVars, rankVars
<1> QED
  BY <1>2, <1>3, <1>4, <1>5, <1>6, <1>7, <1>8 DEF Next, Work, Issue

LEMMA ReadInit == Init => ReadInv
<1> SUFFICES ASSUME Init, NEW r \in Ranks PROVE Readable(r)
  BY DEF ReadInv
<1>1. /\ scheduled = 0 /\ calls[r] = <<>> /\ main[r] = <<>>
      /\ slots[r] = IF r = Last THEN <<>> ELSE [i \in Ranks |-> 0]
  BY DEF Init
<1>2. Len(<<>>) = 0 /\ DOMAIN <<>> = {}
  OBVIOUS
<1>3. \A j \in DOMAIN slots[r] : slots[r][j] = 0
  BY <1>1
<1>4. Len(calls[r]) = 0 /\ DOMAIN main[r] = {}
  BY <1>1, <1>2, Zenon
<1>5. Finished(r) = 0
  <2> DEFINE n == Len(calls[r])
  <2>1. n = 0 /\ scheduled = 0
    BY <1>1, <1>4
  <2> HIDE DEF n
  <2>2. scheduled - n = 0
    BY <2>1
  <2> QED
    BY <2>2 DEF Finished, n
<1> QED
  BY <1>3, <1>4, <1>5 DEF Readable

(***************************************************************************)
(* The main stream of a rank reads the entry of a step only after the      *)
(* collectives of that step have run on that rank: the wait stands right   *)
(* before the read, and nothing is posted again for a step that has been   *)
(* issued (pp_utils.py:132).                                               *)
(***************************************************************************)
THEOREM ReadsOnlyArrived == Spec => []ReadsArrived
<1>1. CollInv /\ ReadInv => ReadsArrived
  <2> SUFFICES ASSUME CollInv, ReadInv, NEW r \in Ranks, main[r] # <<>>,
                      Head(main[r]).op = "apply"
               PROVE  Arrived(r, Head(main[r]).step)
    BY DEF ReadsArrived
  <2>1. main[r] \in Seq(Op)
    BY FinishedFacts
  <2>2. 1 \in DOMAIN main[r] /\ Head(main[r]) = main[r][1]
    BY <2>1
  <2> QED
    BY <2>2 DEF ReadInv, Readable
<1> QED
  BY <1>1, CollInit, CollStep, ReadInit, ReadStep, PTL DEF Spec

-----------------------------------------------------------------------------
(* The rotating sets of block tables.                                      *)

Sets == 0..(Pool - 1)

\* Steps ago that set s was taken, when n is the one in use.
Age(n, s) == IF s <= n THEN n - s ELSE (n - s) + Pool

\* The tables in the sets are of ever older steps.
RingIn(T, n) ==
  /\ T \in [Sets -> Nat] /\ n \in Sets
  /\ \A s, q \in Sets :
       Age(n, s) <= Age(n, q) => T[q] = 0 \/ T[q] + (Age(n, q) - Age(n, s)) <= T[s]

LEMMA TurnNext ==
  ASSUME NEW n \in Sets
  PROVE  NextTurn(n) \in Sets /\ NextTurn(n) = IF n = Pool - 1 THEN 0 ELSE n + 1
<1>1. Pool \in Nat /\ Pool >= 1 /\ n \in Nat /\ n <= Pool - 1
  BY PPStreamsAssumption DEF Sets
<1>2. CASE n = Pool - 1
  <2>1. Pool % Pool = 0
    BY <1>1
  <2> QED
    BY <1>1, <1>2, <2>1 DEF NextTurn, Sets
<1>3. CASE n # Pool - 1
  <2>1. (n + 1) \in 0..(Pool - 1)
    BY <1>1, <1>3
  <2>2. \A m \in 0..(Pool - 1) : m % Pool = m
    BY <1>1
  <2> QED
    BY <1>1, <1>3, <2>1, <2>2 DEF NextTurn, Sets
<1> QED
  BY <1>2, <1>3

LEMMA AgeFacts ==
  ASSUME NEW n \in Sets, NEW s \in Sets
  PROVE  /\ Age(n, s) \in Nat /\ Age(n, n) = 0 /\ Age(n, NextTurn(n)) = Pool - 1
         /\ Age(n, s) <= Pool - 1
         /\ s # NextTurn(n) => Age(n, s) < Pool - 1
         /\ Age(NextTurn(n), s) = IF s = NextTurn(n) THEN 0 ELSE Age(n, s) + 1
<1>1. Pool \in Nat /\ Pool >= 1 /\ n \in Nat /\ n <= Pool - 1 /\ s \in Nat /\ s <= Pool - 1
  BY PPStreamsAssumption DEF Sets
<1>2. NextTurn(n) = IF n = Pool - 1 THEN 0 ELSE n + 1
  BY TurnNext
<1>3. CASE n = Pool - 1
  BY <1>1, <1>2, <1>3 DEF Age
<1>4. CASE n # Pool - 1
  BY <1>1, <1>2, <1>4 DEF Age
<1> QED
  BY <1>3, <1>4

\* Gathering the tables of a newer step in the next set.
LEMMA RingGathers ==
  ASSUME NEW T, NEW n, RingIn(T, n), NEW x \in Nat, \A s \in Sets : T[s] < x
  PROVE  RingIn([T EXCEPT ![NextTurn(n)] = x], NextTurn(n))
<1> DEFINE u == NextTurn(n)
           U == [T EXCEPT ![u] = x]
<1>1. n \in Sets /\ u \in Sets /\ T \in [Sets -> Nat]
  BY TurnNext DEF RingIn
<1>2. U \in [Sets -> Nat] /\ \A s \in Sets : U[s] = IF s = u THEN x ELSE T[s]
  BY <1>1
<1>3. \A s \in Sets : /\ Age(n, s) \in Nat
                      /\ Age(u, s) = IF s = u THEN 0 ELSE Age(n, s) + 1
  BY <1>1, AgeFacts
<1>4. Age(n, n) = 0
  BY <1>1, AgeFacts
<1> HIDE DEF u, U
<1>5. ASSUME NEW s \in Sets, NEW q \in Sets, Age(u, s) <= Age(u, q)
      PROVE  U[q] = 0 \/ U[q] + (Age(u, q) - Age(u, s)) <= U[s]
  <2>1. CASE q = u
    <3>1. s = u
      BY <1>3, <1>5, <2>1
    <3> QED
      BY <1>2, <1>3, <2>1, <3>1
  <2>2. CASE q # u /\ s = u
    <3> DEFINE a == Age(n, q)
    <3>1. U[q] = T[q] /\ U[s] = x /\ Age(u, q) = a + 1 /\ Age(u, s) = 0 /\ a \in Nat
      BY <1>2, <1>3, <2>2
    <3>2. T[q] = 0 \/ T[q] + (a - 0) <= T[n]
      BY <1>1, <1>3, <1>4 DEF RingIn
    <3>3. T[n] < x /\ T[n] \in Nat /\ T[q] \in Nat
      BY <1>1
    <3> HIDE DEF a
    <3> QED
      BY <3>1, <3>2, <3>3
  <2>3. CASE q # u /\ s # u
    <3> DEFINE a == Age(n, q)
               b == Age(n, s)
    <3>1. /\ U[q] = T[q] /\ U[s] = T[s] /\ Age(u, q) = a + 1 /\ Age(u, s) = b + 1
          /\ a \in Nat /\ b \in Nat
      BY <1>2, <1>3, <2>3
    <3>2. b <= a
      BY <1>5, <3>1
    <3>3. T[q] = 0 \/ T[q] + (a - b) <= T[s]
      BY <3>2 DEF RingIn
    <3> HIDE DEF a, b
    <3> QED
      BY <3>1, <3>3
  <2> QED
    BY <2>1, <2>2, <2>3
<1> QED
  BY <1>1, <1>2, <1>5 DEF RingIn, u, U

\* Step t still has its tables, or the oldest set is of a later step.
KeptIn(t, T, n) == (\E s \in Sets : T[s] = t) \/ t < T[NextTurn(n)]

LEMMA KeptGathers ==
  ASSUME NEW T, NEW n, RingIn(T, n), NEW x \in Nat, \A s \in Sets : T[s] < x,
         NEW t \in Nat \ {0}, KeptIn(t, T, n)
  PROVE  KeptIn(t, [T EXCEPT ![NextTurn(n)] = x], NextTurn(n))
<1> DEFINE u == NextTurn(n)
           v == NextTurn(u)
           U == [T EXCEPT ![u] = x]
<1>1. n \in Sets /\ u \in Sets /\ v \in Sets /\ T \in [Sets -> Nat]
  BY TurnNext DEF RingIn
<1>2. \A s \in Sets : U[s] = IF s = u THEN x ELSE T[s]
  BY <1>1
<1>3. /\ Age(n, u) = Pool - 1 /\ Age(n, v) <= Pool - 1
      /\ v # u => Age(n, v) < Pool - 1
      /\ Age(n, v) \in Nat /\ Pool \in Nat
  BY <1>1, AgeFacts, PPStreamsAssumption
<1>4. ASSUME t <= T[u] PROVE t < U[v]
  <2>1. CASE v = u
    <3>1. T[u] < x /\ T[u] \in Nat
      BY <1>1
    <3>2. U[v] = x
      BY <1>1, <1>2, <2>1
    <3> HIDE DEF u, v, U
    <3> QED
      BY <1>4, <3>1, <3>2
  <2>2. CASE v # u
    <3> DEFINE a == Age(n, v)
    <3>1. U[v] = T[v] /\ T[v] \in Nat /\ T[u] \in Nat
      BY <1>1, <1>2, <2>2
    <3>2. T[u] = 0 \/ T[u] + ((Pool - 1) - a) <= T[v]
      BY <1>1, <1>3 DEF RingIn
    <3>3. a < Pool - 1 /\ a \in Nat
      BY <1>3, <2>2
    <3> HIDE DEF a, u, v, U
    <3> QED
      BY <1>3, <1>4, <3>1, <3>2, <3>3
  <2> QED
    BY <2>1, <2>2
<1>5. CASE t < T[u]
  <2>1. t <= T[u]
    BY <1>1, <1>5
  <2> QED
    BY <1>4, <2>1 DEF KeptIn
<1>6. CASE \E s \in Sets : T[s] = t
  <2>1. PICK s \in Sets : T[s] = t
    BY <1>6
  <2>2. CASE s = u
    <3>1. t <= T[u]
      BY <2>1, <2>2
    <3> QED
      BY <1>4, <3>1 DEF KeptIn
  <2>3. CASE s # u
    <3>1. U[s] = t
      BY <1>2, <2>1, <2>3
    <3> HIDE DEF u, U
    <3> QED
      BY <3>1 DEF KeptIn, u, U
  <2> QED
    BY <2>2, <2>3
<1> QED
  BY <1>5, <1>6 DEF KeptIn

\* Of a main stream q, with tables T: the inputs that wait are of ever later
\* steps, up to step B, and later than those whose tables are gathered.
InputsIn(q, T, B) ==
  /\ \A s \in Sets : T[s] <= B
  /\ \A i \in DOMAIN q : q[i].op = "inputs" =>
       /\ q[i].step <= B
       /\ \A s \in Sets : T[s] < q[i].step
       /\ \A j \in DOMAIN q : j < i /\ q[j].op = "inputs" => q[j].step < q[i].step

\* What is gathered before the entry of a step is read is of steps scheduled
\* less than Depth after it.
AppliesIn(q, T) ==
  \A i \in DOMAIN q : q[i].op = "apply" =>
    /\ q[i].step # 0
    /\ \A s \in Sets : T[s] < q[i].step + Depth
    /\ \A j \in DOMAIN q : j < i /\ q[j].op = "inputs" => q[j].step < q[i].step + Depth

LEMMA InputsGrown ==
  ASSUME NEW q \in Seq(Op), NEW ops \in Seq(Op), NEW T \in [Sets -> Nat],
         NEW B \in Nat, NEW C \in Nat, B <= C, InputsIn(q, T, B),
         \A j \in DOMAIN ops : ops[j].op = "inputs" =>
           /\ B < ops[j].step /\ ops[j].step <= C
           /\ \A k \in DOMAIN ops : ops[k].op = "inputs" => k = j
  PROVE  InputsIn(q \o ops, T, C)
<1> DEFINE w == q \o ops
           n == Len(q)
<1>1. /\ w \in Seq(Op) /\ n \in Nat
      /\ \A i \in DOMAIN q : i \in Nat /\ i <= n /\ i \in DOMAIN w /\ w[i] = q[i] /\ q[i] \in Op
      /\ \A j \in DOMAIN ops : j \in Nat /\ j >= 1 /\ ops[j] \in Op
                               /\ n + j \in DOMAIN w /\ w[n + j] = ops[j]
      /\ \A i \in DOMAIN w : i \in DOMAIN q \/ \E j \in DOMAIN ops : i = n + j
  BY MainAppended
<1>2. \A x \in Op : x.step \in Nat
  BY DEF Op
<1>3. \A s \in Sets : T[s] \in Nat /\ T[s] <= B /\ T[s] <= C
  <2>1. \A s \in Sets : T[s] \in Nat /\ T[s] <= B
    BY DEF InputsIn
  <2> QED
    BY <2>1
<1> HIDE DEF w, n
<1>4. ASSUME NEW i \in DOMAIN w, w[i].op = "inputs"
      PROVE  /\ w[i].step <= C
             /\ \A s \in Sets : T[s] < w[i].step
             /\ \A j \in DOMAIN w : j < i /\ w[j].op = "inputs" => w[j].step < w[i].step
  <2>1. CASE i \in DOMAIN q
    <3>1. /\ w[i] = q[i] /\ q[i].op = "inputs" /\ q[i].step \in Nat /\ q[i].step <= B
          /\ \A s \in Sets : T[s] < q[i].step
          /\ \A j \in DOMAIN q : j < i /\ q[j].op = "inputs" => q[j].step < q[i].step
      BY <1>1, <1>2, <1>4, <2>1 DEF InputsIn
    <3>2. ASSUME NEW j \in DOMAIN w, j < i PROVE j \in DOMAIN q /\ w[j] = q[j]
      <4>1. ASSUME NEW k \in DOMAIN ops, j = n + k PROVE FALSE
        <5>1. n \in Nat /\ k \in Nat /\ k >= 1 /\ i \in Nat /\ i <= n
          BY <1>1, <2>1
        <5> QED
          BY <3>2, <4>1, <5>1
      <4> QED
        BY <1>1, <4>1
    <3>3. w[i].step <= C
      <4> DEFINE x == q[i].step
      <4>1. x \in Nat /\ x <= B /\ w[i].step = x
        BY <3>1
      <4> HIDE DEF x
      <4> QED
        BY <4>1
    <3> QED
      BY <3>1, <3>2, <3>3
  <2>2. CASE i \notin DOMAIN q
    <3>1. PICK k \in DOMAIN ops : i = n + k
      BY <1>1, <2>2
    <3> DEFINE x == ops[k].step
    <3>2. /\ w[i] = ops[k] /\ x \in Nat /\ B < x /\ x <= C
          /\ \A m \in DOMAIN ops : ops[m].op = "inputs" => m = k
      BY <1>1, <1>2, <1>4, <3>1
    <3>3. w[i].step = x
      BY <3>2
    <3> HIDE DEF x
    <3>4. \A s \in Sets : T[s] < x
      BY <1>3, <3>2
    <3>5. ASSUME NEW j \in DOMAIN w, j < i, w[j].op = "inputs" PROVE w[j].step < x
      <4>1. CASE j \in DOMAIN q
        <5>1. w[j] = q[j] /\ q[j].step \in Nat /\ q[j].step <= B
          BY <1>1, <1>2, <3>5, <4>1 DEF InputsIn
        <5> DEFINE y == q[j].step
        <5>2. y \in Nat /\ y <= B /\ w[j].step = y
          BY <5>1
        <5> HIDE DEF y
        <5> QED
          BY <3>2, <5>2
      <4>2. CASE j \notin DOMAIN q
        <5>1. PICK m \in DOMAIN ops : j = n + m
          BY <1>1, <4>2
        <5>2. m = k
          BY <1>1, <3>2, <3>5, <5>1
        <5>3. j = i /\ i \in Nat
          <6>1. n \in Nat /\ k \in Nat
            BY <1>1
          <6> QED
            BY <3>1, <5>1, <5>2, <6>1
        <5> QED
          BY <3>5, <5>3
      <4> QED
        BY <4>1, <4>2
    <3> QED
      BY <3>2, <3>3, <3>4, <3>5
  <2> QED
    BY <2>1, <2>2
<1> QED
  BY <1>3, <1>4 DEF InputsIn, w

LEMMA AppliesGrown ==
  ASSUME NEW q \in Seq(Op), NEW ops \in Seq(Op), NEW T \in [Sets -> Nat],
         NEW B \in Nat, InputsIn(q, T, B), AppliesIn(q, T),
         \A j \in DOMAIN ops : ops[j].op = "apply" =>
           /\ ops[j].step # 0 /\ B < ops[j].step + Depth
           /\ \A k \in DOMAIN ops : ops[k].op = "inputs" => ~(k < j)
  PROVE  AppliesIn(q \o ops, T)
<1> DEFINE w == q \o ops
           n == Len(q)
<1>1. /\ w \in Seq(Op) /\ n \in Nat
      /\ \A i \in DOMAIN q : i \in Nat /\ i <= n /\ i \in DOMAIN w /\ w[i] = q[i] /\ q[i] \in Op
      /\ \A j \in DOMAIN ops : j \in Nat /\ j >= 1 /\ ops[j] \in Op
                               /\ n + j \in DOMAIN w /\ w[n + j] = ops[j]
      /\ \A i \in DOMAIN w : i \in DOMAIN q \/ \E j \in DOMAIN ops : i = n + j
  BY MainAppended
<1>2. \A x \in Op : x.step \in Nat
  BY DEF Op
<1>3. \A s \in Sets : T[s] \in Nat /\ T[s] <= B
  BY DEF InputsIn
<1>4. Depth \in Nat
  BY PPStreamsAssumption
<1> HIDE DEF w, n
<1>5. ASSUME NEW i \in DOMAIN w, w[i].op = "apply"
      PROVE  /\ w[i].step # 0
             /\ \A s \in Sets : T[s] < w[i].step + Depth
             /\ \A j \in DOMAIN w : j < i /\ w[j].op = "inputs" => w[j].step < w[i].step + Depth
  <2>1. CASE i \in DOMAIN q
    <3>1. /\ w[i] = q[i] /\ q[i].op = "apply" /\ q[i].step # 0
          /\ \A s \in Sets : T[s] < q[i].step + Depth
          /\ \A j \in DOMAIN q : j < i /\ q[j].op = "inputs" => q[j].step < q[i].step + Depth
      BY <1>1, <1>5, <2>1 DEF AppliesIn
    <3>2. ASSUME NEW j \in DOMAIN w, j < i PROVE j \in DOMAIN q /\ w[j] = q[j]
      <4>1. ASSUME NEW k \in DOMAIN ops, j = n + k PROVE FALSE
        <5>1. n \in Nat /\ k \in Nat /\ k >= 1 /\ i \in Nat /\ i <= n
          BY <1>1, <2>1
        <5> QED
          BY <3>2, <4>1, <5>1
      <4> QED
        BY <1>1, <4>1
    <3> QED
      BY <3>1, <3>2
  <2>2. CASE i \notin DOMAIN q
    <3>1. PICK k \in DOMAIN ops : i = n + k
      BY <1>1, <2>2
    <3> DEFINE x == ops[k].step
    <3>2. /\ w[i] = ops[k] /\ x \in Nat /\ B < x + Depth /\ x # 0
          /\ \A m \in DOMAIN ops : ops[m].op = "inputs" => ~(m < k)
      BY <1>1, <1>2, <1>5, <3>1
    <3>3. w[i].step = x
      BY <3>2
    <3> HIDE DEF x
    <3>4. \A s \in Sets : T[s] < x + Depth
      BY <1>3, <1>4, <3>2
    <3>5. ASSUME NEW j \in DOMAIN w, j < i, w[j].op = "inputs" PROVE w[j].step < x + Depth
      <4>1. CASE j \in DOMAIN q
        <5>1. w[j] = q[j] /\ q[j].step \in Nat /\ q[j].step <= B
          BY <1>1, <1>2, <3>5, <4>1 DEF InputsIn
        <5> DEFINE y == q[j].step
        <5>2. y \in Nat /\ y <= B /\ w[j].step = y
          BY <5>1
        <5> HIDE DEF y
        <5> QED
          BY <1>4, <3>2, <5>2
      <4>2. CASE j \notin DOMAIN q
        <5>1. PICK m \in DOMAIN ops : j = n + m
          BY <1>1, <4>2
        <5>2. ~(m < k)
          BY <1>1, <3>2, <3>5, <5>1
        <5>3. n \in Nat /\ k \in Nat /\ m \in Nat
          BY <1>1
        <5> QED
          BY <3>1, <3>5, <5>1, <5>2, <5>3
      <4> QED
        BY <4>1, <4>2
    <3> QED
      BY <3>2, <3>3, <3>4, <3>5
  <2> QED
    BY <2>1, <2>2
<1> QED
  BY <1>5 DEF AppliesIn, w

\* The first operation of the stream runs; it may gather tables.
LEMMA StreamPopped ==
  ASSUME NEW q \in Seq(Op), q # <<>>, NEW w \in Seq(Op),
         NEW T \in [Sets -> Nat], NEW n, NEW B \in Nat,
         DOMAIN w = {i \in Nat \ {0} : i + 1 \in DOMAIN q},
         \A i \in DOMAIN w : w[i] = q[i + 1],
         RingIn(T, n), InputsIn(q, T, B), AppliesIn(q, T)
  PROVE  /\ InputsIn(w, T, B) /\ AppliesIn(w, T)
         /\ q[1].op = "inputs" =>
              LET u == NextTurn(n)
                  U == [T EXCEPT ![u] = q[1].step]
              IN  RingIn(U, u) /\ InputsIn(w, U, B) /\ AppliesIn(w, U)
<1>1. /\ 1 \in DOMAIN q
      /\ \A i \in DOMAIN q : q[i] \in Op /\ q[i].step \in Nat
      /\ \A i \in DOMAIN w : i \in Nat /\ i >= 1 /\ i + 1 \in DOMAIN q /\ 1 < i + 1
  <2>1. \A x \in Op : x.step \in Nat
    BY DEF Op
  <2>2. \A i \in DOMAIN q : q[i] \in Op
    OBVIOUS
  <2>3. 1 \in DOMAIN q
    OBVIOUS
  <2>4. \A i \in DOMAIN w : i \in Nat /\ i >= 1 /\ i + 1 \in DOMAIN q /\ 1 < i + 1
    OBVIOUS
  <2> QED
    BY <2>1, <2>2, <2>3, <2>4
<1>2. \A i, j \in DOMAIN w : j < i => j + 1 < i + 1
  BY <1>1
<1>3. \A s \in Sets : T[s] <= B
  BY DEF InputsIn
<1>4. InputsIn(w, T, B)
  BY <1>1, <1>2 DEF InputsIn
<1>5. AppliesIn(w, T)
  BY <1>1, <1>2 DEF AppliesIn
<1>6. ASSUME q[1].op = "inputs"
      PROVE  LET u == NextTurn(n)
                 U == [T EXCEPT ![u] = q[1].step]
             IN  RingIn(U, u) /\ InputsIn(w, U, B) /\ AppliesIn(w, U)
  <2> DEFINE u == NextTurn(n)
             x == q[1].step
             U == [T EXCEPT ![u] = x]
  <2>1. x \in Nat /\ x <= B /\ \A s \in Sets : T[s] < x
    BY <1>1, <1>6 DEF InputsIn
  <2>2. RingIn(U, u)
    <3> HIDE DEF x
    <3> QED
      BY <2>1, RingGathers
  <2>3. \A s \in Sets : U[s] = x \/ U[s] = T[s]
    OBVIOUS
  <2>4. \A i \in DOMAIN w : w[i].op = "inputs" => x < w[i].step
    BY <1>1, <1>6 DEF InputsIn
  <2>5. \A i \in DOMAIN w : w[i].op = "apply" => x < w[i].step + Depth
    BY <1>1, <1>6 DEF AppliesIn
  <2> HIDE DEF U, x
  <2>6. InputsIn(w, U, B)
    BY <1>4, <2>1, <2>3, <2>4 DEF InputsIn
  <2>7. AppliesIn(w, U)
    BY <1>5, <2>3, <2>5 DEF AppliesIn
  <2> QED
    BY <2>2, <2>6, <2>7 DEF U, x
<1> QED
  BY <1>4, <1>5, <1>6

\* The last step rank r has begun to issue.
Begun(r) == IF part[r] = "execute" THEN Finished(r) ELSE Finished(r) + 1

\* Rank r's sets, the stream that fills and reads them, and its queue, whose
\* entry at place j is of the step Depth - j before the last one begun.
Tabled(r) ==
  /\ RingIn(tables[r], turn[r])
  /\ InputsIn(main[r], tables[r], Begun(r))
  /\ AppliesIn(main[r], tables[r])
  /\ r # Last => \A j \in 1..Depth :
       slots[r][j] # 0 => slots[r][j] + Depth = Begun(r) + j

\* The engine's steps in flight are the last ones scheduled.
Flight ==
  /\ inFlight \in Seq(Call)
  /\ Len(inFlight) <= MaxBatches /\ Len(inFlight) <= scheduled
  /\ \A i \in DOMAIN inFlight : inFlight[i].step = (scheduled - Len(inFlight)) + i
  /\ \A r \in Ranks : \A i \in DOMAIN calls[r] : \A j \in DOMAIN inFlight :
       calls[r][i].step = inFlight[j].step => calls[r][i] = inFlight[j]

\* Step t runs on rank r, or its entry is still to be queued or read there.
Held(r, t) ==
  \/ \E i \in DOMAIN inFlight : inFlight[i].kind # "empty" /\ inFlight[i].step = t
  \/ \E j \in DOMAIN slots[r] : slots[r][j] = t
  \/ \E i \in DOMAIN main[r] : main[r][i].op = "apply" /\ main[r][i].step = t
  \/ part[r] # "execute" /\ Head(calls[r]).step = t

Kept(r) ==
  \A t \in Nat \ {0} : Held(r, t) /\ Gathered(r, t) => KeptIn(t, tables[r], turn[r])

TableTypes == turn \in [Ranks -> Sets] /\ tables \in [Ranks -> [Sets -> Nat]]

\* The last rank samples: it has no receive queue.
LastEmpty == slots[Last] = <<>>

TableInv ==
  /\ CollInv /\ ReadInv /\ Flight /\ TableTypes /\ LastEmpty
  /\ \A r \in Ranks : Tabled(r) /\ Kept(r)

LEMMA HeadTail ==
  ASSUME NEW q \in Seq(Call), q # <<>>
  PROVE  /\ Head(q) = q[1] /\ 1 \in DOMAIN q /\ Head(q) \in Call
         /\ Tail(q) \in Seq(Call) /\ Len(Tail(q)) = Len(q) - 1 /\ Len(q) \in Nat /\ Len(q) >= 1
         /\ \A i \in DOMAIN q : i # 1 => i - 1 \in DOMAIN Tail(q) /\ Tail(q)[i - 1] = q[i]
         /\ \A i \in DOMAIN Tail(q) : i \in Nat /\ i >= 1 /\ i + 1 \in DOMAIN q /\ Tail(q)[i] = q[i + 1]
<1> DEFINE w == Tail(q)
<1>1. w \in Seq(Call) /\ Len(w) = Len(q) - 1 /\ \A i \in 1..Len(w) : w[i] = q[i + 1]
  BY HeadTailProperties
<1>2. /\ Len(q) \in Nat \ {0} /\ DOMAIN q = 1..Len(q) /\ Head(q) = q[1] /\ Head(q) \in Call
      /\ Len(w) \in Nat /\ DOMAIN w = 1..Len(w)
  BY <1>1, EmptySeq, LenProperties, HeadTailProperties
<1> HIDE DEF w
<1>3. \A i \in DOMAIN q : i # 1 => i - 1 \in DOMAIN w /\ w[i - 1] = q[i]
  <2> SUFFICES ASSUME NEW i \in DOMAIN q, i # 1 PROVE i - 1 \in DOMAIN w /\ w[i - 1] = q[i]
    OBVIOUS
  <2>1. i - 1 \in DOMAIN w /\ (i - 1) + 1 = i
    BY <1>1, <1>2
  <2> QED
    BY <1>1, <1>2, <2>1
<1>4. \A i \in DOMAIN w : i \in Nat /\ i >= 1 /\ i + 1 \in DOMAIN q /\ w[i] = q[i + 1]
  BY <1>1, <1>2
<1> QED
  BY <1>1, <1>2, <1>3, <1>4 DEF w

LEMMA BegunFacts ==
  ASSUME CollInv, NEW r \in Ranks
  PROVE  /\ Begun(r) \in Nat /\ Begun(r) <= scheduled /\ scheduled \in Nat
         /\ part[r] = "execute" => Begun(r) = Finished(r)
         /\ part[r] # "execute" => Begun(r) = Finished(r) + 1
         /\ calls[r] # <<>> => Head(calls[r]).step = Finished(r) + 1
         /\ part[r] # "execute" => calls[r] # <<>>
<1> DEFINE n == Len(calls[r])
<1>1. /\ scheduled \in Nat /\ n \in Nat /\ n <= scheduled /\ calls[r] \in Seq(Call)
      /\ part[r] # "execute" => calls[r] # <<>>
  BY SideFacts DEF CollInv, StreamTypes
<1>2. calls[r] # <<>> => n >= 1 /\ Head(calls[r]) = calls[r][1] /\ 1 \in DOMAIN calls[r]
  BY <1>1, HeadTail
<1>3. calls[r] # <<>> => Head(calls[r]).step = (scheduled - n) + 1
  BY <1>2 DEF CollInv, Lined
<1>4. Finished(r) = scheduled - n
  BY DEF Finished
<1> HIDE DEF n
<1>5. Finished(r) \in Nat /\ Finished(r) <= scheduled /\ (n >= 1 => Finished(r) + 1 <= scheduled)
  BY <1>1, <1>4
<1>6. part[r] = "execute" => Begun(r) = Finished(r)
  BY DEF Begun
<1>7. part[r] # "execute" => Begun(r) = Finished(r) + 1
  BY DEF Begun
<1> QED
  BY <1>1, <1>2, <1>3, <1>4, <1>5, <1>6, <1>7

\* A rank whose streams and sets stay, and that begins no step.
LEMMA TabledSame ==
  ASSUME NEW r \in Ranks, Tabled(r), Begun(r)' = Begun(r),
         tables'[r] = tables[r], turn'[r] = turn[r], main'[r] = main[r], slots'[r] = slots[r]
  PROVE  Tabled(r)'
BY DEF Tabled

\* Appending one operation.
LEMMA AppendOne ==
  ASSUME NEW q \in Seq(Op), NEW x \in Op
  PROVE  Append(q, x) = q \o <<x>> /\ <<x>> \in Seq(Op)
         /\ DOMAIN <<x>> = {1} /\ <<x>>[1] = x
<1> DEFINE a == Append(q, x)
           b == q \o <<x>>
<1>1. <<x>> \in Seq(Op) /\ Len(<<x>>) = 1 /\ <<x>>[1] = x /\ DOMAIN <<x>> = {1}
  OBVIOUS
<1>2. /\ a \in Seq(Op) /\ Len(a) = Len(q) + 1 /\ Len(q) \in Nat
      /\ \A i \in 1..Len(q) : a[i] = q[i]
      /\ a[Len(q) + 1] = x
  BY AppendProperties, LenProperties
<1>3. /\ b \in Seq(Op) /\ Len(b) = Len(q) + 1
      /\ \A i \in 1..(Len(q) + 1) : b[i] = IF i <= Len(q) THEN q[i] ELSE <<x>>[i - Len(q)]
  BY <1>1, ConcatProperties
<1> HIDE DEF a, b
<1>4. \A i \in 1..Len(a) : a[i] = b[i]
  <2> TAKE i \in 1..Len(a)
  <2>1. CASE i <= Len(q)
    BY <1>2, <1>3, <2>1
  <2>2. CASE ~(i <= Len(q))
    <3>1. i = Len(q) + 1 /\ i - Len(q) = 1
      BY <1>2, <2>2
    <3>2. b[i] = <<x>>[1]
      BY <1>2, <1>3, <2>2, <3>1
    <3> QED
      BY <1>1, <1>2, <3>1, <3>2
  <2> QED
    BY <2>1, <2>2
<1>5. a = b
  BY <1>2, <1>3, <1>4, SeqEqual, Zenon
<1> QED
  BY <1>1, <1>5 DEF a, b

\* An operation that neither gathers nor reads is appended.
LEMMA TabledAppended ==
  ASSUME CollInv, NEW r \in Ranks, Tabled(r), Begun(r)' = Begun(r),
         tables'[r] = tables[r], turn'[r] = turn[r],
         r # Last => \A j \in 1..Depth :
           slots'[r][j] # 0 => slots'[r][j] = slots[r][j] \/ slots'[r][j] + Depth = Begun(r) + j,
         NEW x \in Op, x.op \notin {"inputs", "apply"}, main'[r] = Append(main[r], x)
  PROVE  Tabled(r)'
<1> DEFINE T == tables[r]
           B == Begun(r)
           q == main[r]
<1>1. q \in Seq(Op) /\ T \in [Sets -> Nat] /\ B \in Nat
  BY FinishedFacts, BegunFacts DEF Tabled, RingIn
<1>2. InputsIn(q, T, B) /\ AppliesIn(q, T)
  BY DEF Tabled
<1> HIDE DEF T, B, q
<1>3. /\ <<x>> \in Seq(Op) /\ Append(q, x) = q \o <<x>>
      /\ \A j \in DOMAIN <<x>> : <<x>>[j].op \notin {"inputs", "apply"}
  BY <1>1, AppendOne
<1>4. InputsIn(Append(q, x), T, B) /\ AppliesIn(Append(q, x), T)
  <2>1. B <= B
    BY <1>1
  <2>2. InputsIn(q \o <<x>>, T, B)
    BY <1>1, <1>2, <1>3, <2>1, InputsGrown
  <2>3. AppliesIn(q \o <<x>>, T)
    BY <1>1, <1>2, <1>3, AppliesGrown
  <2> QED
    BY <1>3, <2>2, <2>3
<1>5. r # Last => \A j \in 1..Depth : slots'[r][j] # 0 => slots'[r][j] + Depth = Begun(r) + j
  <2> SUFFICES ASSUME r # Last, NEW j \in 1..Depth, slots'[r][j] # 0
               PROVE  slots'[r][j] + Depth = Begun(r) + j
    OBVIOUS
  <2>1. slots'[r][j] = slots[r][j] => slots[r][j] + Depth = Begun(r) + j
    BY DEF Tabled
  <2> QED
    BY <2>1
<1> QED
  BY <1>4, <1>5 DEF Tabled, T, B, q

LEMMA TabledExecute ==
  ASSUME CollInv, CollInv', NEW r \in Ranks, NEW freed \in BOOLEAN, ExecuteModel(r, freed),
         Tabled(r)
  PROVE  Tabled(r)'
<1>0. StreamTypes /\ side \in [Ranks -> Seq(Coll)]
  BY DEF CollInv, Sided
<1> DEFINE T == tables[r]
           B == Begun(r)
           q == main[r]
           call == Head(calls[r])
<1>1. PICK ops : Issues(r, ops)
  BY <1>0, ExecuteIssues
<1>2. /\ ops \in Seq(Op) /\ q \in Seq(Op) /\ main'[r] = q \o ops
      /\ tables' = tables /\ turn' = turn
  BY <1>0, <1>1 DEF StreamTypes, Issues, ExecuteModel
<1>3. part[r] = "execute" /\ calls[r] # <<>> /\ B = Finished(r) /\ call.step = B + 1 /\ B \in Nat
      /\ T \in [Sets -> Nat]
  BY BegunFacts DEF ExecuteModel, Tabled, RingIn
<1>4. Begun(r)' = B + 1
  <2>1. CASE call.kind = "empty"
    <3>1. part' = part /\ scheduled' = scheduled
          /\ calls' = [calls EXCEPT ![r] = Tail(calls[r])]
      BY <2>1 DEF ExecuteModel, engineVars
    <3>2. calls[r] \in Seq(Call) /\ calls'[r] = Tail(calls[r])
      BY <1>0, <3>1 DEF StreamTypes
    <3> DEFINE n == Len(calls[r])
               m == Len(calls'[r])
    <3>3. m = n - 1 /\ n \in Nat
      BY <1>3, <3>2, HeadTail
    <3>4. scheduled \in Nat
      BY <1>0 DEF StreamTypes
    <3> HIDE DEF m, n
    <3>5. scheduled' - m = (scheduled - n) + 1
      BY <3>1, <3>3, <3>4
    <3> QED
      BY <1>3, <3>1, <3>5 DEF Begun, Finished, m, n
  <2>2. CASE call.kind # "empty"
    <3>1. /\ calls' = calls /\ scheduled' = scheduled
          /\ part' = [part EXCEPT ![r] = IF HasPle(r) THEN "forward" ELSE "sample"]
      BY <2>2 DEF ExecuteModel, engineVars
    <3>2. part'[r] # "execute"
      BY <1>0, <3>1 DEF StreamTypes
    <3> QED
      BY <1>3, <3>1, <3>2 DEF Begun, Finished
  <2> QED
    BY <2>1, <2>2
<1>5. \A t \in Due(r) : t # 0 /\ B < t + Depth
  <2> SUFFICES ASSUME r # Last, NEW t \in {slots[r][1], slots[r][Depth]}, t # 0
               PROVE  B < t + Depth
    BY DEF Due
  <2>1. 1 \in 1..Depth /\ Depth \in 1..Depth /\ Depth \in Nat
    BY PPStreamsAssumption
  <2>2. t + Depth = B + 1 \/ t + Depth = B + Depth
    BY <2>1 DEF Tabled
  <2> HIDE DEF B
  <2> QED
    BY <1>3, <2>1, <2>2
<1>6. /\ \A j \in DOMAIN ops : ops[j].op = "apply" =>
           /\ ops[j].step \in Due(r)
           /\ \A k \in DOMAIN ops : ops[k].op = "inputs" => ~(k < j)
      /\ \A j \in DOMAIN ops : ops[j].op = "inputs" =>
           /\ ops[j].step = call.step
           /\ \A k \in DOMAIN ops : ops[k].op = "inputs" => k = j
  <2>1. \A j \in DOMAIN ops : j \in Nat /\ (ops[j].op = "apply" => ops[j].step \in Due(r))
    BY <1>1, <1>2 DEF Issues
  <2>2. CASE call.kind = "empty"
    BY <1>1, <2>1, <2>2 DEF Issues
  <2>3. CASE call.kind # "empty"
    <3>1. PICK n \in DOMAIN ops :
            /\ ops[n] = MainOp("inputs", call.step)
            /\ \A j \in DOMAIN ops : /\ ops[j].op = "inputs" => j = n
                                     /\ ops[j].op = "apply" => j < n
      BY <1>1, <2>3 DEF Issues
    <3>2. ops[n].step = call.step
      BY <3>1 DEF MainOp
    <3> HIDE DEF call
    <3> QED
      BY <2>1, <3>1, <3>2
  <2> QED
    BY <2>2, <2>3
<1>7. InputsIn(q, T, B) /\ AppliesIn(q, T)
  BY DEF Tabled
<1>8. r # Last => \A j \in 1..Depth : slots'[r][j] # 0 => slots'[r][j] + Depth = (B + 1) + j
  <2> SUFFICES ASSUME r # Last, NEW j \in 1..Depth, slots'[r][j] # 0
               PROVE  slots'[r][j] + Depth = (B + 1) + j
    OBVIOUS
  <2>1. slots'[r][j] = IF j = Depth THEN 0 ELSE slots[r][j + 1]
    BY <1>0, ExecuteSlots
  <2>2. j # Depth /\ j + 1 \in 1..Depth /\ slots'[r][j] = slots[r][j + 1]
    BY <2>1, PPStreamsAssumption
  <2>3. slots[r][j + 1] + Depth = B + (j + 1)
    BY <2>2 DEF Tabled
  <2> HIDE DEF B
  <2> QED
    BY <1>3, <2>2, <2>3
<1> HIDE DEF T, B, q, call
<1>9. InputsIn(q \o ops, T, B + 1) /\ AppliesIn(q \o ops, T)
  <2>1. B + 1 \in Nat /\ B <= B + 1
    BY <1>3
  <2>2. \A j \in DOMAIN ops : ops[j].op = "inputs" =>
           /\ B < ops[j].step /\ ops[j].step <= B + 1
           /\ \A k \in DOMAIN ops : ops[k].op = "inputs" => k = j
    BY <1>3, <1>6
  <2>3. InputsIn(q \o ops, T, B + 1)
    BY <1>2, <1>3, <1>7, <2>1, <2>2, InputsGrown
  <2>4. \A j \in DOMAIN ops : ops[j].op = "apply" =>
           /\ ops[j].step # 0 /\ B < ops[j].step + Depth
           /\ \A k \in DOMAIN ops : ops[k].op = "inputs" => ~(k < j)
    BY <1>5, <1>6
  <2>5. AppliesIn(q \o ops, T)
    BY <1>2, <1>3, <1>7, <2>4, AppliesGrown
  <2> QED
    BY <2>3, <2>5
<1>10. RingIn(tables[r], turn[r])
  BY DEF Tabled
<1> QED
  BY <1>2, <1>4, <1>8, <1>9, <1>10 DEF Tabled, T

LEMMA TabledSample ==
  ASSUME CollInv, CollInv', NEW r \in Ranks, SampleTokens(r), Tabled(r)
  PROVE  Tabled(r)'
<1>0. StreamTypes /\ side \in [Ranks -> Seq(Coll)]
  BY DEF CollInv, Sided
<1> DEFINE call == Head(calls[r])
<1>1. PICK posts \in Seq(Coll) : Finishes(r, posts)
  BY <1>0, SampleFinishes
<1>2. part[r] # "execute" /\ Begun(r) = call.step /\ call.step \in Nat
  <2>1. part[r] # "execute"
    BY DEF SampleTokens
  <2> QED
    BY <2>1, BegunFacts
<1>3. Begun(r)' = Begun(r)
  <2>1. part'[r] = "execute"
    BY <1>0 DEF SampleTokens, StreamTypes
  <2>2. Finished(r)' = call.step
    BY <1>1, FinishLined DEF Finished, Finishes
  <2> QED
    BY <1>2, <2>1, <2>2 DEF Begun
<1>4. tables' = tables /\ turn' = turn
  BY DEF SampleTokens
<1>5. r # Last => \A j \in 1..Depth :
        slots'[r][j] # 0 => slots'[r][j] = slots[r][j] \/ slots'[r][j] + Depth = Begun(r) + j
  <2>1. CASE slots' = slots
    BY <2>1
  <2>2. CASE slots' # slots
    <3>1. slots' = [slots EXCEPT ![r][Depth] = call.step]
      BY <2>2 DEF SampleTokens
    <3>2. slots'[r] = [slots[r] EXCEPT ![Depth] = call.step]
      BY <1>0, <3>1 DEF StreamTypes
    <3> SUFFICES ASSUME r # Last, NEW j \in 1..Depth, slots'[r][j] # 0
                 PROVE  slots'[r][j] = slots[r][j] \/ slots'[r][j] + Depth = Begun(r) + j
      OBVIOUS
    <3>3. DOMAIN slots[r] = 1..Depth
      BY <1>0 DEF StreamTypes
    <3>4. CASE j = Depth
      <4>1. slots'[r][j] = call.step
        BY <3>2, <3>3, <3>4
      <4> QED
        BY <1>2, <3>4, <4>1
    <3>5. CASE j # Depth
      BY <3>2, <3>3, <3>5
    <3> QED
      BY <3>4, <3>5
  <2> QED
    BY <2>1, <2>2
<1>6. CASE main' = main
  <2>1. r # Last => \A j \in 1..Depth : slots'[r][j] # 0 => slots'[r][j] + Depth = Begun(r) + j
    <3> SUFFICES ASSUME r # Last, NEW j \in 1..Depth, slots'[r][j] # 0
                 PROVE  slots'[r][j] + Depth = Begun(r) + j
      OBVIOUS
    <3>1. slots'[r][j] = slots[r][j] => slots[r][j] + Depth = Begun(r) + j
      BY DEF Tabled
    <3> QED
      BY <1>5, <3>1
  <2> QED
    BY <1>3, <1>4, <1>6, <2>1 DEF Tabled
<1>7. CASE main' # main
  <2> DEFINE x == MainOp("propose", call.step)
  <2>1. x \in Op /\ x.op \notin {"inputs", "apply"}
    BY <1>2 DEF MainOp, Op
  <2>2. main' = [main EXCEPT ![r] = Append(main[r], x)]
    BY <1>7 DEF SampleTokens
  <2> HIDE DEF x
  <2>3. main'[r] = Append(main[r], x)
    BY <1>0, <2>2 DEF StreamTypes
  <2> QED
    BY <1>3, <1>4, <1>5, <2>1, <2>3, TabledAppended
<1> QED
  BY <1>6, <1>7

LEMMA TabledPrepare ==
  ASSUME CollInv, NEW r \in Ranks, PrepareForward, Tabled(r)
  PROVE  Tabled(r)'
<1>0. StreamTypes
  BY DEF CollInv
<1>1. UNCHANGED <<tables, turn, slots, calls, scheduled>>
      /\ part' = [part EXCEPT ![1] = "sample"] /\ part[1] = "forward"
  BY DEF PrepareForward, engineVars
<1>2. Begun(r)' = Begun(r)
  <2>1. part'[r] = "execute" <=> part[r] = "execute"
    BY <1>0, <1>1 DEF StreamTypes
  <2>2. Finished(r)' = Finished(r)
    BY <1>1 DEF Finished
  <2> QED
    BY <2>1, <2>2 DEF Begun
<1>3. CASE r # 1
  <2>1. main'[r] = main[r]
    BY <1>0, <1>3 DEF PrepareForward, StreamTypes
  <2> QED
    BY <1>1, <1>2, <2>1, TabledSame
<1>4. CASE r = 1
  <2> DEFINE x == MainOp("forward", Head(calls[1]).step)
  <2>1. x \in Op /\ x.op \notin {"inputs", "apply"}
    <3>1. calls[1] # <<>> /\ calls[1] \in Seq(Call)
      BY <1>0, <1>1, FirstRank DEF StreamTypes
    <3>2. Head(calls[1]) \in Call
      BY <3>1
    <3> QED
      BY <3>2 DEF MainOp, Op, Call
  <2>2. main' = [main EXCEPT ![1] = Append(main[1], x)]
    BY DEF PrepareForward
  <2> HIDE DEF x
  <2>3. main'[r] = Append(main[r], x)
    BY <1>0, <1>4, <2>2 DEF StreamTypes
  <2> QED
    BY <1>1, <1>2, <2>1, <2>3, TabledAppended
<1> QED
  BY <1>3, <1>4

\* An operation of the main stream that is not the filling of tables.
LEMMA TabledRuns ==
  ASSUME CollInv, NEW r \in Ranks, NEW op, Runs(r, op), Tabled(r),
         tables' = tables, turn' = turn
  PROVE  Tabled(r)'
<1>1. /\ main'[r] \in Seq(Op) /\ main[r] # <<>>
      /\ DOMAIN main'[r] = {i \in Nat \ {0} : i + 1 \in DOMAIN main[r]}
      /\ \A i \in DOMAIN main'[r] : main'[r][i] = main[r][i + 1]
  BY Popped DEF CollInv
<1>2. /\ main[r] \in Seq(Op) /\ Begun(r) \in Nat /\ tables[r] \in [Sets -> Nat]
      /\ RingIn(tables[r], turn[r])
      /\ InputsIn(main[r], tables[r], Begun(r)) /\ AppliesIn(main[r], tables[r])
  BY FinishedFacts, BegunFacts DEF Tabled, RingIn
<1>3. InputsIn(main'[r], tables[r], Begun(r)) /\ AppliesIn(main'[r], tables[r])
  <2> DEFINE q == main[r]
             w == main'[r]
             T == tables[r]
             B == Begun(r)
             n == turn[r]
  <2> HIDE DEF q, w, T, B, n
  <2>1. InputsIn(w, T, B) /\ AppliesIn(w, T)
    BY <1>1, <1>2, StreamPopped DEF q, w, T, B, n
  <2> QED
    BY <2>1 DEF w, T, B
<1>4. slots' = slots /\ Begun(r)' = Begun(r)
  BY DEF Runs, engineVars, Begun, Finished
<1> QED
  BY <1>2, <1>3, <1>4 DEF Tabled

\* The tables of the oldest step whose inputs wait are gathered.
LEMMA TabledInputs ==
  ASSUME CollInv, TableTypes, NEW r \in Ranks, PrepareInputs(r), Tabled(r)
  PROVE  Tabled(r)'
<1>1. /\ main'[r] \in Seq(Op) /\ main[r] # <<>>
      /\ main[r][1].op = "inputs" /\ Running(r) = main[r][1].step
      /\ DOMAIN main'[r] = {i \in Nat \ {0} : i + 1 \in DOMAIN main[r]}
      /\ \A i \in DOMAIN main'[r] : main'[r][i] = main[r][i + 1]
  BY Popped DEF CollInv, PrepareInputs
<1>2. /\ main[r] \in Seq(Op) /\ Begun(r) \in Nat /\ tables[r] \in [Sets -> Nat]
      /\ RingIn(tables[r], turn[r])
      /\ InputsIn(main[r], tables[r], Begun(r)) /\ AppliesIn(main[r], tables[r])
  BY FinishedFacts, BegunFacts DEF Tabled, RingIn
<1>3. /\ turn'[r] = NextTurn(turn[r])
      /\ tables'[r] = [tables[r] EXCEPT ![NextTurn(turn[r])] = main[r][1].step]
  BY <1>1 DEF PrepareInputs, TableTypes
<1>4. RingIn(tables'[r], turn'[r]) /\ InputsIn(main'[r], tables'[r], Begun(r))
      /\ AppliesIn(main'[r], tables'[r])
  <2> DEFINE q == main[r]
             w == main'[r]
             T == tables[r]
             B == Begun(r)
             n == turn[r]
             U == [T EXCEPT ![NextTurn(n)] = q[1].step]
  <2> HIDE DEF q, w, T, B, n
  <2>1. RingIn(U, NextTurn(n)) /\ InputsIn(w, U, B) /\ AppliesIn(w, U)
    <3>1. /\ q \in Seq(Op) /\ q # <<>> /\ w \in Seq(Op) /\ T \in [Sets -> Nat] /\ B \in Nat
          /\ DOMAIN w = {i \in Nat \ {0} : i + 1 \in DOMAIN q}
          /\ \A i \in DOMAIN w : w[i] = q[i + 1]
          /\ RingIn(T, n) /\ InputsIn(q, T, B) /\ AppliesIn(q, T) /\ q[1].op = "inputs"
      BY <1>1, <1>2 DEF q, w, T, B, n
    <3> QED
      BY <3>1, StreamPopped
  <2> QED
    BY <1>3, <2>1 DEF q, w, T, B, n
<1>5. slots' = slots /\ Begun(r)' = Begun(r)
  BY DEF PrepareInputs, Runs, engineVars, Begun, Finished
<1> QED
  BY <1>4, <1>5 DEF Tabled

LEMMA TabledStep ==
  ASSUME CollInv, CollInv', TableTypes, [Next]_vars, NEW r \in Ranks, Tabled(r)
  PROVE  Tabled(r)'
<1>0. StreamTypes /\ side \in [Ranks -> Seq(Coll)]
  BY DEF CollInv, Sided
<1>1. CASE UNCHANGED <<scheduled, calls, part, slots, main, tables, turn>>
  <2>1. Begun(r)' = Begun(r)
    BY <1>1 DEF Begun, Finished
  <2> QED
    BY <1>1, <2>1, TabledSame
<1>2. ASSUME NEW k \in Kinds, Schedule(k) PROVE Tabled(r)'
  <2>1. UNCHANGED <<slots, main, tables, turn, part>>
    BY <1>2 DEF Schedule
  <2>2. Finished(r)' = Finished(r)
    BY <1>2, ScheduleFinished
  <2>3. Begun(r)' = Begun(r)
    BY <2>1, <2>2 DEF Begun
  <2> QED
    BY <2>1, <2>3, TabledSame
<1>3. ASSUME NEW s \in Ranks, NEW freed \in BOOLEAN, ExecuteModel(s, freed) PROVE Tabled(r)'
  <2>1. CASE s = r
    BY <1>3, <2>1, TabledExecute
  <2>2. CASE s # r
    <3>1. /\ main'[r] = main[r] /\ calls'[r] = calls[r] /\ scheduled' = scheduled
          /\ slots'[r] = slots[r] /\ part'[r] = part[r] /\ tables' = tables /\ turn' = turn
      BY <1>0, <1>3, <2>2 DEF ExecuteModel, engineVars, StreamTypes
    <3>2. Begun(r)' = Begun(r)
      BY <3>1 DEF Begun, Finished
    <3> QED
      BY <3>1, <3>2, TabledSame
  <2> QED
    BY <2>1, <2>2
<1>4. ASSUME NEW s \in Ranks, SampleTokens(s) PROVE Tabled(r)'
  <2>1. CASE s = r
    BY <1>4, <2>1, TabledSample
  <2>2. CASE s # r
    <3>1. /\ main'[r] = main[r] /\ calls'[r] = calls[r] /\ scheduled' = scheduled
          /\ slots'[r] = slots[r] /\ part'[r] = part[r] /\ tables' = tables /\ turn' = turn
      BY <1>0, <1>4, <2>2 DEF SampleTokens, engineVars, StreamTypes
    <3>2. Begun(r)' = Begun(r)
      BY <3>1 DEF Begun, Finished
    <3> QED
      BY <3>1, <3>2, TabledSame
  <2> QED
    BY <2>1, <2>2
<1>5. ASSUME NEW s \in Ranks, RunMain(s) PROVE Tabled(r)'
  <2>1. CASE s # r
    <3>1. PICK op : Runs(s, op) /\ tables'[r] = tables[r] /\ turn'[r] = turn[r]
      BY <1>5, <2>1 DEF RunMain, PrepareInputs, Forward, WaitReceived, ApplySampled, Propose, TableTypes
    <3>2. /\ main'[r] = main[r] /\ UNCHANGED <<calls, scheduled, slots, part>>
      BY <1>0, <2>1, <3>1 DEF Runs, engineVars, StreamTypes
    <3>3. Begun(r)' = Begun(r)
      BY <3>2 DEF Begun, Finished
    <3> QED
      BY <3>1, <3>2, <3>3, TabledSame
  <2>2. CASE s = r /\ PrepareInputs(s)
    BY <2>2, TabledInputs
  <2>3. CASE s = r /\ ~PrepareInputs(s)
    <3>1. PICK op : Runs(r, op) /\ tables' = tables /\ turn' = turn
      BY <1>5, <2>3 DEF RunMain, Forward, WaitReceived, ApplySampled, Propose
    <3> QED
      BY <3>1, TabledRuns
  <2> QED
    BY <2>1, <2>2, <2>3
<1>6. ASSUME PrepareForward PROVE Tabled(r)'
  BY <1>6, TabledPrepare
<1>7. CASE Process \/ RunCollective \/ TakeRequest \/ StageInputs \/ UNCHANGED vars
  BY <1>1, <1>7 DEF Process, RunCollective, TakeRequest, StageInputs, vars, engineVars, rankVars
<1> QED
  BY <1>2, <1>3, <1>4, <1>5, <1>6, <1>7 DEF Next, Work, Issue

LEMMA TableTypesStep ==
  ASSUME StreamTypes, TableTypes, [Next]_vars
  PROVE  TableTypes'
<1>1. CASE UNCHANGED <<tables, turn>>
  BY <1>1 DEF TableTypes
<1>2. ASSUME NEW r \in Ranks, PrepareInputs(r) PROVE TableTypes'
  <2>1. Running(r) \in Nat
    BY <1>2, Popped DEF PrepareInputs
  <2>2. turn[r] \in Sets /\ NextTurn(turn[r]) \in Sets
    BY TurnNext DEF TableTypes
  <2> QED
    BY <1>2, <2>1, <2>2 DEF PrepareInputs, TableTypes
<1> QED
  BY <1>1, <1>2
     DEF Next, Work, Issue, Schedule, Process, ExecuteModel, SampleTokens, RunMain, Forward,
         WaitReceived, ApplySampled, Propose, PrepareForward, RunCollective, TakeRequest,
         StageInputs, vars, rankVars

LEMMA KeptSame ==
  ASSUME NEW r \in Ranks, Kept(r), tables'[r] = tables[r], turn'[r] = turn[r],
         \A t \in Nat \ {0} : Held(r, t)' /\ Gathered(r, t)' => Held(r, t) /\ Gathered(r, t)
  PROVE  Kept(r)'
BY DEF Kept, KeptIn

\* A rank that does nothing; others, or the engine, may.
LEMMA KeptIdle ==
  ASSUME NEW r \in Ranks, Kept(r), tables'[r] = tables[r], turn'[r] = turn[r],
         calls'[r] = calls[r], part'[r] = part[r], slots'[r] = slots[r], main'[r] = main[r],
         \A i \in DOMAIN inFlight' : \E j \in DOMAIN inFlight : inFlight'[i] = inFlight[j]
  PROVE  Kept(r)'
<1>1. ASSUME NEW t \in Nat \ {0}, Held(r, t)' PROVE Held(r, t)
  BY <1>1 DEF Held
<1>2. ASSUME NEW t \in Nat \ {0}, Gathered(r, t)' PROVE Gathered(r, t)
  BY <1>2 DEF Gathered
<1> QED
  BY <1>1, <1>2, KeptSame

LEMMA FlightSchedule ==
  ASSUME CollInv, Flight, NEW k \in Kinds, Schedule(k)
  PROVE  Flight'
<1> DEFINE c == [step |-> scheduled + 1, kind |-> k]
           q == inFlight
           w == inFlight'
           n == Len(q)
<1>1. /\ w = Append(q, c) /\ n < MaxBatches /\ scheduled' = scheduled + 1
      /\ calls' = [r \in Ranks |-> Append(calls[r], c)]
      /\ scheduled \in Nat
  BY DEF Schedule, CollInv, StreamTypes
<1>2. c \in Call /\ c.step = scheduled + 1
  BY <1>1 DEF Call
<1>3. /\ q \in Seq(Call) /\ n <= scheduled
      /\ \A i \in DOMAIN q : q[i].step = (scheduled - n) + i
  BY DEF Flight
<1> HIDE DEF c, q, w
<1>4. /\ w \in Seq(Call) /\ Len(w) = n + 1 /\ n \in Nat
      /\ DOMAIN q = 1..n /\ DOMAIN w = 1..(n + 1)
      /\ \A i \in 1..n : w[i] = q[i]
      /\ w[n + 1] = c
  <2>1. /\ w \in Seq(Call) /\ Len(w) = n + 1 /\ \A i \in 1..n : w[i] = q[i]
        /\ w[n + 1] = c
    BY <1>1, <1>2, <1>3, AppendProperties
  <2> QED
    BY <1>3, <2>1, LenProperties
<1> HIDE DEF n
<1>5. n + 1 <= MaxBatches
  BY <1>1, <1>4, PPStreamsAssumption
<1>6. ASSUME NEW i \in DOMAIN w PROVE w[i].step = (scheduled' - Len(w)) + i
  <2>1. scheduled' - Len(w) = scheduled - n
    BY <1>1, <1>4
  <2>2. CASE i \in DOMAIN q
    BY <1>3, <1>4, <2>1, <2>2
  <2>3. CASE i \notin DOMAIN q
    <3>1. i = n + 1 /\ w[i].step = scheduled + 1
      BY <1>2, <1>4, <2>3
    <3>2. (scheduled - n) + (n + 1) = scheduled + 1
      BY <1>1, <1>4
    <3> QED
      BY <2>1, <3>1, <3>2
  <2> QED
    BY <2>2, <2>3
<1>7. \A j \in DOMAIN q : q[j].step <= scheduled /\ q[j].step # scheduled + 1
  <2> TAKE j \in DOMAIN q
  <2>1. q[j].step = (scheduled - n) + j /\ j \in Nat /\ j <= n
    BY <1>3, <1>4
  <2> QED
    BY <1>1, <1>4, <2>1
<1>8. ASSUME NEW r \in Ranks, NEW i \in DOMAIN calls'[r], NEW j \in DOMAIN w,
             calls'[r][i].step = w[j].step
      PROVE  calls'[r][i] = w[j]
  <2> DEFINE a == calls[r]
             b == calls'[r]
             m == Len(a)
  <2>1. a \in Seq(Call) /\ m \in Nat /\ m <= scheduled /\ b = Append(a, c)
    BY <1>1, SideFacts
  <2>2. \A x \in DOMAIN a : a[x].step = (scheduled - m) + x
    BY DEF CollInv, Lined
  <2>3. \A x \in DOMAIN a : \A y \in DOMAIN q : a[x].step = q[y].step => a[x] = q[y]
    BY DEF Flight, q
  <2> HIDE DEF a, b
  <2>4. /\ DOMAIN a = 1..m /\ DOMAIN b = 1..(m + 1)
        /\ \A x \in 1..m : b[x] = a[x]
        /\ b[m + 1] = c
    BY <1>2, <2>1, AppendProperties, LenProperties
  <2> HIDE DEF m
  <2>5. \A x \in DOMAIN a : a[x].step # scheduled + 1
    <3> TAKE x \in DOMAIN a
    <3>1. a[x].step = (scheduled - m) + x /\ x \in Nat /\ x <= m
      BY <2>2, <2>4
    <3> QED
      BY <1>1, <2>1, <3>1
  <2>6. (i \in DOMAIN a /\ b[i] = a[i]) \/ b[i] = c
    <3>1. i \in DOMAIN b
      BY DEF b
    <3> QED
      BY <2>1, <2>4, <3>1
  <2>7. (j \in DOMAIN q /\ w[j] = q[j]) \/ w[j] = c
    BY <1>4
  <2>8. b[i].step = w[j].step
    BY <1>8 DEF b
  <2>9. b[i] = w[j]
    BY <1>2, <1>7, <2>3, <2>5, <2>6, <2>7, <2>8
  <2> QED
    BY <2>9 DEF b
<1>9. Len(w) <= MaxBatches /\ Len(w) <= scheduled'
  BY <1>1, <1>3, <1>4, <1>5 DEF n
<1> QED
  BY <1>4, <1>6, <1>8, <1>9 DEF Flight, w

LEMMA FlightStep ==
  ASSUME CollInv, Flight, [Next]_vars
  PROVE  Flight'
<1>0. StreamTypes /\ side \in [Ranks -> Seq(Coll)]
  BY DEF CollInv, Sided
<1>1. CASE UNCHANGED <<scheduled, inFlight, calls>>
  BY <1>1 DEF Flight
<1>2. ASSUME NEW k \in Kinds, Schedule(k) PROVE Flight'
  BY <1>2, FlightSchedule
<1>3. ASSUME NEW r \in Ranks, NEW posts \in Seq(Coll), Finishes(r, posts), inFlight' = inFlight
      PROVE  Flight'
  <2>1. /\ calls' = [calls EXCEPT ![r] = Tail(calls[r])] /\ scheduled' = scheduled
        /\ calls[r] # <<>> /\ calls[r] \in Seq(Call)
    BY <1>0, <1>3 DEF Finishes, StreamTypes
  <2>2. \A i \in DOMAIN Tail(calls[r]) : i + 1 \in DOMAIN calls[r] /\ Tail(calls[r])[i] = calls[r][i + 1]
    BY <2>1, HeadTail
  <2>3. \A s \in Ranks : \A i \in DOMAIN calls'[s] : \E j \in DOMAIN calls[s] : calls'[s][i] = calls[s][j]
    <3> TAKE s \in Ranks
    <3>1. calls'[s] = IF s = r THEN Tail(calls[r]) ELSE calls[s]
      BY <1>0, <2>1 DEF StreamTypes
    <3> QED
      BY <2>2, <3>1
  <2> QED
    BY <1>3, <2>1, <2>3 DEF Flight
<1>4. ASSUME NEW r \in Ranks, NEW freed \in BOOLEAN, ExecuteModel(r, freed) PROVE Flight'
  <2>1. inFlight' = inFlight /\ <<>> \in Seq(Coll) /\ scheduled' = scheduled
    BY <1>4 DEF ExecuteModel, engineVars
  <2>2. UNCHANGED <<calls, side, scheduled>> \/ Finishes(r, <<>>)
    BY <1>0, <1>4, ExecuteFinishes
  <2> QED
    BY <1>1, <1>3, <2>1, <2>2
<1>5. ASSUME NEW r \in Ranks, SampleTokens(r) PROVE Flight'
  <2>1. inFlight' = inFlight
    BY <1>5 DEF SampleTokens, engineVars
  <2> QED
    BY <1>0, <1>3, <1>5, <2>1, SampleFinishes
<1>6. ASSUME Process PROVE Flight'
  <2> DEFINE q == inFlight
             w == inFlight'
  <2>1. w = Tail(q) /\ q # <<>> /\ q \in Seq(Call) /\ UNCHANGED <<scheduled, calls>>
    BY <1>6 DEF Process, rankVars, Flight
  <2>2. /\ Len(q) <= MaxBatches /\ Len(q) <= scheduled /\ scheduled \in Nat
        /\ \A i \in DOMAIN q : q[i].step = (scheduled - Len(q)) + i
    BY <1>0 DEF Flight, StreamTypes
  <2>3. \A r \in Ranks : \A i \in DOMAIN calls[r] : \A j \in DOMAIN q :
          calls[r][i].step = q[j].step => calls[r][i] = q[j]
    BY DEF Flight
  <2> HIDE DEF q, w
  <2> DEFINE n == Len(q)
             m == Len(w)
  <2>4. /\ w \in Seq(Call) /\ m = n - 1 /\ n \in Nat /\ n >= 1
        /\ \A i \in DOMAIN w : i \in Nat /\ i + 1 \in DOMAIN q /\ w[i] = q[i + 1]
    BY <2>1, HeadTail
  <2> HIDE DEF n, m
  <2>5. m <= MaxBatches /\ m <= scheduled
    BY <2>2, <2>4, PPStreamsAssumption DEF n
  <2>6. ASSUME NEW i \in DOMAIN w PROVE w[i].step = (scheduled - m) + i
    <3>1. i \in Nat /\ w[i].step = (scheduled - n) + (i + 1)
      BY <2>2, <2>4 DEF n
    <3>2. (scheduled - n) + (i + 1) = (scheduled - m) + i
      BY <2>2, <2>4, <3>1
    <3> QED
      BY <3>1, <3>2
  <2>7. \A r \in Ranks : \A i \in DOMAIN calls'[r] : \A j \in DOMAIN w :
          calls'[r][i].step = w[j].step => calls'[r][i] = w[j]
    BY <2>1, <2>3, <2>4
  <2> QED
    BY <2>1, <2>4, <2>5, <2>6, <2>7 DEF Flight, m, w
<1>7. CASE \/ PrepareForward \/ RunCollective \/ TakeRequest \/ StageInputs \/ UNCHANGED vars
           \/ \E r \in Ranks : RunMain(r)
  BY <1>1, <1>7
     DEF PrepareForward, RunCollective, TakeRequest, StageInputs, RunMain, PrepareInputs,
         Forward, WaitReceived, ApplySampled, Propose, Runs, vars, engineVars, rankVars
<1> QED
  BY <1>2, <1>4, <1>5, <1>6, <1>7 DEF Next, Work, Issue

\* A new step has no tables yet.
LEMMA KeptSchedule ==
  ASSUME CollInv, Flight, NEW r \in Ranks, Kept(r), NEW k \in Kinds, Schedule(k)
  PROVE  Kept(r)'
<1> DEFINE c == [step |-> scheduled + 1, kind |-> k]
<1>1. /\ inFlight' = Append(inFlight, c) /\ scheduled \in Nat
      /\ calls' = [s \in Ranks |-> Append(calls[s], c)] /\ calls'[r] = Append(calls[r], c)
      /\ UNCHANGED <<part, slots, main, tables, turn>>
  BY DEF Schedule, CollInv, StreamTypes
<1>2. c \in Call /\ c.step = scheduled + 1
  BY <1>1 DEF Call
<1> DEFINE q == inFlight
           w == inFlight'
           a == calls[r]
           b == calls'[r]
<1>3. q \in Seq(Call) /\ a \in Seq(Call) /\ (part[r] # "execute" => a # <<>>)
  BY BegunFacts, SideFacts DEF Flight
<1>4. w = Append(q, c) /\ b = Append(a, c)
  BY <1>1
<1> HIDE DEF c, q, w, a, b
<1>5. \A i \in DOMAIN w : w[i] = c \/ (i \in DOMAIN q /\ w[i] = q[i])
  <2>1. /\ DOMAIN q = 1..Len(q) /\ DOMAIN w = 1..(Len(q) + 1) /\ Len(q) \in Nat
        /\ \A i \in 1..Len(q) : w[i] = q[i]
        /\ w[Len(q) + 1] = c
    BY <1>2, <1>3, <1>4, AppendProperties, LenProperties
  <2> QED
    BY <2>1
<1>6. /\ \A i \in DOMAIN a : i \in DOMAIN b /\ b[i] = a[i]
      /\ \E i \in DOMAIN b : b[i] = c /\ (a # <<>> => i # 1)
      /\ a # <<>> => Head(b) = Head(a)
  <2>1. /\ DOMAIN a = 1..Len(a) /\ DOMAIN b = 1..(Len(a) + 1) /\ Len(a) \in Nat
        /\ b \in Seq(Call)
        /\ \A i \in 1..Len(a) : b[i] = a[i]
        /\ b[Len(a) + 1] = c
    BY <1>2, <1>3, <1>4, AppendProperties, LenProperties
  <2>2. a # <<>> => Len(a) # 0
    BY <1>3, EmptySeq
  <2>3. Len(a) + 1 \in DOMAIN b /\ (a # <<>> => Len(a) + 1 # 1)
    BY <2>1, <2>2
  <2>4. a # <<>> => Head(b) = b[1] /\ Head(a) = a[1] /\ 1 \in 1..Len(a)
    BY <2>1, <2>2
  <2> QED
    BY <2>1, <2>3, <2>4
<1>7. ASSUME NEW t \in Nat \ {0}, Gathered(r, t)' PROVE t # c.step
  <2>1. PICK i \in DOMAIN b : b[i] = c /\ (a # <<>> => i # 1)
    BY <1>6
  <2>2. \A x \in DOMAIN b : b[x].step = t => x = 1 /\ part[r] # "execute"
    BY <1>1, <1>7 DEF Gathered, b
  <2> QED
    BY <1>3, <2>1, <2>2
<1>8. ASSUME NEW t \in Nat \ {0}, Gathered(r, t)' PROVE Gathered(r, t)
  <2>1. \A x \in DOMAIN b : b[x].step = t => x = 1 /\ part[r] # "execute"
    BY <1>1, <1>8 DEF Gathered, b
  <2>2. \A x \in DOMAIN main[r] : main[r][x] # MainOp("inputs", t)
    BY <1>1, <1>8 DEF Gathered
  <2>3. \A x \in DOMAIN a : a[x].step = t => x = 1 /\ part[r] # "execute"
    BY <1>6, <2>1
  <2> QED
    BY <2>2, <2>3 DEF Gathered, a
<1>9. ASSUME NEW t \in Nat \ {0}, Held(r, t)', t # c.step PROVE Held(r, t)
  <2>1. \/ \E i \in DOMAIN w : w[i].kind # "empty" /\ w[i].step = t
        \/ \E j \in DOMAIN slots[r] : slots[r][j] = t
        \/ \E i \in DOMAIN main[r] : main[r][i].op = "apply" /\ main[r][i].step = t
        \/ part[r] # "execute" /\ Head(b).step = t
    BY <1>1, <1>9 DEF Held, w, b
  <2>2. \/ \E i \in DOMAIN q : q[i].kind # "empty" /\ q[i].step = t
        \/ \E j \in DOMAIN slots[r] : slots[r][j] = t
        \/ \E i \in DOMAIN main[r] : main[r][i].op = "apply" /\ main[r][i].step = t
        \/ part[r] # "execute" /\ Head(a).step = t
    BY <1>3, <1>5, <1>6, <1>9, <2>1
  <2> QED
    BY <2>2 DEF Held, q, a
<1> QED
  BY <1>1, <1>7, <1>8, <1>9, KeptSame

LEMMA KeptExecute ==
  ASSUME CollInv, ReadInv, Flight, NEW r \in Ranks, NEW freed \in BOOLEAN,
         ExecuteModel(r, freed), Kept(r)
  PROVE  Kept(r)'
<1>0. StreamTypes /\ side \in [Ranks -> Seq(Coll)]
  BY DEF CollInv, Sided
<1> DEFINE a == calls[r]
           call == Head(a)
<1>1. PICK ops : Issues(r, ops)
  BY <1>0, ExecuteIssues
<1>2. /\ ops \in Seq(Op) /\ main[r] \in Seq(Op) /\ main'[r] = main[r] \o ops
      /\ tables' = tables /\ turn' = turn /\ inFlight' = inFlight
      /\ part[r] = "execute" /\ a # <<>> /\ a \in Seq(Call)
  BY <1>0, <1>1 DEF StreamTypes, Issues, ExecuteModel, engineVars
<1>3. /\ \A i \in DOMAIN main[r] : i \in DOMAIN main'[r] /\ main'[r][i] = main[r][i]
      /\ \A j \in DOMAIN ops : \E i \in DOMAIN main'[r] : main'[r][i] = ops[j]
      /\ \A i \in DOMAIN main'[r] :
           \/ i \in DOMAIN main[r] /\ main'[r][i] = main[r][i]
           \/ \E j \in DOMAIN ops : main'[r][i] = ops[j]
  <2> DEFINE q == main[r]
             w == main'[r]
             n == Len(q)
  <2>1. /\ w = q \o ops /\ q \in Seq(Op) /\ ops \in Seq(Op)
    BY <1>2
  <2> HIDE DEF q, w, n
  <2>2. /\ \A i \in DOMAIN q : i \in DOMAIN w /\ w[i] = q[i]
        /\ \A j \in DOMAIN ops : n + j \in DOMAIN w /\ w[n + j] = ops[j]
        /\ \A i \in DOMAIN w : i \in DOMAIN q \/ \E j \in DOMAIN ops : i = n + j
    BY <2>1, MainAppended DEF n
  <2>3. /\ \A j \in DOMAIN ops : \E i \in DOMAIN w : w[i] = ops[j]
        /\ \A i \in DOMAIN w : \/ i \in DOMAIN q /\ w[i] = q[i]
                               \/ \E j \in DOMAIN ops : w[i] = ops[j]
    BY <2>2
  <2> QED
    BY <2>2, <2>3 DEF q, w
<1>4. /\ call = a[1] /\ 1 \in DOMAIN a /\ call.step = Finished(r) + 1 /\ Finished(r) \in Nat
      /\ \A i \in DOMAIN a : i # 1 => i - 1 \in DOMAIN Tail(a) /\ Tail(a)[i - 1] = a[i]
  BY <1>2, BegunFacts, FinishedFacts, HeadTail
<1>5. /\ call.kind = "empty" => calls'[r] = Tail(a) /\ part'[r] = "execute"
      /\ call.kind # "empty" => calls'[r] = a
  BY <1>0, <1>2 DEF ExecuteModel, StreamTypes
<1>6. \A t \in Due(r) : \E j \in DOMAIN slots[r] : slots[r][j] = t
  <2>1. r # Last => 1 \in DOMAIN slots[r] /\ Depth \in DOMAIN slots[r]
    BY <1>0, ExecuteSlots, PPStreamsAssumption
  <2> QED
    BY <2>1 DEF Due
<1>7. \A j \in DOMAIN slots'[r] :
        slots'[r][j] = 0 \/ \E i \in DOMAIN slots[r] : slots'[r][j] = slots[r][i]
  <2>1. CASE r = Last
    BY <1>0, <2>1, ExecuteSlots
  <2>2. CASE r # Last
    <3>1. /\ DOMAIN slots[r] = 1..Depth /\ DOMAIN slots'[r] = 1..Depth
          /\ \A j \in 1..Depth : slots'[r][j] = IF j = Depth THEN 0 ELSE slots[r][j + 1]
      BY <1>0, <2>2, ExecuteSlots
    <3>2. \A j \in 1..Depth : j # Depth => j + 1 \in 1..Depth
      BY PPStreamsAssumption
    <3> QED
      BY <3>1, <3>2
  <2> QED
    BY <2>1, <2>2
<1>8. call.kind # "empty" => \E i \in DOMAIN main'[r] : main'[r][i] = MainOp("inputs", call.step)
  <2> SUFFICES ASSUME call.kind # "empty"
               PROVE  \E i \in DOMAIN main'[r] : main'[r][i] = MainOp("inputs", call.step)
    OBVIOUS
  <2>1. PICK n \in DOMAIN ops : ops[n] = MainOp("inputs", call.step)
    BY <1>1 DEF Issues
  <2> HIDE DEF call
  <2> QED
    BY <1>3, <2>1
<1> HIDE DEF a, call
<1>9. ASSUME NEW t \in Nat \ {0}, Held(r, t)', Gathered(r, t)', t # call.step
      PROVE  Held(r, t) /\ Gathered(r, t)
  <2>1. \A x \in DOMAIN a : a[x].step # t
    <3> SUFFICES ASSUME NEW x \in DOMAIN a, a[x].step = t PROVE FALSE
      OBVIOUS
    <3>1. x # 1
      BY <1>4, <1>9
    <3>2. CASE call.kind = "empty"
      <4>1. x - 1 \in DOMAIN calls'[r] /\ calls'[r][x - 1].step = t /\ part'[r] = "execute"
        BY <1>4, <1>5, <3>1, <3>2
      <4> QED
        BY <1>9, <4>1 DEF Gathered
    <3>3. CASE call.kind # "empty"
      <4>1. x \in DOMAIN calls'[r] /\ calls'[r][x].step = t
        BY <1>5, <3>3
      <4> QED
        BY <1>9, <3>1, <4>1 DEF Gathered
    <3> QED
      BY <3>2, <3>3
  <2>2. \A x \in DOMAIN main[r] : main[r][x] # MainOp("inputs", t)
    <3>1. \A x \in DOMAIN main'[r] : main'[r][x] # MainOp("inputs", t)
      BY <1>9 DEF Gathered
    <3> QED
      BY <1>3, <3>1
  <2>3. Gathered(r, t)
    BY <2>1, <2>2 DEF Gathered, a
  <2>4. CASE \E i \in DOMAIN main'[r] : main'[r][i].op = "apply" /\ main'[r][i].step = t
    <3>1. PICK i \in DOMAIN main'[r] : main'[r][i].op = "apply" /\ main'[r][i].step = t
      BY <2>4
    <3>2. CASE i \in DOMAIN main[r] /\ main'[r][i] = main[r][i]
      BY <2>3, <3>1, <3>2 DEF Held
    <3>3. CASE \E j \in DOMAIN ops : main'[r][i] = ops[j]
      <4>1. PICK j \in DOMAIN ops : main'[r][i] = ops[j]
        BY <3>3
      <4>2. ops[j].op = "apply" /\ ops[j].step = t
        BY <3>1, <4>1
      <4>3. t \in Due(r)
        BY <1>1, <4>2 DEF Issues
      <4> QED
        BY <1>6, <2>3, <4>3 DEF Held
    <3> QED
      BY <1>3, <3>2, <3>3
  <2>5. CASE \E j \in DOMAIN slots'[r] : slots'[r][j] = t
    BY <1>7, <1>9, <2>3, <2>5 DEF Held
  <2>6. CASE part'[r] # "execute" /\ Head(calls'[r]).step = t
    <3>1. Head(calls'[r]) = call
      BY <1>5, <2>6 DEF call
    <3> QED
      BY <1>9, <2>6, <3>1
  <2>7. CASE \E i \in DOMAIN inFlight' : inFlight'[i].kind # "empty" /\ inFlight'[i].step = t
    BY <1>2, <2>3, <2>7 DEF Held
  <2> QED
    BY <1>9, <2>3, <2>4, <2>5, <2>6, <2>7 DEF Held
<1>10. ASSUME NEW t \in Nat \ {0}, Held(r, t)', Gathered(r, t)', t = call.step
       PROVE  FALSE
  <2>1. call.kind = "empty"
    <3>1. \A x \in DOMAIN main'[r] : main'[r][x] # MainOp("inputs", t)
      BY <1>10 DEF Gathered
    <3> QED
      BY <1>8, <1>10, <3>1
  <2>2. part'[r] = "execute" /\ t = Finished(r) + 1 /\ ~(t <= Finished(r))
    BY <1>4, <1>5, <1>10, <2>1
  <2>3. \A j \in DOMAIN slots[r] : slots[r][j] # t
    BY <2>2 DEF ReadInv, Readable
  <2>4. CASE \E i \in DOMAIN inFlight' : inFlight'[i].kind # "empty" /\ inFlight'[i].step = t
    <3>1. PICK i \in DOMAIN inFlight : inFlight[i].kind # "empty" /\ inFlight[i].step = t
      BY <1>2, <2>4
    <3>2. a[1] = inFlight[i]
      BY <1>4, <1>10, <3>1 DEF Flight, a
    <3> QED
      BY <1>4, <2>1, <3>1, <3>2
  <2>5. CASE \E j \in DOMAIN slots'[r] : slots'[r][j] = t
    BY <1>7, <2>3, <2>5
  <2>6. CASE \E i \in DOMAIN main'[r] : main'[r][i].op = "apply" /\ main'[r][i].step = t
    <3>1. PICK i \in DOMAIN main'[r] : main'[r][i].op = "apply" /\ main'[r][i].step = t
      BY <2>6
    <3>2. CASE i \in DOMAIN main[r] /\ main'[r][i] = main[r][i]
      BY <2>2, <3>1, <3>2 DEF ReadInv, Readable
    <3>3. CASE \E j \in DOMAIN ops : main'[r][i] = ops[j]
      <4>1. PICK j \in DOMAIN ops : main'[r][i] = ops[j]
        BY <3>3
      <4>2. ops[j].op = "apply" /\ ops[j].step = t
        BY <3>1, <4>1
      <4>3. t \in Due(r)
        BY <1>1, <4>2 DEF Issues
      <4> QED
        BY <1>6, <2>3, <4>3
    <3> QED
      BY <1>3, <3>2, <3>3
  <2> QED
    BY <1>10, <2>2, <2>4, <2>5, <2>6 DEF Held
<1> QED
  BY <1>2, <1>9, <1>10, KeptSame

\* The step a rank finishes moves to its queue.
LEMMA KeptSample ==
  ASSUME CollInv, NEW r \in Ranks, SampleTokens(r), Kept(r)
  PROVE  Kept(r)'
<1>0. StreamTypes
  BY DEF CollInv
<1> DEFINE a == calls[r]
           call == Head(a)
           q == main[r]
           w == main'[r]
<1>1. /\ a \in Seq(Call) /\ a # <<>> /\ calls'[r] = Tail(a) /\ q \in Seq(Op)
      /\ part[r] = "sample" /\ part'[r] = "execute"
      /\ tables' = tables /\ turn' = turn /\ inFlight' = inFlight
  BY <1>0 DEF StreamTypes, SampleTokens, engineVars
<1>2. /\ call = a[1] /\ call \in Call
      /\ \A i \in DOMAIN a : i # 1 => i - 1 \in DOMAIN Tail(a) /\ Tail(a)[i - 1] = a[i]
  BY <1>1, HeadTail
<1>3. \A j \in DOMAIN slots'[r] :
        slots'[r][j] = call.step \/ \E i \in DOMAIN slots[r] : slots'[r][j] = slots[r][i]
  <2>1. CASE slots' = slots
    BY <2>1
  <2>2. CASE slots' # slots
    <3>1. slots' = [slots EXCEPT ![r][Depth] = call.step]
      BY <2>2 DEF SampleTokens
    <3>2. slots'[r] = [slots[r] EXCEPT ![Depth] = call.step]
      BY <1>0, <3>1 DEF StreamTypes
    <3> QED
      BY <3>2
  <2> QED
    BY <2>1, <2>2
<1>4. /\ \A i \in DOMAIN q : i \in DOMAIN w /\ w[i] = q[i]
      /\ \A i \in DOMAIN w : w[i].op = "apply" => i \in DOMAIN q /\ w[i] = q[i]
  <2>1. CASE main' = main
    BY <2>1
  <2>2. CASE main' # main
    <3> DEFINE x == MainOp("propose", call.step)
    <3>1. main' = [main EXCEPT ![r] = Append(q, x)]
      BY <2>2 DEF SampleTokens
    <3>2. w = Append(q, x)
      BY <1>0, <3>1 DEF StreamTypes
    <3>3. x \in Op /\ x.op = "propose"
      BY <1>2 DEF MainOp, Op, Call
    <3> HIDE DEF x, q, w
    <3>4. /\ DOMAIN q = 1..Len(q) /\ DOMAIN w = 1..(Len(q) + 1) /\ Len(q) \in Nat
          /\ \A i \in 1..Len(q) : w[i] = q[i]
          /\ w[Len(q) + 1] = x
      BY <1>1, <3>2, <3>3, AppendProperties, LenProperties
    <3> QED
      BY <3>3, <3>4
  <2> QED
    BY <2>1, <2>2
<1> HIDE DEF a, call, q, w
<1>5. ASSUME NEW t \in Nat \ {0}, Held(r, t)' PROVE Held(r, t)
  <2>1. CASE \E i \in DOMAIN inFlight' : inFlight'[i].kind # "empty" /\ inFlight'[i].step = t
    BY <1>1, <2>1 DEF Held
  <2>2. CASE \E j \in DOMAIN slots'[r] : slots'[r][j] = t
    BY <1>1, <1>3, <2>2 DEF Held, call, a
  <2>3. CASE \E i \in DOMAIN main'[r] : main'[r][i].op = "apply" /\ main'[r][i].step = t
    BY <1>4, <2>3 DEF Held, q, w
  <2> QED
    BY <1>1, <1>5, <2>1, <2>2, <2>3 DEF Held
<1>6. ASSUME NEW t \in Nat \ {0}, Gathered(r, t)' PROVE Gathered(r, t)
  <2>1. \A x \in DOMAIN Tail(a) : Tail(a)[x].step # t
    BY <1>1, <1>6 DEF Gathered
  <2>2. \A x \in DOMAIN a : a[x].step = t => x = 1
    BY <1>2, <2>1
  <2>3. \A x \in DOMAIN q : q[x] # MainOp("inputs", t)
    <3>1. \A x \in DOMAIN w : w[x] # MainOp("inputs", t)
      BY <1>6 DEF Gathered, w
    <3> QED
      BY <1>4, <3>1
  <2> QED
    BY <1>1, <2>2, <2>3 DEF Gathered, a, q
<1> QED
  BY <1>1, <1>5, <1>6, KeptSame

LEMMA KeptPrepare ==
  ASSUME CollInv, NEW r \in Ranks, PrepareForward, Kept(r)
  PROVE  Kept(r)'
<1>0. StreamTypes
  BY DEF CollInv
<1>1. UNCHANGED <<tables, turn, slots, calls, inFlight>>
      /\ part' = [part EXCEPT ![1] = "sample"] /\ part[1] = "forward"
      /\ main' = [main EXCEPT ![1] = Append(main[1], MainOp("forward", Head(calls[1]).step))]
  BY DEF PrepareForward, engineVars
<1>2. CASE r # 1
  <2>1. main'[r] = main[r] /\ part'[r] = part[r]
    BY <1>0, <1>1, <1>2 DEF StreamTypes
  <2> QED
    BY <1>1, <2>1, KeptIdle
<1>3. CASE r = 1
  <2> DEFINE q == main[r]
             w == main'[r]
             x == MainOp("forward", Head(calls[1]).step)
  <2>1. x \in Op /\ x.op = "forward"
    <3>1. calls[1] # <<>> /\ calls[1] \in Seq(Call)
      BY <1>0, <1>1, FirstRank DEF StreamTypes
    <3>2. Head(calls[1]) \in Call
      BY <3>1
    <3> QED
      BY <3>2 DEF MainOp, Op, Call
  <2>2. w = Append(q, x) /\ q \in Seq(Op) /\ part'[r] # "execute" /\ part[r] # "execute"
    BY <1>0, <1>1, <1>3, FirstRank DEF StreamTypes
  <2> HIDE DEF q, w, x
  <2>3. /\ \A i \in DOMAIN q : i \in DOMAIN w /\ w[i] = q[i]
        /\ \A i \in DOMAIN w : w[i].op = "apply" => i \in DOMAIN q /\ w[i] = q[i]
    <3>1. /\ DOMAIN q = 1..Len(q) /\ DOMAIN w = 1..(Len(q) + 1) /\ Len(q) \in Nat
          /\ \A i \in 1..Len(q) : w[i] = q[i]
          /\ w[Len(q) + 1] = x
      BY <2>1, <2>2, AppendProperties, LenProperties
    <3> QED
      BY <2>1, <3>1
  <2>4. ASSUME NEW t \in Nat \ {0}, Held(r, t)' PROVE Held(r, t)
    BY <1>1, <2>2, <2>3, <2>4 DEF Held, q, w
  <2>5. ASSUME NEW t \in Nat \ {0}, Gathered(r, t)' PROVE Gathered(r, t)
    BY <1>1, <2>2, <2>3, <2>5 DEF Gathered, q, w
  <2> QED
    BY <1>1, <2>4, <2>5, KeptSame
<1> QED
  BY <1>2, <1>3

\* What runs is gone from the stream.
LEMMA HeldRuns ==
  ASSUME CollInv, NEW r \in Ranks, NEW op, Runs(r, op), NEW t \in Nat \ {0}
  PROVE  /\ Held(r, t)' => Held(r, t)
         /\ Gathered(r, t)' /\ main[r][1] # MainOp("inputs", t) => Gathered(r, t)
<1> DEFINE q == main[r]
           w == main'[r]
<1>1. /\ q \in Seq(Op)
      /\ DOMAIN w = {i \in Nat \ {0} : i + 1 \in DOMAIN q}
      /\ \A i \in DOMAIN w : w[i] = q[i + 1]
  BY Popped, FinishedFacts DEF CollInv
<1>2. UNCHANGED <<calls, part, slots, inFlight>>
  BY DEF Runs, engineVars
<1> HIDE DEF q, w
<1>3. /\ \A i \in DOMAIN w : i + 1 \in DOMAIN q /\ w[i] = q[i + 1]
      /\ \A i \in DOMAIN q : i # 1 => i - 1 \in DOMAIN w /\ w[i - 1] = q[i]
  <2>1. \A i \in DOMAIN q : i # 1 => i - 1 \in Nat \ {0} /\ (i - 1) + 1 = i
    BY <1>1
  <2> QED
    BY <1>1, <2>1
<1>4. Held(r, t)' => Held(r, t)
  BY <1>2, <1>3 DEF Held, q, w
<1>5. ASSUME Gathered(r, t)', main[r][1] # MainOp("inputs", t) PROVE Gathered(r, t)
  <2>1. \A i \in DOMAIN w : w[i] # MainOp("inputs", t)
    BY <1>5 DEF Gathered, w
  <2>2. \A i \in DOMAIN q : q[i] # MainOp("inputs", t)
    BY <1>3, <1>5, <2>1 DEF q
  <2> QED
    BY <1>2, <1>5, <2>2 DEF Gathered, q
<1> QED
  BY <1>4, <1>5

LEMMA KeptRuns ==
  ASSUME CollInv, NEW r \in Ranks, NEW op, op # "inputs", Runs(r, op), Kept(r),
         tables' = tables, turn' = turn
  PROVE  Kept(r)'
<1>1. \A t \in Nat \ {0} : main[r][1] # MainOp("inputs", t)
  <2>1. main[r][1].op = op
    BY Popped DEF CollInv
  <2> QED
    BY <2>1 DEF MainOp
<1> QED
  BY <1>1, HeldRuns, KeptSame

\* Gathering the tables of one step takes none from those that need theirs.
LEMMA KeptInputs ==
  ASSUME CollInv, TableTypes, NEW r \in Ranks, PrepareInputs(r), Tabled(r), Kept(r)
  PROVE  Kept(r)'
<1> DEFINE x == main[r][1].step
           T == tables[r]
           n == turn[r]
           u == NextTurn(n)
           U == [T EXCEPT ![u] = x]
<1>1. /\ Runs(r, "inputs") /\ main[r][1].op = "inputs" /\ Running(r) = x /\ x \in Nat
      /\ main[r] \in Seq(Op) /\ main[r] # <<>>
  BY Popped, FinishedFacts DEF CollInv, PrepareInputs
<1>2. tables'[r] = U /\ turn'[r] = u
  BY <1>1 DEF PrepareInputs, TableTypes
<1>3. RingIn(T, n) /\ \A s \in Sets : T[s] < x
  <2>1. 1 \in DOMAIN main[r]
    BY <1>1
  <2> QED
    BY <1>1, <2>1 DEF Tabled, InputsIn
<1> SUFFICES ASSUME NEW t \in Nat \ {0}, Held(r, t)', Gathered(r, t)'
             PROVE  KeptIn(t, U, u)
  BY <1>2 DEF Kept, KeptIn
<1>4. CASE x = t
  <2>1. u \in Sets /\ T \in [Sets -> Nat]
    BY <1>3, TurnNext DEF RingIn
  <2>2. U[u] = t
    BY <1>4, <2>1
  <2> HIDE DEF U, u
  <2> QED
    BY <2>1, <2>2 DEF KeptIn
<1>5. CASE x # t
  <2>1. main[r][1] # MainOp("inputs", t)
    BY <1>5 DEF MainOp
  <2>2. Held(r, t) /\ Gathered(r, t)
    BY <1>1, <2>1, HeldRuns
  <2>3. KeptIn(t, T, n)
    BY <2>2 DEF Kept
  <2> HIDE DEF x, T, n
  <2> QED
    BY <1>1, <1>3, <2>3, KeptGathers
<1> QED
  BY <1>4, <1>5

LEMMA KeptStep ==
  ASSUME TableInv, [Next]_vars, NEW r \in Ranks
  PROVE  Kept(r)'
<1>0. /\ CollInv /\ ReadInv /\ Flight /\ TableTypes /\ Tabled(r) /\ Kept(r)
      /\ StreamTypes /\ side \in [Ranks -> Seq(Coll)]
  BY DEF TableInv, CollInv, Sided
<1>1. CASE UNCHANGED <<calls, part, slots, main, tables, turn, inFlight>>
  BY <1>0, <1>1, KeptIdle
<1>2. ASSUME NEW k \in Kinds, Schedule(k) PROVE Kept(r)'
  BY <1>0, <1>2, KeptSchedule
<1>3. ASSUME NEW s \in Ranks, NEW freed \in BOOLEAN, ExecuteModel(s, freed) PROVE Kept(r)'
  <2>1. CASE s = r
    BY <1>0, <1>3, <2>1, KeptExecute
  <2>2. CASE s # r
    <3>1. /\ main'[r] = main[r] /\ calls'[r] = calls[r] /\ inFlight' = inFlight
          /\ slots'[r] = slots[r] /\ part'[r] = part[r] /\ tables' = tables /\ turn' = turn
      BY <1>0, <1>3, <2>2 DEF ExecuteModel, engineVars, StreamTypes
    <3> QED
      BY <1>0, <3>1, KeptIdle
  <2> QED
    BY <2>1, <2>2
<1>4. ASSUME NEW s \in Ranks, SampleTokens(s) PROVE Kept(r)'
  <2>1. CASE s = r
    BY <1>0, <1>4, <2>1, KeptSample
  <2>2. CASE s # r
    <3>1. /\ main'[r] = main[r] /\ calls'[r] = calls[r] /\ inFlight' = inFlight
          /\ slots'[r] = slots[r] /\ part'[r] = part[r] /\ tables' = tables /\ turn' = turn
      BY <1>0, <1>4, <2>2 DEF SampleTokens, engineVars, StreamTypes
    <3> QED
      BY <1>0, <3>1, KeptIdle
  <2> QED
    BY <2>1, <2>2
<1>5. ASSUME NEW s \in Ranks, RunMain(s) PROVE Kept(r)'
  <2>1. CASE s # r
    <3>1. PICK op : Runs(s, op) /\ tables'[r] = tables[r] /\ turn'[r] = turn[r]
      BY <1>0, <1>5, <2>1
         DEF RunMain, PrepareInputs, Forward, WaitReceived, ApplySampled, Propose, TableTypes
    <3>2. /\ main'[r] = main[r] /\ UNCHANGED <<calls, inFlight, slots, part>>
      BY <1>0, <2>1, <3>1 DEF Runs, engineVars, StreamTypes
    <3> QED
      BY <1>0, <3>1, <3>2, KeptIdle
  <2>2. CASE s = r /\ PrepareInputs(s)
    BY <1>0, <2>2, KeptInputs
  <2>3. CASE s = r /\ ~PrepareInputs(s)
    <3>1. PICK op : op # "inputs" /\ Runs(r, op) /\ tables' = tables /\ turn' = turn
      BY <1>5, <2>3 DEF RunMain, Forward, WaitReceived, ApplySampled, Propose
    <3> QED
      BY <1>0, <3>1, KeptRuns
  <2> QED
    BY <2>1, <2>2, <2>3
<1>6. ASSUME PrepareForward PROVE Kept(r)'
  BY <1>0, <1>6, KeptPrepare
<1>7. ASSUME Process PROVE Kept(r)'
  <2>1. UNCHANGED <<calls, part, slots, main, tables, turn>>
        /\ inFlight' = Tail(inFlight) /\ inFlight # <<>> /\ inFlight \in Seq(Call)
    BY <1>0, <1>7 DEF Process, rankVars, Flight
  <2>2. \A i \in DOMAIN inFlight' : \E j \in DOMAIN inFlight : inFlight'[i] = inFlight[j]
    <3>1. \A i \in DOMAIN Tail(inFlight) :
            i + 1 \in DOMAIN inFlight /\ Tail(inFlight)[i] = inFlight[i + 1]
      BY <2>1, HeadTail
    <3> QED
      BY <2>1, <3>1
  <2> QED
    BY <1>0, <2>1, <2>2, KeptIdle
<1>8. CASE RunCollective \/ TakeRequest \/ StageInputs \/ UNCHANGED vars
  BY <1>1, <1>8 DEF RunCollective, TakeRequest, StageInputs, vars, engineVars, rankVars
<1> QED
  BY <1>2, <1>3, <1>4, <1>5, <1>6, <1>7, <1>8 DEF Next, Work, Issue

LEMMA LastStep ==
  ASSUME StreamTypes, LastEmpty, [Next]_vars
  PROVE  LastEmpty'
<1> SUFFICES slots'[Last] = slots[Last]
  BY DEF LastEmpty
<1>0. slots \in [Ranks -> Seq(Nat)]
  BY DEF StreamTypes
<1>1. ASSUME NEW r \in Ranks, NEW freed \in BOOLEAN, ExecuteModel(r, freed)
      PROVE  slots'[Last] = slots[Last]
  BY <1>0, <1>1 DEF ExecuteModel
<1>2. ASSUME NEW r \in Ranks, SampleTokens(r) PROVE slots'[Last] = slots[Last]
  <2>1. CASE r = Last
    <3>1. slots' = slots
      BY <1>2, <2>1 DEF SampleTokens
    <3> QED
      BY <3>1
  <2>2. CASE r # Last
    BY <1>0, <1>2, <2>2 DEF SampleTokens
  <2> QED
    BY <2>1, <2>2
<1>3. ASSUME NEW r \in Ranks, RunMain(r) PROVE slots' = slots
  BY <1>3 DEF RunMain, PrepareInputs, Forward, WaitReceived, ApplySampled, Propose, Runs
<1>4. CASE \E k \in Kinds : Schedule(k)
  BY <1>4 DEF Schedule
<1>5. CASE Process \/ PrepareForward \/ RunCollective \/ TakeRequest \/ StageInputs
  BY <1>5 DEF Process, PrepareForward, RunCollective, TakeRequest, StageInputs, rankVars
<1>6. CASE UNCHANGED vars
  BY <1>6 DEF vars, rankVars
<1> QED
  BY <1>1, <1>2, <1>3, <1>4, <1>5, <1>6 DEF Next, Work, Issue

LEMMA TableStep == TableInv /\ [Next]_vars => TableInv'
<1> SUFFICES ASSUME TableInv, [Next]_vars PROVE TableInv'
  OBVIOUS
<1>1. CollInv /\ ReadInv /\ Flight /\ TableTypes /\ StreamTypes /\ LastEmpty
  BY DEF TableInv, CollInv
<1>2. CollInv' /\ ReadInv'
  BY <1>1, CollStep, ReadStep
<1>3. Flight' /\ TableTypes' /\ LastEmpty'
  BY <1>1, FlightStep, TableTypesStep, LastStep
<1>4. ASSUME NEW r \in Ranks PROVE Tabled(r)' /\ Kept(r)'
  <2>1. Tabled(r)
    BY DEF TableInv
  <2> QED
    BY <1>1, <1>2, <2>1, TabledStep, KeptStep
<1> QED
  BY <1>2, <1>3, <1>4 DEF TableInv

LEMMA TableInit == Init => TableInv
<1> SUFFICES ASSUME Init PROVE TableInv
  OBVIOUS
<1>1. CollInv /\ ReadInv /\ LastEmpty
  <2>1. LastEmpty
    BY PPStreamsAssumption DEF Init, LastEmpty, Ranks, Last
  <2> QED
    BY <2>1, CollInit, ReadInit
<1>2. /\ inFlight = <<>> /\ calls = [r \in Ranks |-> <<>>] /\ scheduled = 0
      /\ tables = [r \in Ranks |-> NoTables] /\ turn = [r \in Ranks |-> 0]
      /\ main = [r \in Ranks |-> <<>>] /\ part = [r \in Ranks |-> "execute"]
      /\ slots = [r \in Ranks |-> IF r = Last THEN <<>> ELSE [i \in Ranks |-> 0]]
  BY DEF Init
<1>3. Len(<<>>) = 0 /\ DOMAIN <<>> = {}
  OBVIOUS
<1>4. 0 \in Sets /\ NoTables \in [Sets -> Nat] /\ \A s \in Sets : NoTables[s] = 0
  BY PPStreamsAssumption DEF Sets, NoTables
<1>5. Flight
  <2>1. inFlight \in Seq(Call)
    BY <1>2
  <2>2. Len(inFlight) = 0 /\ DOMAIN inFlight = {}
    BY <1>2, <1>3, Zenon
  <2> QED
    BY <1>2, <2>1, <2>2, PPStreamsAssumption DEF Flight
<1>6. TableTypes
  BY <1>2, <1>4 DEF TableTypes
<1>7. ASSUME NEW r \in Ranks PROVE Tabled(r) /\ Kept(r)
  <2>1. /\ tables[r] = NoTables /\ turn[r] = 0 /\ main[r] = <<>> /\ part[r] = "execute"
        /\ calls[r] = <<>> /\ slots[r] = IF r = Last THEN <<>> ELSE [i \in Ranks |-> 0]
    BY <1>2
  <2>2. DOMAIN main[r] = {} /\ DOMAIN inFlight = {}
    BY <1>2, <1>3, <2>1, Zenon
  <2>3. \A j \in DOMAIN slots[r] : slots[r][j] = 0
    BY <2>1
  <2>4. RingIn(tables[r], turn[r])
    BY <1>4, <2>1 DEF RingIn
  <2>5. Begun(r) \in Nat
    BY <1>1, BegunFacts
  <2>6. InputsIn(main[r], tables[r], Begun(r)) /\ AppliesIn(main[r], tables[r])
    BY <1>4, <2>1, <2>2, <2>5 DEF InputsIn, AppliesIn
  <2>7. r # Last => \A j \in 1..Depth : slots[r][j] = 0
    BY <2>1 DEF Ranks
  <2>8. \A t \in Nat \ {0} : ~Held(r, t)
    BY <2>1, <2>2, <2>3 DEF Held
  <2> QED
    BY <2>4, <2>6, <2>7, <2>8 DEF Tabled, Kept
<1> QED
  BY <1>1, <1>5, <1>6, <1>7 DEF TableInv

\* The pool has a set for every step in flight, and for every one an entry of
\* the receive queue outlives ("VLLM_BT_POOL >= max_concurrent_batches + 1",
\* patch_p0.py:80).
PoolFits == MaxBatches <= Pool /\ Depth <= Pool

\* What rank r still needs was scheduled less than Pool steps before the last
\* step whose tables are gathered.
LEMMA PendingRecent ==
  ASSUME TableInv, PoolFits, NEW r \in Ranks, NEW t \in Pending(r)
  PROVE  t \in Nat \ {0} /\ Held(r, t) /\ \A s \in Sets : tables[r][s] < t + Pool
<1>0. /\ CollInv /\ Flight /\ Tabled(r) /\ StreamTypes
      /\ Depth \in Nat /\ Pool \in Nat /\ MaxBatches \in Nat
  BY PPStreamsAssumption DEF TableInv, CollInv
<1> DEFINE B == Begun(r)
           T == tables[r]
<1>1. /\ B \in Nat /\ scheduled \in Nat /\ B <= scheduled
      /\ \A s \in Sets : T[s] \in Nat /\ T[s] <= B
  BY <1>0, BegunFacts DEF Tabled, InputsIn, RingIn
<1> HIDE DEF B
<1>2. CASE \E i \in DOMAIN inFlight : inFlight[i].kind # "empty" /\ t = inFlight[i].step
  <2>1. PICK i \in DOMAIN inFlight : inFlight[i].kind # "empty" /\ t = inFlight[i].step
    BY <1>2
  <2> DEFINE n == Len(inFlight)
  <2>2. /\ inFlight \in Seq(Call) /\ n <= MaxBatches /\ t = (scheduled - n) + i
    BY <1>0, <2>1 DEF Flight
  <2>3. n \in Nat /\ i \in Nat /\ i >= 1 /\ inFlight[i] \in Call
    BY <2>2
  <2>4. t \in Nat \ {0}
    BY <2>1, <2>3 DEF Call
  <2> HIDE DEF n, T
  <2>5. \A s \in Sets : T[s] < t + Pool
    BY <1>0, <1>1, <2>2, <2>3, <2>4 DEF PoolFits
  <2> QED
    BY <2>1, <2>4, <2>5 DEF Held, T
<1>3. CASE \E j \in DOMAIN slots[r] : slots[r][j] # 0 /\ t = slots[r][j]
  <2>1. PICK j \in DOMAIN slots[r] : slots[r][j] # 0 /\ t = slots[r][j]
    BY <1>3
  <2>2. slots[r] \in Seq(Nat) /\ (r # Last => Len(slots[r]) = Depth)
    BY <1>0 DEF StreamTypes
  <2>3. r # Last
    BY <1>0, <2>1 DEF TableInv, LastEmpty
  <2>4. j \in 1..Depth /\ t \in Nat \ {0}
    BY <2>1, <2>2, <2>3
  <2>5. t + Depth = B + j
    BY <1>0, <2>1, <2>3, <2>4 DEF Tabled, B
  <2> HIDE DEF T
  <2>6. \A s \in Sets : T[s] < t + Pool
    BY <1>0, <1>1, <2>4, <2>5 DEF PoolFits
  <2> QED
    BY <2>1, <2>4, <2>6 DEF Held, T
<1>4. CASE \E i \in DOMAIN main[r] : main[r][i].op = "apply" /\ t = main[r][i].step
  <2>1. PICK i \in DOMAIN main[r] : main[r][i].op = "apply" /\ t = main[r][i].step
    BY <1>4
  <2>2. t \in Nat
    BY <1>0, <2>1, FinishedFacts
  <2>3. t # 0 /\ \A s \in Sets : T[s] < t + Depth
    BY <1>0, <2>1 DEF Tabled, AppliesIn
  <2> HIDE DEF T
  <2>4. \A s \in Sets : T[s] < t + Pool
    BY <1>0, <1>1, <2>2, <2>3 DEF PoolFits
  <2> QED
    BY <2>1, <2>2, <2>3, <2>4 DEF Held, T
<1> QED
  BY <1>2, <1>3, <1>4 DEF Pending

(***************************************************************************)
(* With a pool of at least MaxBatches sets, and of at least as many as     *)
(* there are ranks, the block tables of a step stay in their set until its *)
(* output is processed and its entry of the receive queue is read          *)
(* (patch_p0.py:67-85).                                                    *)
(***************************************************************************)
THEOREM TablesStayOwn == PoolFits /\ Spec => []TablesOwn
<1> SUFFICES ASSUME PoolFits PROVE Spec => []TablesOwn
  OBVIOUS
<1>1. TableInv => TablesOwn
  <2> SUFFICES ASSUME TableInv, NEW r \in Ranks, NEW t \in Pending(r), Gathered(r, t)
               PROVE  \E s \in DOMAIN tables[r] : tables[r][s] = t
    BY DEF TablesOwn
  <2>1. t \in Nat \ {0} /\ Held(r, t) /\ \A s \in Sets : tables[r][s] < t + Pool
    BY PendingRecent
  <2>2. KeptIn(t, tables[r], turn[r])
    BY <2>1 DEF TableInv, Kept
  <2>3. RingIn(tables[r], turn[r])
    BY DEF TableInv, Tabled
  <2> DEFINE T == tables[r]
             n == turn[r]
             u == NextTurn(n)
  <2>4. /\ n \in Sets /\ u \in Sets /\ T \in [Sets -> Nat] /\ Age(n, n) = 0
        /\ Age(n, u) = Pool - 1 /\ Pool \in Nat /\ Pool >= 1
    BY <2>3, TurnNext, AgeFacts, PPStreamsAssumption DEF RingIn
  <2>5. T[u] = 0 \/ T[u] + ((Pool - 1) - 0) <= T[n]
    <3>1. Age(n, n) <= Age(n, u)
      BY <2>4
    <3> HIDE DEF u
    <3> QED
      BY <2>3, <2>4, <3>1 DEF RingIn
  <2>6. ~(t < T[u])
    <3>1. T[n] < t + Pool /\ T[n] \in Nat /\ T[u] \in Nat
      BY <2>1, <2>4
    <3> HIDE DEF T, n, u
    <3> QED
      BY <2>1, <2>4, <2>5, <3>1
  <2>7. \E s \in Sets : T[s] = t
    BY <2>2, <2>6 DEF KeptIn
  <2> QED
    BY <2>4, <2>7
<1> QED
  BY <1>1, TableInit, TableStep, PTL DEF Spec
=============================================================================
