---------------------------- MODULE CallStackProofs ----------------------------
(***************************************************************************)
(* Proof that the frame memory implements CallStack: calls nest and every  *)
(* return resumes right after the call it answers, for every program, any  *)
(* number of frames and any stack size.                                    *)
(***************************************************************************)
EXTENDS SetMachineProofs

live == status = "running"

\* The return addresses form a sequence as long as the frames in use, of
\* addresses within the program.
LEMMA ReturnAddressesType ==
  ASSUME IInv
  PROVE  /\ ReturnAddresses \in Seq(Size)
         /\ Len(ReturnAddresses) = frames
         /\ frames \in 0 .. FRAME_COUNT
<1>1. frames \in 0 .. FRAME_COUNT /\ frames \in Nat
  BY MachineAssumption DEF IInv, TypeOK
<1>2. ASSUME NEW k \in 1 .. frames
      PROVE  frame_memory[k - 1].rip - 1 \in Size
  <2>1. k - 1 \in 0 .. frames - 1
    BY <1>1
  <2>2. frame_memory[k - 1].rip - 1 \in 1 .. Len(program)
    BY <2>1 DEF IInv, LiveFramesReturnToCalls
  <2> QED BY <2>2, Moduli DEF IInv, TypeOK, Loadable, Size
<1> QED BY <1>1, <1>2 DEF ReturnAddresses

\* What a step leaves of the promise when it leaves the frames in use.
LEMMA ReturnsUnchanged ==
  ASSUME IInv, frames' = frames,
         \A s \in 0 .. frames - 1 : frame_memory'[s].rip = frame_memory[s].rip
  PROVE  ReturnAddresses' = ReturnAddresses
<1>1. frames \in Nat
  BY MachineAssumption DEF IInv, TypeOK
<1>2. \A k \in 1 .. frames : frame_memory'[k - 1].rip = frame_memory[k - 1].rip
  BY <1>1
<1> QED BY <1>1, <1>2 DEF ReturnAddresses

\* The steps of a running machine that call and return from nothing.
LEMMA ProceedStep ==
  ASSUME IInv, IInv', live, live', UNCHANGED calls
  PROVE  CallPromise!Proceed
<1>1. ReturnAddresses' = ReturnAddresses
  BY ReturnsUnchanged DEF calls
<1>2. pc' \in Size
  BY DEF IInv, TypeOK
<1> QED BY <1>1, <1>2 DEF CallPromise!Proceed, live

\* The steps that end the machine.
LEMMA StopStep ==
  ASSUME IInv, IInv', live, ~live', UNCHANGED calls
  PROVE  CallPromise!Stop
<1>1. ReturnAddresses' = ReturnAddresses
  BY ReturnsUnchanged DEF calls
<1>2. pc' \in Size
  BY DEF IInv, TypeOK
<1> QED BY <1>1, <1>2 DEF CallPromise!Stop, live

\* A call appends the address after it.
LEMMA CallStep ==
  ASSUME IInv, IInv', Call
  PROVE  CallPromise!Invoke
<1>1. Executing /\ Inst.op = "I_CALL" /\ Defined(Inst)
  BY DEF Call, Fetch
<1>2. /\ frames \in 0 .. FRAME_COUNT - 1 /\ frames \in Slot
      /\ frames' = frames + 1
  BY <1>1, MachineAssumption DEF IInv, TypeOK, Call, Defined, Slot
<1>3. \A s \in Slot : frame_memory'[s].rip =
                        IF s = frames THEN pc + 2 ELSE frame_memory[s].rip
  BY DEF Call, ResumePoint, IInv, TypeOK
<1>4. pc \in Nat
  BY <1>1, FetchFacts DEF IInv
<1>5. ReturnAddresses \in Seq(Size) /\ Len(ReturnAddresses) = frames
  BY ReturnAddressesType
<1>6. ReturnAddresses' = [k \in 1 .. frames + 1 |->
                            IF k = frames + 1 THEN pc + 1 ELSE ReturnAddresses[k]]
  <2>1. ReturnAddresses' = [k \in 1 .. frames + 1 |-> frame_memory'[k - 1].rip - 1]
    BY <1>2 DEF ReturnAddresses
  <2>2. ASSUME NEW k \in 1 .. frames + 1
        PROVE  frame_memory'[k - 1].rip - 1 =
                 IF k = frames + 1 THEN pc + 1 ELSE ReturnAddresses[k]
    <3>1. k - 1 \in Slot
      BY <1>2, MachineAssumption DEF Slot
    <3>2. CASE k = frames + 1
      BY <1>2, <1>3, <1>4, <3>1, <3>2
    <3>3. CASE k # frames + 1
      <4>1. k \in 1 .. frames /\ k - 1 # frames
        BY <1>2, <3>3
      <4> QED BY <1>3, <3>1, <3>3, <4>1 DEF ReturnAddresses
    <3> QED BY <3>2, <3>3
  <2> QED BY <2>1, <2>2
<1>7. ReturnAddresses' = Append(ReturnAddresses, pc + 1)
  BY <1>2, <1>5, <1>6
<1>8. live /\ live' /\ pc' \in Size
  BY <1>1 DEF Executing, Call, live, IInv, TypeOK
<1>9. Len(ReturnAddresses) < FRAME_COUNT
  BY <1>2, <1>5, MachineAssumption
<1> QED BY <1>7, <1>8, <1>9 DEF CallPromise!Invoke, live

\* A return goes to the last address and takes it off.
LEMMA ReturnStep ==
  ASSUME IInv, IInv', Return
  PROVE  CallPromise!Resume
<1>1. Executing
  BY DEF Return, Fetch
<1>2. /\ frames \in 1 .. FRAME_COUNT
      /\ frames' = frames - 1
  BY MachineAssumption DEF IInv, TypeOK, Return
<1>3. \A s \in Slot : frame_memory'[s].rip =
                        IF s = frames - 1 THEN 0 ELSE frame_memory[s].rip
  BY DEF Return, FramesAfterReturn, IInv, TypeOK, NoFrame
<1>4. ReturnAddresses \in Seq(Size) /\ Len(ReturnAddresses) = frames
  BY ReturnAddressesType
<1>5. pc' = ReturnAddresses[Len(ReturnAddresses)]
  <2>1. pc' = frame_memory[frames - 1].rip - 1
    BY DEF Return
  <2>2. frames \in 1 .. frames
    BY <1>2, MachineAssumption
  <2>3. ReturnAddresses[frames] = frame_memory[frames - 1].rip - 1
    BY <2>2 DEF ReturnAddresses
  <2> QED BY <1>4, <2>1, <2>3
<1>6. ReturnAddresses' = [k \in 1 .. frames - 1 |-> ReturnAddresses[k]]
  <2>1. ReturnAddresses' = [k \in 1 .. frames - 1 |-> frame_memory'[k - 1].rip - 1]
    BY <1>2 DEF ReturnAddresses
  <2>2. ASSUME NEW k \in 1 .. frames - 1
        PROVE  frame_memory'[k - 1].rip - 1 = ReturnAddresses[k]
    <3>1. k - 1 \in Slot /\ k - 1 # frames - 1 /\ k \in 1 .. frames
      BY <1>2, MachineAssumption DEF Slot
    <3> QED BY <1>3, <3>1 DEF ReturnAddresses
  <2> QED BY <2>1, <2>2
<1>7. ReturnAddresses' = SubSeq(ReturnAddresses, 1, Len(ReturnAddresses) - 1)
  BY <1>2, <1>4, <1>6
<1>8. live /\ live'
  BY <1>1 DEF Executing, Return, live
<1>9. ReturnAddresses # <<>>
  BY <1>2, <1>4
<1> QED BY <1>5, <1>7, <1>8, <1>9 DEF CallPromise!Resume, live

\* Every step of the machine is a step of the promise or leaves it alone.
LEMMA StepSimulation ==
  ASSUME IInv, IInv', [Next]_vars
  PROVE  [CallPromise!Next]_CallPromise!callVars
<1>1. CASE Call
  BY <1>1, CallStep DEF CallPromise!Next
<1>2. CASE Return
  BY <1>2, ReturnStep DEF CallPromise!Next
<1>3. CASE Record
  <2>1. Executing /\ UNCHANGED <<status, frames>> /\ frames \in Slot
    BY <1>3, MachineAssumption
       DEF Record, Fetch, Defined, IInv, TypeOK, Slot
  <2>2. \A s \in 0 .. frames - 1 : frame_memory'[s].rip = frame_memory[s].rip
    BY <1>3, <2>1, MachineAssumption DEF Record, RecordSlot, IInv, TypeOK, Slot
  <2>3. ReturnAddresses' = ReturnAddresses
    BY <2>1, <2>2, ReturnsUnchanged
  <2>4. pc' \in Size
    BY DEF IInv, TypeOK
  <2> QED BY <2>1, <2>3, <2>4
          DEF CallPromise!Next, CallPromise!Proceed, Executing
<1>4. CASE Push \/ Pop \/ Load \/ LoadFloat \/ Save \/ Write \/ ComputeWord
           \/ ComputeFloat \/ CastFloat \/ Idle \/ RootReturn \/ Halt \/ Jump
           \/ Abort \/ Fault
  <2>1. live /\ UNCHANGED calls
    BY <1>4 DEF Push, Pop, Load, LoadFloat, Save, Write, ComputeWord,
                ComputeFloat, CastFloat, Idle, RootReturn, Halt, Jump, Abort,
                Fault, Fetch, Executing, calls, live
  <2>2. CASE live'
    BY <2>1, <2>2, ProceedStep DEF CallPromise!Next
  <2>3. CASE ~live'
    BY <2>1, <2>3, StopStep DEF CallPromise!Next
  <2> QED BY <2>2, <2>3
<1>5. CASE Finished \/ UNCHANGED vars
  <2>1. UNCHANGED <<pc, status, frames, frame_memory>>
    BY <1>5 DEF Finished, vars, calls
  <2>2. ReturnAddresses' = ReturnAddresses
    BY <2>1, ReturnsUnchanged
  <2> QED BY <2>1, <2>2 DEF CallPromise!callVars
<1> QED BY <1>1, <1>2, <1>3, <1>4, <1>5 DEF Next, Step

\* A machine that has not started has nothing to return to.
LEMMA InitSimulation ==
  ASSUME Init
  PROVE  CallPromise!Init
<1>1. frames = 0 /\ pc = 0 /\ status = "running"
  BY DEF Init, InitMachine
<1>2. ReturnAddresses = <<>>
  BY <1>1 DEF ReturnAddresses
<1> QED BY <1>1, <1>2 DEF CallPromise!Init

\* The machine implements the call stack.
THEOREM CallStackImplemented == Spec => ImplementsCallStack
<1>1. Init => CallPromise!Init
  BY InitSimulation
<1>2. IInv /\ IInv' /\ [Next]_vars => [CallPromise!Next]_CallPromise!callVars
  BY StepSimulation
<1>3. Spec => CallPromise!Spec
  BY <1>1, <1>2, InductiveInvariant, PTL DEF Spec, CallPromise!Spec
<1> QED BY <1>3 DEF ImplementsCallStack

=============================================================================
