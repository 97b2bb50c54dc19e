------------------------ MODULE CredentialFileProofs ------------------------
(***************************************************************************)
(* When saves do not overlap, the credentials file is replaced atomically: *)
(* for any versions and sizes, CredentialFile implements AtomicFile.       *)
(***************************************************************************)
EXTENDS CredentialFile, TLAPS

OneWriter == \A v, w \in Writers : v = w

\* What a writer has done so far is in the temporary file and nowhere else.
WriterOK(w) ==
    /\ pc[w] = "idle" <=> data[w] = None
    /\ fd[w] # 0 => pc[w] = "write"
    /\ pc[w] = "write" => fd[w] = tmp /\ tmp # 0 /\ blocks[tmp] = <<>>
    /\ pc[w] \in {"chmod", "rename"} => tmp # 0 /\ blocks[tmp] = Whole(data[w])

\* The file under the final name is complete, and not the temporary one.
TargetOK ==
    target # 0 => /\ target # tmp
                  /\ \E d \in Data : blocks[target] = Whole(d)

SerialInv ==
    /\ OneWriter
    /\ TypeOK
    /\ TargetOK
    /\ \A w \in Writers : WriterOK(w)

USE FileAssumption

-----------------------------------------------------------------------------

\* A complete file parses, to the version it was written from.
LEMMA ParseWhole ==
    ASSUME NEW d \in Data
    PROVE  Parse(Whole(d)) = d /\ Whole(d) \in Seq(Data)
BY DEF Parse, Whole

\* A write to an empty file makes it complete.
LEMMA OverwriteEmpty ==
    ASSUME NEW d \in Data
    PROVE  Overwrite(<<>>, d) = Whole(d)
BY DEF Overwrite, Whole

\* The initial state satisfies the invariant.
LEMMA SerialInit == OneWriter /\ Init => SerialInv
BY DEF Init, SerialInv, TypeOK, TargetOK, WriterOK, Pcs

\* Every step preserves it.
LEMMA SerialStep == SerialInv /\ [Next]_vars => SerialInv'
<1> SUFFICES ASSUME SerialInv, [Next]_vars
             PROVE  SerialInv'
    OBVIOUS
<1> USE DEF SerialInv, OneWriter, TypeOK, TargetOK, WriterOK, Pcs
<1>1. CASE UNCHANGED vars
    BY <1>1 DEF vars, Whole
<1>2. ASSUME NEW w \in Writers, NEW d \in Data, save(w, d)
      PROVE  SerialInv'
    BY <1>2 DEF save
<1>3. ASSUME NEW w \in Writers, Open(w)
      PROVE  SerialInv'
    <2>1. PICK i \in Inodes :
              /\ i # target
              /\ tmp' = i
              /\ fd' = [fd EXCEPT ![w] = i]
              /\ blocks' = [blocks EXCEPT ![i] = <<>>]
        BY <1>3 DEF Open, Unused, Inodes
    <2>2. <<>> \in Seq(Data) /\ i # 0
        BY DEF Inodes
    <2>3. pc' = [pc EXCEPT ![w] = "write"] /\ UNCHANGED <<target, data>>
        BY <1>3 DEF Open
    <2>4. TypeOK'
        BY <2>1, <2>2, <2>3
    <2>5. TargetOK'
        BY <2>1, <2>3
    <2>6. \A v \in Writers : WriterOK(v)'
        BY <1>3, <2>1, <2>2, <2>3 DEF Open
    <2>7. QED
        BY <2>4, <2>5, <2>6
<1>4. ASSUME NEW w \in Writers, Write(w)
      PROVE  SerialInv'
    <2>1. data[w] \in Data
        BY <1>4 DEF Write
    <2>2. blocks' = [blocks EXCEPT ![tmp] = Whole(data[w])]
        BY <1>4, <2>1, OverwriteEmpty DEF Write
    <2>3. Whole(data[w]) \in Seq(Data)
        BY <2>1, ParseWhole
    <2>4. QED
        BY <1>4, <2>1, <2>2, <2>3 DEF Write
<1>5. ASSUME NEW w \in Writers, Chmod(w)
      PROVE  SerialInv'
    BY <1>5 DEF Chmod, Ends
<1>6. ASSUME NEW w \in Writers, Rename(w)
      PROVE  SerialInv'
    BY <1>6 DEF Rename, Ends
<1>7. ASSUME NEW w \in Writers, SaveFails(w)
      PROVE  SerialInv'
    BY <1>7 DEF SaveFails, Ends
<1>8. CASE delete
    BY <1>8 DEF delete
<1>9. CASE Crash
    BY <1>9 DEF Crash
<1>10. QED
    BY <1>1, <1>2, <1>3, <1>4, <1>5, <1>6, <1>7, <1>8, <1>9 DEF Next

\* What a reader finds.
LEMMA LoadWhole ==
    ASSUME SerialInv
    PROVE  /\ target = 0 => load = None
           /\ target # 0 => load \in Data
BY ParseWhole DEF SerialInv, TargetOK, load

\* Loadable, for saves that do not overlap: whatever the versions and their
\* sizes, a crash at any moment leaves a file that can be loaded or none.
THEOREM SerialSavesAreLoadable == OneWriter /\ Spec => []Loadable
<1>1. SerialInv => Loadable
    BY LoadWhole DEF Loadable
<1>2. QED
    BY <1>1, SerialInit, SerialStep, PTL DEF Spec

\* A step of the implementation is a step of the abstract file or leaves it
\* unchanged.
LEMMA StepSimulation ==
    SerialInv /\ [Next]_vars => [Abstract!Next]_(Abstract!vars)
<1> SUFFICES ASSUME SerialInv, [Next]_vars
             PROVE  [Abstract!Next]_(Abstract!vars)
    OBVIOUS
<1> USE DEF SerialInv, OneWriter, TypeOK, WriterOK, Pcs
<1>1. CASE UNCHANGED vars
    BY <1>1 DEF vars, Abstract!vars, load
<1>2. ASSUME NEW w \in Writers, NEW d \in Data, save(w, d)
      PROVE  Abstract!Next
    <2>1. UNCHANGED load
        BY <1>2 DEF save, load
    <2>2. Abstract!Begin(w, d)
        BY <1>2, <2>1 DEF save, Abstract!Begin
    <2>3. QED
        BY <2>2 DEF Abstract!Next
<1>3. ASSUME NEW w \in Writers, Open(w)
      PROVE  UNCHANGED Abstract!vars
    <2>1. PICK i \in Inodes : i # target /\ blocks' = [blocks EXCEPT ![i] = <<>>]
        BY <1>3 DEF Open, Unused, Inodes, TargetOK
    <2>2. UNCHANGED load
        BY <1>3, <2>1 DEF Open, load
    <2>3. QED
        BY <1>3, <2>2 DEF Open, Abstract!vars
<1>4. ASSUME NEW w \in Writers, Write(w)
      PROVE  UNCHANGED Abstract!vars
    <2>1. fd[w] # target
        BY <1>4 DEF Write, TargetOK
    <2>2. UNCHANGED load
        BY <1>4, <2>1 DEF Write, load
    <2>3. QED
        BY <1>4, <2>2 DEF Write, Abstract!vars
<1>5. ASSUME NEW w \in Writers, Chmod(w)
      PROVE  UNCHANGED Abstract!vars
    BY <1>5 DEF Chmod, Abstract!vars, load
<1>6. ASSUME NEW w \in Writers, Rename(w)
      PROVE  Abstract!Next
    <2>1. data[w] \in Data /\ data[w] # None
        BY <1>6 DEF Rename
    <2>2. target' # 0 /\ blocks'[target'] = Whole(data[w])
        BY <1>6 DEF Rename
    <2>3. load' = data[w]
        BY <2>1, <2>2, ParseWhole DEF load
    <2>4. Abstract!Commit(w)
        BY <1>6, <2>1, <2>3 DEF Rename, Ends, Abstract!Commit
    <2>5. QED
        BY <2>4 DEF Abstract!Next
<1>7. ASSUME NEW w \in Writers, SaveFails(w)
      PROVE  Abstract!Next
    <2>1. UNCHANGED load
        BY <1>7 DEF SaveFails, load
    <2>2. Abstract!Fail(w)
        BY <1>7, <2>1 DEF SaveFails, Ends, Abstract!Fail
    <2>3. QED
        BY <2>2 DEF Abstract!Next
<1>8. CASE delete
    <2>1. load' = None
        BY <1>8 DEF delete, load
    <2>2. QED
        BY <1>8, <2>1 DEF delete, Abstract!Next, Abstract!Delete
<1>9. CASE Crash
    <2>1. UNCHANGED load
        BY <1>9 DEF Crash, load
    <2>2. QED
        BY <1>9, <2>1 DEF Crash, Abstract!Next, Abstract!Crash, Abstract!Idle
<1>10. QED
    BY <1>1, <1>2, <1>3, <1>4, <1>5, <1>6, <1>7, <1>8, <1>9 DEF Next

\* ImplementsAtomicFile, for saves that do not overlap: open, write, chmod and
\* rename, with failures and crashes between them, are one atomic replacement.
THEOREM SerialSavesAreAtomic == OneWriter /\ Spec => ImplementsAtomicFile
<1>1. Init => Abstract!Init
    BY DEF Init, Abstract!Init, Abstract!Idle, load
<1>2. QED
    BY <1>1, SerialInit, SerialStep, StepSimulation, PTL
       DEF Spec, ImplementsAtomicFile, Abstract!Spec

=============================================================================
