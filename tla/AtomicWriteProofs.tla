------------------------- MODULE AtomicWriteProofs -------------------------
(* atomic_write_text gives an atomic register to writers that exclude each *)
(* other, for any number of writers and readers, killed anywhere.          *)
EXTENDS AtomicWrite, TLAPS

\* Every file linked or open was made; writes bound the files made.
TypeInv ==
    /\ AwTypeOK
    /\ awName # AwNil => awName <= awFiles
    /\ awTmp # AwNil => awTmp <= awFiles
    /\ \A p \in Procs : awOpen[p] # AwNil => awOpen[p] <= awFiles
    /\ awWrites <= MaxWrites /\ awFiles <= awWrites
    /\ \A p \in Procs :
          /\ awPc[p] = "create" => awFiles < awWrites
          /\ awPc[p] = "write" => awOpen[p] # AwNil
          /\ awPc[p] \in Writing => awText[p] \in Texts
    /\ \A p, q \in Procs : awPc[p] \in Writing /\ awPc[q] \in Writing => p = q

\* The published file, the temporary one, and those being read.
FileInv ==
    /\ awName # AwNil => awContent[awName] \in Texts
    /\ \A p \in Procs :
          /\ awPc[p] = "write" => awOpen[p] = awTmp /\ awContent[awTmp] = Torn
          /\ awPc[p] = "replace" => awTmp # AwNil /\ awContent[awTmp] = awText[p]
          /\ awPc[p] = "read" => /\ awOpen[p] \in Files /\ awOpen[p] # awTmp
                               /\ awText[p] \in Texts
                               /\ awContent[awOpen[p]] = awText[p]

RegisterInv == TypeInv /\ FileInv

\* No file is linked, none is open.
LEMMA RegisterInit == AwInit => RegisterInv
  BY WriteConstants DEF AwInit, RegisterInv, TypeInv, AwTypeOK, FileInv, Writing, Files

\* Every step keeps the shapes, and one writer at a time.
LEMMA TypeStep ==
  ASSUME TypeInv, Serial, [AwNext]_awVars
  PROVE  TypeInv'
<1> USE WriteConstants DEF TypeInv, AwTypeOK, Writing, Files, Goto, End
<1>1. ASSUME NEW p \in Procs, Write(p) PROVE TypeInv'
  BY <1>1 DEF Write
<1>2. ASSUME NEW p \in Procs, Create(p) PROVE TypeInv'
  BY <1>2 DEF Create
<1>3. ASSUME NEW p \in Procs, WriteOut(p) PROVE TypeInv'
  BY <1>3 DEF WriteOut
<1>4. ASSUME NEW p \in Procs, Replace(p) PROVE TypeInv'
  BY <1>4 DEF Replace
<1>5. ASSUME NEW p \in Procs, Open(p) PROVE TypeInv'
  BY <1>5 DEF Open
<1>6. ASSUME NEW p \in Procs, Read(p) PROVE TypeInv'
  BY <1>6 DEF Read
<1>7. ASSUME NEW p \in Procs, Stop(p) PROVE TypeInv'
  BY <1>7 DEF Stop
<1>8. CASE UNCHANGED awVars
  BY <1>8 DEF awVars
<1> QED
  BY <1>1, <1>2, <1>3, <1>4, <1>5, <1>6, <1>7, <1>8 DEF AwNext

\* Every step keeps what the files hold.
LEMMA FileStep ==
  ASSUME TypeInv, FileInv, Serial, [AwNext]_awVars
  PROVE  FileInv'
<1> USE WriteConstants
    DEF TypeInv, FileInv, AwTypeOK, Writing, Files, Goto, End
<1>1. ASSUME NEW p \in Procs, Write(p) PROVE FileInv'
  BY <1>1 DEF Write
<1>2. ASSUME NEW p \in Procs, Create(p) PROVE FileInv'
  BY <1>2 DEF Create
<1>3. ASSUME NEW p \in Procs, WriteOut(p) PROVE FileInv'
  BY <1>3 DEF WriteOut
<1>4. ASSUME NEW p \in Procs, Replace(p) PROVE FileInv'
  BY <1>4 DEF Replace
<1>5. ASSUME NEW p \in Procs, Open(p) PROVE FileInv'
  BY <1>5 DEF Open
<1>6. ASSUME NEW p \in Procs, Read(p) PROVE FileInv'
  BY <1>6 DEF Read
<1>7. ASSUME NEW p \in Procs, Stop(p) PROVE FileInv'
  BY <1>7 DEF Stop
<1>8. CASE UNCHANGED awVars
  BY <1>8 DEF awVars
<1> QED
  BY <1>1, <1>2, <1>3, <1>4, <1>5, <1>6, <1>7, <1>8 DEF AwNext

\* Both hold in every state, if writers exclude each other.
THEOREM RegisterInvariant == ASSUME Serial PROVE AwSpec => []RegisterInv
<1>1. RegisterInv /\ [AwNext]_awVars => RegisterInv'
  BY TypeStep, FileStep DEF RegisterInv
<1> QED
  BY <1>1, RegisterInit, PTL DEF AwSpec

\* A reader gets one text, whatever is written while it reads.
THEOREM ReadsOneTextAlways == ASSUME Serial PROVE AwSpec => []ReadsOneText
<1>1. RegisterInv => ReadsOneText
  BY DEF RegisterInv, FileInv, ReadsOneText
<1> QED
  BY <1>1, RegisterInvariant, PTL

\* A replace is a write of the register, an open its read, and every other
\* step a stutter.
LEMMA RegisterStep ==
  ASSUME RegisterInv, RegisterInv', Serial, [AwNext]_awVars
  PROVE  [Register!Next]_(IF awName = AwNil THEN AwNil ELSE awContent[awName])
<1>1. CASE awName' = AwNil
  <2>1. awName = AwNil
    BY <1>1, WriteConstants
    DEF AwNext, awVars, Write, Create, WriteOut, Replace, Open, Read, Stop,
        RegisterInv, TypeInv, AwTypeOK, Files
  <2> QED
    BY <1>1, <2>1
<1>2. CASE awName' # AwNil
  BY <1>2 DEF RegisterInv, FileInv, Register!Next
<1> QED
  BY <1>1, <1>2

\* The file of exclusive writers is a register that is written as a whole.
THEOREM RegisterImplemented == ASSUME Serial PROVE AwSpec => ImplementsRegister
<1>1. AwInit => Register!Init
  BY DEF AwInit, Register!Init
<1>2. RegisterInv /\ RegisterInv' /\ [AwNext]_awVars
        => [Register!Next]_(IF awName = AwNil THEN AwNil ELSE awContent[awName])
  BY RegisterStep
<1> QED
  BY <1>1, <1>2, RegisterInvariant, PTL
  DEF AwSpec, ImplementsRegister, Register!Spec
=============================================================================
