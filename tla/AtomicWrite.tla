----------------------------- MODULE AtomicWrite -----------------------------
(***************************************************************************)
(* One state file of a case, such as case.json or integrity.json, which    *)
(* commands write with atomic_write_text and read with read_text           *)
(* (scripts/paired_vm_case.py): the text goes into NAME.tmp, the same name *)
(* for every command, and os.replace moves that over NAME.                 *)
(*                                                                         *)
(* A name is a link to a file; a command that has a file open keeps it when*)
(* its name goes to another.  Texts differ in length, so a text written    *)
(* over another may leave a tail of it: that, and a text not all written,  *)
(* is Torn.  A file can be written to whether or not others have it open;  *)
(* moving a name off or onto a file others have open may be refused        *)
(* (Windows) or not (POSIX).                                               *)
(***************************************************************************)
EXTENDS Naturals

CONSTANTS
    Procs,      \* commands that can run at one time
    Texts,      \* what they write
    Serial,     \* do the writers exclude each other, as under a case lock?
    MaxWrites,  \* bound: writes started
    MaxReads,   \* bound: reads started
    Torn,       \* the content of a file that holds no one text
    AwNil        \* no file, no text

ASSUME WriteConstants ==
    /\ Serial \in BOOLEAN
    /\ MaxWrites \in Nat
    /\ MaxReads \in Nat
    /\ Torn \notin Texts \cup {AwNil}
    /\ AwNil \notin Texts \cup Nat

VARIABLES
    awName,      \* the file NAME links to
    awTmp,       \* the file NAME.tmp links to
    awContent,   \* of every file
    awFiles,     \* files created
    awPc,        \* per process: "idle", or what it does next
    awOpen,      \* per process: the file it has open, or has written
    awText,      \* per process: the text it writes; what a reader found it opened
    awWrites,    \* writes started
    awReads      \* reads started

awVars == <<awName, awTmp, awContent, awFiles, awPc, awOpen, awText, awWrites, awReads>>

Files   == 1 .. MaxWrites
Writing == {"create", "write", "replace"}

AwInit ==
    /\ awName = AwNil /\ awTmp = AwNil
    /\ awContent = [f \in Files |-> Torn]
    /\ awFiles = 0
    /\ awPc = [p \in Procs |-> "idle"]
    /\ awOpen = [p \in Procs |-> AwNil]
    /\ awText = [p \in Procs |-> AwNil]
    /\ awWrites = 0 /\ awReads = 0

Goto(p, step) == awPc' = [awPc EXCEPT ![p] = step]
End(p) == Goto(p, "idle") /\ awOpen' = [awOpen EXCEPT ![p] = AwNil]
HeldElsewhere(p, f) == \E q \in Procs \ {p} : awOpen[q] = f

-----------------------------------------------------------------------------
Write(p) ==
    /\ awPc[p] = "idle"
    /\ Serial => \A q \in Procs : awPc[q] \notin Writing
    /\ awWrites < MaxWrites
    /\ awWrites' = awWrites + 1
    /\ \E t \in Texts : awText' = [awText EXCEPT ![p] = t]
    /\ Goto(p, "create")
    /\ UNCHANGED <<awName, awTmp, awContent, awFiles, awOpen, awReads>>

\* Faulty: NAME itself is opened for writing.
CreateInPlace(p) ==
    /\ awPc[p] = "create"
    /\ \/ awName = AwNil /\ awFiles' = awFiles + 1 /\ awName' = awFiles'
       \/ awName # AwNil /\ UNCHANGED <<awName, awFiles>>
    /\ awOpen' = [awOpen EXCEPT ![p] = awName']
    /\ awContent' = [awContent EXCEPT ![awName'] = Torn]
    /\ Goto(p, "write")
    /\ UNCHANGED <<awTmp, awText, awWrites, awReads>>

\* open(NAME.tmp, "w"): made, or emptied if it is there
Create(p) ==
    /\ awPc[p] = "create"
    /\ \/ /\ awTmp = AwNil
          /\ awFiles' = awFiles + 1
          /\ awTmp' = awFiles'
       \/ /\ awTmp # AwNil
          /\ UNCHANGED <<awTmp, awFiles>>
    /\ awOpen' = [awOpen EXCEPT ![p] = awTmp']
    /\ awContent' = [awContent EXCEPT ![awTmp'] = Torn]
    /\ Goto(p, "write")
    /\ UNCHANGED <<awName, awText, awWrites, awReads>>

\* The text is written and the file closed; where another command wrote to
\* the same file, a tail of its text may be left.
WriteOut(p) ==
    /\ awPc[p] = "write"
    /\ \/ awContent' = [awContent EXCEPT ![awOpen[p]] = awText[p]]
       \/ /\ awContent[awOpen[p]] \in Texts
          /\ awContent' = [awContent EXCEPT ![awOpen[p]] = Torn]
    /\ Goto(p, "replace")
    /\ awOpen' = [awOpen EXCEPT ![p] = AwNil]
    /\ UNCHANGED <<awName, awTmp, awFiles, awText, awWrites, awReads>>

\* Faulty: the text is copied over, as shutil.copyfile does.
ReplaceContent(p) ==
    /\ awPc[p] = "replace"
    /\ awTmp # AwNil
    /\ awName' = IF awName = AwNil THEN awTmp ELSE awName
    /\ awContent' = [awContent EXCEPT ![awName'] = awContent[awTmp]]
    /\ awTmp' = AwNil
    /\ End(p)
    /\ UNCHANGED <<awFiles, awText, awWrites, awReads>>

\* Faulty: NAME is linked to the temporary file, whose name stays.
ReplaceLinked(p) ==
    /\ awPc[p] = "replace"
    /\ awTmp # AwNil
    /\ awName' = awTmp
    /\ End(p)
    /\ UNCHANGED <<awTmp, awContent, awFiles, awText, awWrites, awReads>>

\* os.replace(NAME.tmp, NAME)
Replace(p) ==
    /\ awPc[p] = "replace"
    /\ \/ /\ awTmp # AwNil
          /\ awName' = awTmp
          /\ awTmp' = AwNil
       \/ /\ awTmp = AwNil \/ HeldElsewhere(p, awTmp) \/ HeldElsewhere(p, awName)
          /\ UNCHANGED <<awName, awTmp>>
    /\ End(p)
    /\ UNCHANGED <<awContent, awFiles, awText, awWrites, awReads>>

\* NAME.read_text(): it is opened, and read to its end later.
Open(p) ==
    /\ awPc[p] = "idle"
    /\ awName # AwNil
    /\ awReads < MaxReads
    /\ awReads' = awReads + 1
    /\ awOpen' = [awOpen EXCEPT ![p] = awName]
    /\ awText' = [awText EXCEPT ![p] = awContent[awName]]
    /\ Goto(p, "read")
    /\ UNCHANGED <<awName, awTmp, awContent, awFiles, awWrites>>

\* What it reads is content[open[p]].
Read(p) ==
    /\ awPc[p] = "read"
    /\ End(p)
    /\ UNCHANGED <<awName, awTmp, awContent, awFiles, awText, awWrites, awReads>>

\* Killed, or out of space
Stop(p) ==
    /\ awPc[p] \in Writing
    /\ End(p)
    /\ UNCHANGED <<awName, awTmp, awContent, awFiles, awText, awWrites, awReads>>

AwNext == \E p \in Procs : \/ Write(p) \/ Create(p) \/ WriteOut(p) \/ Replace(p)
                         \/ Open(p) \/ Read(p) \/ Stop(p)

AwSpec == AwInit /\ [][AwNext]_awVars

-----------------------------------------------------------------------------
\* Shapes; and the file that is published never has the temporary name too.
AwTypeOK ==
    /\ awName # AwNil => awName # awTmp
    /\ awName \in Files \cup {AwNil}
    /\ awTmp \in Files \cup {AwNil}
    /\ awContent \in [Files -> Texts \cup {Torn}]
    /\ awFiles \in 0 .. MaxWrites
    /\ awPc \in [Procs -> Writing \cup {"idle", "read"}]
    /\ awOpen \in [Procs -> Files \cup {AwNil}]
    /\ awText \in [Procs -> Texts \cup {Torn, AwNil}]
    /\ awWrites \in Nat /\ awReads \in Nat

\* Writers that exclude each other implement a register, wherever they are
\* killed and whatever temporary file an earlier one left behind.
Register == INSTANCE AtomicRegister WITH
    None <- AwNil, value <- IF awName = AwNil THEN AwNil ELSE awContent[awName]
ImplementsRegister == Register!Spec

\* What a reader reads is, to its last byte, the one text that the file held
\* when the reader opened it, though the file is replaced while it reads.
ReadsOneText ==
    \A p \in Procs : awPc[p] = "read" => /\ awText[p] \in Texts
                                       /\ awContent[awOpen[p]] = awText[p]

\* paired-vm-workflow.md:17 "writes state atomically": a state file holds all
\* of one text.
HoldsOneText == awName # AwNil => awContent[awName] \in Texts
=============================================================================
