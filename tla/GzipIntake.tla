----------------------------- MODULE GzipIntake -----------------------------
(***************************************************************************)
(* scripts/intake_gzip.py: a gzip image becomes a verified raw working     *)
(* copy.  The raw bytes go to NAME.partial; when the compressed hash, the  *)
(* raw hash of a second read and the state of the source agree, that file  *)
(* is published as NAME.  NAME.status.json, made exclusively and replaced  *)
(* through NAME.status.json.tmp, tells how far the run is.                 *)
(*                                                                         *)
(* A file's content is Raw (what the expected gzip holds) or Bad.  Runs    *)
(* can be killed, writes can fail, another program can change the source   *)
(* or make a file of that name.                                            *)
(***************************************************************************)
EXTENDS Naturals

CONSTANTS
    GzProcs,      \* runs of the program
    GzMaxRuns,    \* bound: runs started
    GzMaxEvents,  \* bound: faults, kills and changes by others
    Raw,          \* the bytes the expected gzip decompresses to
    Bad,          \* any other bytes
    Theirs,       \* a file that another program made
    Absent        \* no such file

GzStages == {"starting", "decompressing", "independent-output-rehash",
             "complete", "failed", "completed-status-error"}

ASSUME GzConstants ==
    /\ GzMaxRuns \in Nat /\ GzMaxEvents \in Nat
    /\ Raw # Bad /\ Theirs \notin {Raw, Bad}
    /\ Absent \notin {Raw, Bad, Theirs} \cup GzStages

VARIABLES
    gzSource,   \* what the source decompresses to: Raw if its hash is the expected
    gzPartial,  \* content of NAME.partial
    gzDst,      \* content of NAME
    gzStatus,   \* "stage" of NAME.status.json
    gzTmp,      \* is there a NAME.status.json.tmp?
    gzPc,       \* per run: what it does next
    gzRead,     \* per run: what it streamed from the source
    gzRuns,     \* runs started
    gzEvents    \* faults and changes so far

gzFiles == <<gzSource, gzPartial, gzDst, gzStatus, gzTmp>>
gzVars  == <<gzFiles, gzPc, gzRead, gzRuns, gzEvents>>

GzSteps  == {"idle", "reserve", "open", "decompress", "hash", "rehash",
             "publish", "unlink", "complete", "fail", "failLate"}

GzInit ==
    /\ gzSource \in {Raw, Bad}
    /\ gzPartial = Absent /\ gzDst = Absent /\ gzStatus = Absent
    /\ gzTmp = FALSE
    /\ gzPc = [p \in GzProcs |-> "idle"]
    /\ gzRead = [p \in GzProcs |-> Absent]
    /\ gzRuns = 0 /\ gzEvents = 0

GzGo(p, step) == gzPc' = [gzPc EXCEPT ![p] = step]
GzEvent == gzEvents < GzMaxEvents /\ gzEvents' = gzEvents + 1

\* Progress.save: NAME.status.json.tmp is made exclusively and moved over
\* the status.  A write that fails leaves it there, and every later save
\* then fails.
GzSave(p, stage, step) ==
    /\ ~gzTmp
    /\ gzStatus' = stage
    /\ GzGo(p, step)
    /\ UNCHANGED <<gzTmp, gzEvents>>
GzSaveFails(p, step) ==
    /\ \/ gzTmp /\ UNCHANGED <<gzTmp, gzEvents>>
       \/ ~gzTmp /\ GzEvent /\ gzTmp' = TRUE
    /\ GzGo(p, step)
    /\ UNCHANGED gzStatus
-----------------------------------------------------------------------------
\* validate_manifest: any file of an earlier run refuses this one.
GzValidate(p) ==
    /\ gzPc[p] = "idle" /\ gzRuns < GzMaxRuns
    /\ gzPartial = Absent /\ gzDst = Absent /\ gzStatus = Absent /\ ~gzTmp
    /\ gzRuns' = gzRuns + 1
    /\ GzGo(p, "reserve")
    /\ UNCHANGED <<gzFiles, gzRead, gzEvents>>

\* Progress.__init__: the status name is made exclusively, or the run ends.
GzReserve(p) ==
    /\ gzPc[p] = "reserve"
    /\ \/ gzStatus = Absent /\ gzStatus' = "starting" /\ GzGo(p, "open")
       \/ gzStatus # Absent /\ UNCHANGED gzStatus /\ GzGo(p, "idle")
    /\ UNCHANGED <<gzSource, gzPartial, gzDst, gzTmp, gzRead, gzRuns, gzEvents>>

\* The source and a new partial file are opened.
GzOpen(p) ==
    /\ gzPc[p] = "open"
    /\ \/ /\ gzPartial = Absent
          /\ gzPartial' = Bad
          /\ \/ GzSave(p, "decompressing", "decompress")
             \/ GzSaveFails(p, "fail")
       \/ /\ gzPartial # Absent
          /\ GzGo(p, "fail")
          /\ UNCHANGED <<gzPartial, gzStatus, gzTmp, gzEvents>>
    /\ UNCHANGED <<gzSource, gzDst, gzRead, gzRuns>>

\* Chunks are hashed and written; the medium may keep other bytes.
GzDecompress(p) ==
    /\ gzPc[p] = "decompress"
    /\ gzRead' = [gzRead EXCEPT ![p] = gzSource]
    /\ \/ gzPartial' = gzSource /\ UNCHANGED gzEvents
       \/ GzEvent /\ gzPartial' = Bad
    /\ GzGo(p, "hash")
    /\ UNCHANGED <<gzSource, gzDst, gzStatus, gzTmp, gzRuns>>

\* Faulty: the compressed hash is not compared with the manifest's.
GzHashUnchecked(p) ==
    /\ gzPc[p] = "hash"
    /\ GzSave(p, "independent-output-rehash", "rehash")
    /\ UNCHANGED <<gzSource, gzPartial, gzDst, gzRead, gzRuns>>

\* The compressed hash must be the expected one; the partial file is synced.
GzHash(p) ==
    /\ gzPc[p] = "hash"
    /\ \/ /\ gzRead[p] = Raw
          /\ \/ GzSave(p, "independent-output-rehash", "rehash")
             \/ GzSaveFails(p, "fail")
       \/ /\ gzRead[p] # Raw
          /\ GzGo(p, "fail")
          /\ UNCHANGED <<gzStatus, gzTmp, gzEvents>>
    /\ UNCHANGED <<gzSource, gzPartial, gzDst, gzRead, gzRuns>>

\* The partial file, read again, must have the hash of what was streamed, and
\* the source must be what it was.
GzRehash(p) ==
    /\ gzPc[p] = "rehash"
    /\ GzGo(p, IF gzPartial = gzRead[p] /\ gzSource = gzRead[p]
               THEN "publish" ELSE "fail")
    /\ UNCHANGED <<gzFiles, gzRead, gzRuns, gzEvents>>

\* Faulty: the partial file is moved over whatever has the name.
GzPublishOver(p) ==
    /\ gzPc[p] = "publish"
    /\ gzDst' = gzPartial
    /\ GzGo(p, "unlink")
    /\ UNCHANGED <<gzSource, gzPartial, gzStatus, gzTmp, gzRead, gzRuns, gzEvents>>

\* publish: os.link is atomic and refuses a destination that exists.
GzPublish(p) ==
    /\ gzPc[p] = "publish"
    /\ \/ gzDst = Absent /\ gzDst' = gzPartial /\ GzGo(p, "unlink")
       \/ gzDst # Absent /\ UNCHANGED gzDst /\ GzGo(p, "fail")
    /\ UNCHANGED <<gzSource, gzPartial, gzStatus, gzTmp, gzRead, gzRuns, gzEvents>>

GzUnlink(p) ==
    /\ gzPc[p] = "unlink"
    /\ gzPartial' = Absent
    /\ GzGo(p, "complete")
    /\ UNCHANGED <<gzSource, gzDst, gzStatus, gzTmp, gzRead, gzRuns, gzEvents>>

GzComplete(p) ==
    /\ gzPc[p] = "complete"
    /\ \/ GzSave(p, "complete", "idle")
       \/ GzSaveFails(p, "failLate")
    /\ UNCHANGED <<gzSource, gzPartial, gzDst, gzRead, gzRuns>>

\* An exception, in any step from "open" on.
GzRaise(p) ==
    /\ gzPc[p] \in GzSteps \ {"idle", "reserve", "complete", "fail", "failLate"}
    /\ GzEvent
    /\ GzGo(p, "fail")
    /\ UNCHANGED <<gzFiles, gzRead, gzRuns>>

\* Faulty: a failure is reported as the stage the last save was for.
GzFailSilently(p) ==
    /\ gzPc[p] \in {"fail", "failLate"}
    /\ GzSave(p, "complete", "idle")
    /\ UNCHANGED <<gzSource, gzPartial, gzDst, gzRead, gzRuns>>

\* The except clause: the failure is saved, if that can be.
GzFail(p) ==
    /\ gzPc[p] \in {"fail", "failLate"}
    /\ \/ GzSave(p, IF gzPc[p] = "fail" THEN "failed" ELSE "completed-status-error", "idle")
       \/ GzSaveFails(p, "idle")
    /\ UNCHANGED <<gzSource, gzPartial, gzDst, gzRead, gzRuns>>

\* Killed, perhaps while it was saving its status
GzKill(p) ==
    /\ gzPc[p] # "idle"
    /\ GzEvent
    /\ gzTmp' \in {gzTmp, gzStatus # Absent}
    /\ GzGo(p, "idle")
    /\ UNCHANGED <<gzSource, gzPartial, gzDst, gzStatus, gzRead, gzRuns>>

GzStep(p) ==
    \/ GzValidate(p) \/ GzReserve(p) \/ GzOpen(p) \/ GzDecompress(p)
    \/ GzHash(p) \/ GzRehash(p) \/ GzPublish(p) \/ GzUnlink(p)
    \/ GzComplete(p) \/ GzRaise(p) \/ GzFail(p) \/ GzKill(p)

\* Another program changes the source, or makes one of the files.
GzOther ==
    /\ GzEvent
    /\ \/ gzSource' \in {Raw, Bad} \ {gzSource} /\ UNCHANGED <<gzDst, gzPartial>>
       \/ gzDst = Absent /\ gzDst' = Theirs /\ UNCHANGED <<gzSource, gzPartial>>
       \/ gzPartial = Absent /\ gzPartial' = Theirs /\ UNCHANGED <<gzSource, gzDst>>
    /\ UNCHANGED <<gzStatus, gzTmp, gzPc, gzRead, gzRuns>>

GzNext == (\E p \in GzProcs : GzStep(p)) \/ GzOther
GzSpec == GzInit /\ [][GzNext]_gzVars
-----------------------------------------------------------------------------
GzTypeOK ==
    /\ gzSource \in {Raw, Bad}
    /\ gzPartial \in {Raw, Bad, Theirs, Absent}
    /\ gzDst \in {Raw, Bad, Theirs, Absent}
    /\ gzStatus \in GzStages \cup {Absent}
    /\ gzTmp \in BOOLEAN
    /\ gzPc \in [GzProcs -> GzSteps]
    /\ gzRead \in [GzProcs -> {Raw, Bad, Absent}]
    /\ gzRuns \in 0 .. GzMaxRuns /\ gzEvents \in 0 .. GzMaxEvents

\* gzip-intake.md: the final file appears only after every check; whatever
\* fails, is killed or runs beside it, what the program publishes is the
\* expected raw image.
GzPublishedIsVerified == gzDst \in {Raw, Theirs, Absent}

\* gzip-intake.md: "Accept only stage: complete".  A status that says so
\* stands beside a destination that this program published.
GzCompleteIsPublished == gzStatus = "complete" => gzDst = Raw

\* A destination that is there is never replaced, not even one that appeared
\* after the manifest was validated.
GzKeepsDestination == [][gzDst # Absent => gzDst' = gzDst]_gzVars
=============================================================================
