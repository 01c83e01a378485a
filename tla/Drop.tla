-------------------------------- MODULE Drop --------------------------------
(***************************************************************************)
(* `meshmcp drop --receipts`: a sender streams files to a drop receiver,     *)
(* the receiver installs them and answers with one completion line, and    *)
(* the sender writes a durable receipt per file once it has believed that  *)
(* line; `--resume` skips what is receipted.  In content-addressed mode a  *)
(* garbage collector prunes the receiver's store meanwhile.                *)
(*                                                                         *)
(* A run of the sender is numbered; its number is its completion nonce.    *)
(* Each run opens a session of its own, and the receiver's half of it      *)
(* lives on after a sender that died.  A file travels as a body and a      *)
(* trailer carrying the hash; a content stands for its own hash.           *)
(***************************************************************************)
EXTENDS Integers, Sequences, FiniteSets, FiniteSetsExt

CONSTANTS
    Names,       \* the wire names of the files given to the sender
    Contents,    \* what a file may hold, all of one size
    CAS,         \* BOOLEAN: the receiver stores by content hash
    MaxFiles,    \* dropLimits.MaxFiles
    maxAge,      \* the collector's --max-age, 0 for none
    maxTotal,    \* the collector's --max-total-bytes in blobs, 0 for none
    MaxRuns,     \* bound: runs of the sender
    MaxTime,     \* bound: the receiver's clock
    Absent       \* no content, no blob, no receipt

VARIABLES
    disk,       \* [Names -> Contents]: the sender's local files
    receiptLog,   \* [Names -> Contents \cup {Absent}]: the receipt log, last line wins
    run,        \* the sender's current run
    pipe,       \* the io.Pipe between producer and session, and its marker
    frames,       \* [run -> frames the session has taken and not delivered]
    rcv,        \* [run -> the receiver's session of that run]
    store,      \* the receiver's directory: key -> [c, mtime] or Absent
    clock,        \* the receiver's clock
    gc,         \* the collector: its plan, and the blob it is about to remove
    installed   \* history: <<run, name, content>> ever installed

vars == <<disk, receiptLog, run, pipe, frames, rcv, store, clock, gc, installed>>
sndVars == <<disk, receiptLog, run, pipe>>
rcvVars == <<rcv, store, installed>>

Runs == 1..MaxRuns
None == [n |-> 0, st |-> "idle", toSend |-> {}, left |-> {}, open |-> Absent,
         pending |-> {}, verdict |-> "none"]
EmptyPipe == [frame |-> <<>>, waiting |-> FALSE, taken |-> <<>>, read |-> 0,
              written |-> 0, producerDone |-> FALSE, queued |-> FALSE]
NoSession == [st |-> "none", count |-> 0, names |-> {}, tmp |-> <<>>, nonce |-> 0, err |-> FALSE]
Key(f, c) == IF CAS THEN c ELSE f
Keys == IF CAS THEN Contents ELSE Names

Init ==
    /\ disk = [f \in Names |-> CHOOSE c \in Contents : TRUE]
    /\ receiptLog = [f \in Names |-> Absent]
    /\ run = None
    /\ pipe = EmptyPipe
    /\ frames = [n \in Runs |-> <<>>]
    /\ rcv = [n \in Runs |-> NoSession]
    /\ store = [k \in Keys |-> Absent]
    /\ clock = 0
    /\ gc = [st |-> "idle", plan |-> {}, at |-> 0, victim |-> Absent, freshened |-> FALSE]
    /\ installed = {}

-----------------------------------------------------------------------------
(* The sender: runReceiptedSend, its producer goroutine, the completion     *)
(* stream and the receipt log.                                              *)

\* Is the file covered by a receipt whose hash its local content still has?
\* (Mutated form: trusts the receipt without hashing the file again.)
receiptedAlready(f) == receiptLog[f] = disk[f]

\* runReceiptedSend: filter, then hand the remainder to runDropWithCompletion.
RunReceiptedSend(resume) ==
    LET todo == {f \in Names : ~(resume /\ receiptedAlready(f))} IN
    /\ run.st = "idle" /\ run.n < MaxRuns
    /\ run' = [None EXCEPT !.n = run.n + 1, !.st = IF todo = {} THEN "idle" ELSE "send",
                           !.toSend = todo, !.left = todo]
    /\ pipe' = EmptyPipe
    /\ IF todo = {} THEN UNCHANGED rcv
       ELSE rcv' = [rcv EXCEPT ![run.n + 1].st = "recv"]
    /\ UNCHANGED <<disk, receiptLog, frames, store, clock, gc, installed>>

\* Producer: sendOneFile, body then trailer.  The bytes are read from the file
\* now; the hash is of the bytes that were sent.
SendBody(f) ==
    /\ run.st = "send" /\ pipe.frame = <<>> /\ run.open = Absent /\ f \in run.left
    /\ pipe' = [pipe EXCEPT !.frame = <<"body", f, disk[f]>>, !.written = @ + 1]
    /\ run' = [run EXCEPT !.left = @ \ {f}, !.open = <<f, disk[f]>>]
    /\ UNCHANGED <<disk, receiptLog, frames, clock, gc>> /\ UNCHANGED rcvVars

SendTrailer ==
    /\ run.st = "send" /\ pipe.frame = <<>> /\ run.open # Absent
    /\ pipe' = [pipe EXCEPT !.frame = <<"trailer">> \o run.open, !.written = @ + 1]
    /\ run' = [run EXCEPT !.open = Absent, !.pending = @ \cup {run.open}]
    /\ UNCHANGED <<disk, receiptLog, frames, clock, gc>> /\ UNCHANGED rcvVars

\* Producer: writeDropCompletionEnd after the last file.
SendEnd ==
    /\ run.st = "send" /\ pipe.frame = <<>> /\ run.left = {} /\ run.open = Absent
    /\ pipe' = [pipe EXCEPT !.frame = <<"end", run.n>>, !.written = @ + 1]
    /\ run' = [run EXCEPT !.st = "ended"]
    /\ UNCHANGED <<disk, receiptLog, frames, clock, gc>> /\ UNCHANGED rcvVars

\* Producer: its last pipe write has returned; markProducerDone.
\* (Mutated form: leaves the announcement to the next Read.)
markProducerDone ==
    /\ run.st = "ended" /\ pipe.frame = <<>> /\ ~pipe.producerDone
    /\ pipe' = [pipe EXCEPT !.producerDone = TRUE,
                            !.queued = @ \/ (pipe.waiting /\ pipe.read >= pipe.written)]
    /\ UNCHANGED <<disk, receiptLog, run, frames, clock, gc>> /\ UNCHANGED rcvVars

\* dropCompletionStream.Read, called by the session's pump: it enters under the
\* lock, blocks in the pipe, and accounts for what it read under the lock again.
ReadEnter ==
    /\ run.st \in {"send", "ended"} /\ ~pipe.waiting
    /\ pipe' = [pipe EXCEPT !.waiting = TRUE,
                            !.queued = @ \/ (pipe.producerDone /\ pipe.read >= pipe.written)]
    /\ UNCHANGED <<disk, receiptLog, run, frames, clock, gc>> /\ UNCHANGED rcvVars

ReadFromPipe ==
    /\ run.st \in {"send", "ended"} /\ pipe.waiting /\ pipe.frame # <<>> /\ pipe.taken = <<>>
    /\ pipe' = [pipe EXCEPT !.frame = <<>>, !.taken = pipe.frame]
    /\ UNCHANGED <<disk, receiptLog, run, frames, clock, gc>> /\ UNCHANGED rcvVars

ReadReturn ==
    /\ run.st \in {"send", "ended"} /\ pipe.taken # <<>>
    /\ pipe' = [pipe EXCEPT !.waiting = FALSE, !.taken = <<>>, !.read = @ + 1]
    /\ frames' = [frames EXCEPT ![run.n] = Append(@, pipe.taken)]
    /\ UNCHANGED <<disk, receiptLog, run, clock, gc>> /\ UNCHANGED rcvVars

\* evaluateDropCompletion on the receiver's line, whose nonce Write has matched.
Evaluate(s) ==
    CASE s.err /\ s.count > 0 -> "partial"
      [] s.err /\ s.count = 0 -> "rejected"
      [] ~s.err /\ s.count = Cardinality(run.toSend) -> "confirmed"
      [] OTHER -> "mismatch"

\* dropCompletionStream.Write: a complete line arrives.  A line that is not
\* bound to this run's nonce is not trusted, unless it reports a rejection
\* that came before the end marker was read.
Completion ==
    LET s == rcv[run.n]
        trusted == (s.nonce = 0 /\ s.err) \/ s.nonce = run.n
        verdict == IF trusted THEN Evaluate(s) ELSE "unknown" IN
    /\ run.st \in {"send", "ended"} /\ s.st = "done"
    /\ run' = [run EXCEPT !.st = IF verdict = "confirmed" THEN "record" ELSE "idle",
                          !.verdict = verdict]
    /\ UNCHANGED <<disk, receiptLog, pipe, frames, clock, gc>> /\ UNCHANGED rcvVars

\* The completion timer, the attempt's context or the session's end comes
\* first: "installation may have occurred".
Unconfirmed ==
    /\ run.st \in {"send", "ended"}
    /\ run' = [run EXCEPT !.st = "idle", !.verdict = "unknown"]
    /\ UNCHANGED <<disk, receiptLog, pipe, frames, clock, gc>> /\ UNCHANGED rcvVars

\* receiptLog.record: one synced line per file of the confirmed transfer.
\* (Mutated form: hashes the file again instead of keeping the sent hash.)
Record(f, c) ==
    /\ run.st = "record" /\ <<f, c>> \in run.pending
    /\ receiptLog' = [receiptLog EXCEPT ![f] = c]
    /\ run' = [run EXCEPT !.pending = @ \ {<<f, c>>},
                          !.st = IF run.pending = {<<f, c>>} THEN "idle" ELSE @]
    /\ UNCHANGED <<disk, pipe, frames, clock, gc>> /\ UNCHANGED rcvVars

\* The sender process dies; its receipts stay, its session is never redialled.
SenderCrash ==
    /\ run.st # "idle"
    /\ run' = [run EXCEPT !.st = "idle", !.verdict = "none"]
    /\ UNCHANGED <<disk, receiptLog, pipe, frames, clock, gc>> /\ UNCHANGED rcvVars

\* Someone edits a local file.
Edit(f, c) ==
    /\ disk[f] # c
    /\ disk' = [disk EXCEPT ![f] = c]
    /\ UNCHANGED <<receiptLog, run, pipe, frames, clock, gc>> /\ UNCHANGED rcvVars

-----------------------------------------------------------------------------
(* The receiver: recvFilesWithCompletion, recvOne and the completion sink.  *)

\* dropCompletionSink.finish: the one result of the session.
Finish(s, nonce, err) == [s EXCEPT !.st = "done", !.nonce = nonce, !.err = err, !.tmp = <<>>]

Next0(n) == rcv[n].st = "recv" /\ frames[n] # <<>>
Pop(n) == frames' = [frames EXCEPT ![n] = Tail(@)]

\* A header and a body: refused for a conflicting name or one file too many,
\* otherwise copied to a temporary file, whose time of modification is now.
RecvBody(n) ==
    LET s == rcv[n]  fr == Head(frames[n]) IN
    /\ Next0(n) /\ fr[1] = "body" /\ Pop(n)
    /\ rcv' = [rcv EXCEPT ![n] =
          IF (~CAS /\ fr[2] \in s.names) \/ Cardinality(s.names) >= MaxFiles
          THEN Finish(s, 0, TRUE)
          ELSE [s EXCEPT !.names = @ \cup {fr[2]}, !.tmp = <<fr[2], fr[3], clock>>]]
    /\ UNCHANGED <<store, clock, gc, installed>> /\ UNCHANGED sndVars

\* The trailer: recvOne renames the temporary file into place and the session
\* counts it, or the installation fails.
\* (Mutated forms: a file is counted only by the next header; by the header
\* and the trailer.)
Counted(s) == s.count + 1
Install(n) ==
    LET s == rcv[n]  f == s.tmp[1]  c == s.tmp[2] IN
    /\ store' = [store EXCEPT ![Key(f, c)] = [c |-> c, mtime |-> s.tmp[3]]]
    /\ rcv' = [rcv EXCEPT ![n] = [s EXCEPT !.count = Counted(s), !.tmp = <<>>]]
    /\ installed' = installed \cup {<<n, f, c>>}
    /\ gc' = [gc EXCEPT !.freshened = @ \/ gc.victim = Key(f, c)]
RecvTrailer(n) ==
    /\ Next0(n) /\ Head(frames[n])[1] = "trailer" /\ Pop(n)
    /\ Install(n)
    /\ UNCHANGED clock /\ UNCHANGED sndVars
RecvTrailerFails(n) ==
    /\ Next0(n) /\ Head(frames[n])[1] = "trailer" /\ Pop(n)
    /\ rcv' = [rcv EXCEPT ![n] = Finish(@, 0, TRUE)]
    /\ UNCHANGED <<store, clock, gc, installed>> /\ UNCHANGED sndVars

RecvEnd(n) ==
    /\ Next0(n) /\ Head(frames[n])[1] = "end" /\ Pop(n)
    /\ rcv' = [rcv EXCEPT ![n] = Finish(@, Head(frames[n])[2], FALSE)]
    /\ UNCHANGED <<store, clock, gc, installed>> /\ UNCHANGED sndVars

\* The session of a sender that is gone is closed: the parser meets EOF, which
\* is a clean end between two files and an error within one.
SinkClose(n) ==
    /\ rcv[n].st = "recv" /\ frames[n] = <<>> /\ (run.n # n \/ run.st = "idle")
    /\ rcv' = [rcv EXCEPT ![n] = Finish(@, 0, rcv[n].tmp # <<>>)]
    /\ UNCHANGED <<frames, store, clock, gc, installed>> /\ UNCHANGED sndVars

Tick ==
    /\ CAS /\ clock < MaxTime
    /\ clock' = clock + 1
    /\ UNCHANGED <<frames, gc>> /\ UNCHANGED sndVars /\ UNCHANGED rcvVars

-----------------------------------------------------------------------------
(* The collector: `fetch --gc --apply` on the content-addressed store.      *)

\* planCASGC: every blob older than maxAge and then, oldest first, as many of
\* the others as it takes to fit maxTotal; blobs of one age in either order.
Plans(s, t) ==
    LET blobs == {k \in Keys : s[k] # Absent}
        aged  == {k \in blobs : maxAge > 0 /\ t - s[k].mtime > maxAge}
        kept  == blobs \ aged
        over  == IF maxTotal > 0 THEN Max({0, Cardinality(kept) - maxTotal}) ELSE 0 IN
    {aged \cup d : d \in {e \in kSubset(over, kept) :
                            \A x \in e, y \in kept \ e : s[x].mtime <= s[y].mtime}}

\* runCASGC: scan and plan.
GCScan ==
    /\ CAS /\ gc.st = "idle"
    /\ \E d \in Plans(store, clock) :
          /\ d # {}
          /\ gc' = [gc EXCEPT !.st = "delete", !.at = clock,
                              !.plan = {<<k, store[k].mtime>> : k \in d}]
    /\ UNCHANGED <<frames, clock>> /\ UNCHANGED sndVars /\ UNCHANGED rcvVars

\* deleteCASBlobs: Lstat, and keep what is gone or was modified since the scan.
\* (Mutated form: deletes on the verdict of the scan.)
StillOld(k, m) == store[k] # Absent /\ store[k].mtime <= m
GCCheck ==
    /\ gc.st = "delete" /\ gc.victim = Absent
    /\ \E b \in gc.plan :
          gc' = [gc EXCEPT !.plan = @ \ {b}, !.freshened = FALSE,
                           !.victim = IF StillOld(b[1], b[2]) THEN b[1] ELSE Absent,
                           !.st = IF gc.plan = {b} /\ ~StillOld(b[1], b[2]) THEN "idle" ELSE @]
    /\ UNCHANGED <<frames, clock>> /\ UNCHANGED sndVars /\ UNCHANGED rcvVars

GCRemove ==
    /\ gc.victim # Absent
    /\ store' = [store EXCEPT ![gc.victim] = Absent]
    /\ gc' = [gc EXCEPT !.victim = Absent, !.freshened = FALSE,
                        !.st = IF gc.plan = {} THEN "idle" ELSE @]
    /\ UNCHANGED <<frames, clock, rcv, installed>> /\ UNCHANGED sndVars

-----------------------------------------------------------------------------
Next ==
    \/ \E r \in BOOLEAN : RunReceiptedSend(r)
    \/ \E f \in Names : SendBody(f)
    \/ SendTrailer \/ SendEnd \/ markProducerDone
    \/ ReadEnter \/ ReadFromPipe \/ ReadReturn
    \/ Completion \/ Unconfirmed \/ SenderCrash
    \/ \E f \in Names, c \in Contents : Record(f, c) \/ Edit(f, c)
    \/ \E n \in Runs : RecvBody(n) \/ RecvTrailer(n) \/ RecvTrailerFails(n)
                          \/ RecvEnd(n) \/ SinkClose(n)
    \/ Tick \/ GCScan \/ GCCheck \/ GCRemove

Spec == Init /\ [][Next]_vars

-----------------------------------------------------------------------------
(* Type correctness of the sender's run, the receipt log and the store.     *)
TypeOK ==
    /\ disk \in [Names -> Contents]
    /\ receiptLog \in [Names -> Contents \cup {Absent}]
    /\ run.n \in 0..MaxRuns /\ run.toSend \subseteq Names
    /\ run.st \in {"idle", "send", "ended", "record"}
    /\ \A n \in Runs : rcv[n].st \in {"none", "recv", "done"} /\ rcv[n].count \in 0..Cardinality(Names)
    /\ \A k \in Keys : store[k] # Absent => store[k].c \in Contents
    /\ clock \in 0..MaxTime

(* A receipt is written for exactly the bytes a receiver installed under    *)
(* that name, although the local file may be edited and the sender may die  *)
(* between any two steps (runReceiptedSend: "the receipts are now true").   *)
ReceiptMeansInstalled ==
    \A f \in Names : receiptLog[f] # Absent =>
        \E n \in Runs : <<n, f, receiptLog[f]>> \in installed

(* What the sender is told for certain is so: after a confirmed run every   *)
(* file of the run is installed, after "rejected before installing any      *)
(* payload" none is (evaluateDropCompletion against recvOne's effects).     *)
VerdictTrue ==
    LET got == {t \in installed : t[1] = run.n} IN
    /\ run.verdict = "confirmed" => {t[2] : t \in got} = run.toSend
    /\ run.verdict = "rejected" => got = {}
    /\ run.verdict \in {"partial", "mismatch"} => got # {}

(* The end marker's being queued is never missed: once the producer is done *)
(* and the session's pump sits in Read with every byte taken, the wait for  *)
(* drain and the completion timer have been released (markerQueued), so a   *)
(* silent receiver cannot hang the sender.                                  *)
MarkerNotMissed ==
    (/\ run.st = "ended" /\ pipe.producerDone /\ pipe.waiting
     /\ pipe.taken = <<>> /\ pipe.read = pipe.written) => pipe.queued

(* --resume skips a file only when the receiver has at some time installed  *)
(* the content the file has now (receiptedAlready hashes the file again);   *)
(* whether the receiver still has it is not asked.                          *)
SkipsOnlyInstalled ==
    run'.n # run.n =>
        \A f \in Names \ run'.toSend :
            \E n \in Runs : <<n, f, disk[f]>> \in installed

(* The collector never discards a copy written after its scan, unless the   *)
(* rename fell into the instant between Lstat and Remove                    *)
(* (deleteCASBlobs: "re-checking each path immediately before deletion").   *)
SparesFresh ==
    \A k \in Keys : (store[k] # Absent /\ store'[k] = Absent /\ ~gc.freshened) =>
        store[k].mtime <= gc.at

=============================================================================
