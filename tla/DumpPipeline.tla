---------------------------- MODULE DumpPipeline ----------------------------
(* DatabaseBackup.Run from exec.CommandContext on: pg_dump, the goroutine     *)
(* that runs it, the gzip goroutine and the destination's Write, which is in  *)
(* the caller's own goroutine.  Two io.Pipes connect them.  An io.Pipe holds  *)
(* nothing: a Write returns when a Read has taken its bytes, so the goroutine *)
(* that writes does its next step only when the pipe is empty again.          *)
EXTENDS Naturals

CONSTANTS
  Chunks,   \* the length of the dump, in buffers
  OSPipe    \* how many of them the pipe behind cmd.Stdout holds

ASSUME SizeAssumption == Chunks \in Nat /\ OSPipe \in Nat /\ OSPipe > 0

VARIABLES
  gzip,     \* d.gzip
  kind,     \* the destination's Write: "file" (local, sftp) or "object" (s3)
  proc,     \* the pg_dump process: it "runs", or has exited "ok" or "bad"
  made,     \* the buffers pg_dump has written
  queued,   \* those in the operating system's pipe
  pump,     \* the goroutine of cmd.Run: "copy", "close", then "gone"
  cmdErr,   \* "unset", "nil" or "err"
  pipe,     \* "raw" (pr, pw) and "gz" (pr2, pw2): full?, and how it was closed
  zip,      \* the gzip goroutine: [at, held], held what gz has not passed on
  write,    \* Destination.Write
  got,      \* the buffers it has read and kept
  file,     \* "none", or "made": the destination has the key
  early,    \* history: Write returned an error before its reader did
  result    \* what Run has returned
vars == <<gzip, kind, proc, made, queued, pump, cmdErr, pipe, zip, write, got,
          file, early, result>>

modeVars == <<gzip, kind>>
cmdVars  == <<proc, made, queued>>
outVars  == <<write, got, file, early, result>>

(* gz.Close writes what is left in gz, and the trailer: a buffer of its own.  *)
Total == IF gzip THEN Chunks + 1 ELSE Chunks

(* Mutant of Source: Write is given pr although the gzip goroutine reads it.  *)
SourceRaw == "raw"

(* The reader Write is given.                                                 *)
Source == IF gzip THEN "gz" ELSE "raw"

Open == [full |-> FALSE, end |-> "open"]

Init ==
  /\ gzip \in BOOLEAN /\ kind \in {"file", "object"}
  /\ proc = "runs" /\ made = 0 /\ queued = 0
  /\ pump = "copy" /\ cmdErr = "unset"
  /\ pipe = [p \in {"raw", "gz"} |-> Open]
  /\ zip = [at |-> IF gzip THEN "copy" ELSE "gone", held |-> 0]
  /\ write = IF kind = "file" THEN "create" ELSE "copy"
  /\ got = 0 /\ file = "none" /\ early = FALSE /\ result = "running"

Empty(p)       == ~pipe[p].full
Closed(p, end) == Empty(p) /\ pipe[p].end = end
Put(p)         == Empty(p) /\ pipe' = [pipe EXCEPT ![p].full = TRUE]
Take(p)        == pipe[p].full /\ pipe' = [pipe EXCEPT ![p].full = FALSE]
Close(p, end)  == Empty(p) /\ pipe' = [pipe EXCEPT ![p].end = end]

-------------------------------------------------------------------------------
(* pg_dump *)

PgWrite ==
  /\ proc = "runs" /\ made < Chunks /\ queued < OSPipe
  /\ made' = made + 1 /\ queued' = queued + 1
  /\ UNCHANGED <<modeVars, proc, pump, cmdErr, pipe, zip, outVars>>

(* It exits 0 when it has written the last buffer; it may fail at any time.   *)
PgExit ==
  /\ proc = "runs"
  /\ \/ proc' = "bad"
     \/ made = Chunks /\ proc' = "ok"
  /\ UNCHANGED <<modeVars, made, queued, pump, cmdErr, pipe, zip, outVars>>

-------------------------------------------------------------------------------
(* The goroutine of cmd.Run *)

(* os/exec copies from the process's pipe to cmd.Stdout, which is pw.         *)
Pump ==
  /\ pump = "copy" /\ queued > 0
  /\ queued' = queued - 1
  /\ Put("raw")
  /\ UNCHANGED <<modeVars, proc, made, pump, cmdErr, zip, outVars>>

(* Mutant of CmdReturns: pw.CloseWithError(cmd.Run()), and cmdErr after it.   *)
CmdReturnsClosing ==
  /\ pump = "copy" /\ proc # "runs" /\ queued = 0
  /\ Close("raw", IF proc = "ok" THEN "eof" ELSE "err")
  /\ pump' = "close"
  /\ UNCHANGED <<modeVars, cmdVars, cmdErr, zip, outVars>>

(* cmd.Run returns: the process has exited and its output has been taken.     *)
CmdReturns ==
  /\ pump = "copy" /\ proc # "runs" /\ queued = 0 /\ Empty("raw")
  /\ cmdErr' = IF proc = "ok" THEN "nil" ELSE "err"
  /\ pump' = "close"
  /\ UNCHANGED <<modeVars, cmdVars, pipe, zip, outVars>>

(* pw.CloseWithError(cmdErr): end of file when cmdErr is nil.                 *)
ClosePipe ==
  /\ pump = "close"
  /\ Close("raw", IF cmdErr = "err" THEN "err" ELSE "eof")
  /\ pump' = "gone"
  /\ UNCHANGED <<modeVars, cmdVars, cmdErr, zip, outVars>>

-------------------------------------------------------------------------------
(* The gzip goroutine *)

(* io.Copy reads a buffer into gz, or gz passes a full one on.                *)
ZipCopy ==
  /\ zip.at = "copy" /\ Empty("gz")
  /\ \/ Take("raw") /\ zip' = [zip EXCEPT !.held = @ + 1]
     \/ zip.held > 0 /\ Put("gz") /\ zip' = [zip EXCEPT !.held = @ - 1]
  /\ UNCHANGED <<modeVars, cmdVars, pump, cmdErr, outVars>>

(* Mutant of ZipEOF: pw2 is closed without gz.Close.                          *)
ZipEOFUnflushed ==
  /\ zip.at = "copy" /\ Closed("raw", "eof") /\ Empty("gz")
  /\ zip' = [at |-> "flush", held |-> 0]
  /\ UNCHANGED <<modeVars, cmdVars, pump, cmdErr, pipe, outVars>>

(* io.Copy is done: gz.Close.                                                 *)
ZipEOF ==
  /\ zip.at = "copy" /\ Closed("raw", "eof") /\ Empty("gz")
  /\ zip' = [at |-> "flush", held |-> zip.held + 1]
  /\ UNCHANGED <<modeVars, cmdVars, pump, cmdErr, pipe, outVars>>

(* Mutant of ZipFlush: what is written is not dropped from the buffer.        *)
ZipFlushAgain ==
  /\ zip.at = "flush" /\ zip.held > 0
  /\ Put("gz")
  /\ UNCHANGED <<modeVars, cmdVars, pump, cmdErr, zip, outVars>>

ZipFlush ==
  /\ zip.at = "flush" /\ zip.held > 0
  /\ Put("gz")
  /\ zip' = [zip EXCEPT !.held = @ - 1]
  /\ UNCHANGED <<modeVars, cmdVars, pump, cmdErr, outVars>>

ZipClose ==
  /\ zip.at = "flush" /\ zip.held = 0
  /\ Close("gz", "eof")
  /\ zip' = [zip EXCEPT !.at = "gone"]
  /\ UNCHANGED <<modeVars, cmdVars, pump, cmdErr, outVars>>

(* Mutant of ZipBreaks: it returns without closing pw2.                       *)
ZipBreaksSilently ==
  /\ zip.at = "copy" /\ Closed("raw", "err") /\ Empty("gz")
  /\ zip' = [at |-> "gone", held |-> 0]
  /\ UNCHANGED <<modeVars, cmdVars, pump, cmdErr, pipe, outVars>>

(* io.Copy returns pg_dump's error: pw2.CloseWithError, gz is dropped.        *)
ZipBreaks ==
  /\ zip.at = "copy" /\ Closed("raw", "err")
  /\ Close("gz", "err")
  /\ zip' = [at |-> "gone", held |-> 0]
  /\ UNCHANGED <<modeVars, cmdVars, pump, cmdErr, outVars>>

-------------------------------------------------------------------------------
(* Destination.Write, in Run's own goroutine *)

(* local and sftp make the file first; that may fail, and nothing is read.    *)
Create ==
  /\ write = "create"
  /\ \/ write' = "copy" /\ file' = "made" /\ UNCHANGED early
     \/ write' = "failed" /\ early' = TRUE /\ UNCHANGED file
  /\ UNCHANGED <<modeVars, cmdVars, pump, cmdErr, pipe, zip, got, result>>

(* io.Copy or io.ReadAll reads a buffer; the disk or the connection may fail  *)
(* under io.Copy.                                                             *)
Read ==
  /\ write = "copy"
  /\ Take(Source)
  /\ \/ got' = got + 1 /\ UNCHANGED <<write, early>>
     \/ kind = "file" /\ write' = "failed" /\ early' = TRUE /\ UNCHANGED got
  /\ UNCHANGED <<modeVars, cmdVars, pump, cmdErr, zip, file, result>>

ReadEnds ==
  /\ write = "copy"
  /\ \/ Closed(Source, "err") /\ write' = "failed"
     \/ Closed(Source, "eof") /\ write' = IF kind = "file" THEN "ok" ELSE "put"
  /\ UNCHANGED <<modeVars, cmdVars, pump, cmdErr, pipe, zip, got, file, early, result>>

(* PutObject; when it fails the object may be stored all the same.            *)
PutObject ==
  /\ write = "put"
  /\ \/ write' = "ok" /\ file' = "made"
     \/ write' = "failed" /\ file' \in {"none", "made"}
  /\ UNCHANGED <<modeVars, cmdVars, pump, cmdErr, pipe, zip, got, early, result>>

(* Run returns: Write's error, or cmdErr, or the number of bytes.             *)
Return ==
  /\ result = "running" /\ write \in {"ok", "failed"}
  /\ result' = IF write = "ok" /\ cmdErr # "err" THEN "stored" ELSE "failed"
  /\ UNCHANGED <<modeVars, cmdVars, pump, cmdErr, pipe, zip, write, got, file, early>>

-------------------------------------------------------------------------------
Process   == PgWrite \/ PgExit
Command   == Pump \/ CmdReturns \/ ClosePipe
Compress  == ZipCopy \/ ZipEOF \/ ZipFlush \/ ZipClose \/ ZipBreaks
Caller    == Create \/ Read \/ ReadEnds \/ PutObject \/ Return

Next == Process \/ Command \/ Compress \/ Caller

Spec == Init /\ [][Next]_vars

(* The goroutines are scheduled and the calls they make return; pg_dump goes  *)
(* on as long as somebody takes its output.                                   *)
FairSpec ==
  Spec /\ WF_vars(Process) /\ WF_vars(Command) /\ WF_vars(Compress) /\ WF_vars(Caller)

-------------------------------------------------------------------------------
(* Properties *)

(* Every variable stays in its type.                                          *)
TypeOK ==
  /\ gzip \in BOOLEAN /\ kind \in {"file", "object"}
  /\ proc \in {"runs", "ok", "bad"}
  /\ made \in 0..Chunks /\ queued \in 0..OSPipe
  /\ pump \in {"copy", "close", "gone"}
  /\ cmdErr \in {"unset", "nil", "err"}
  /\ pipe \in [{"raw", "gz"} -> [full : BOOLEAN, end : {"open", "eof", "err"}]]
  /\ zip \in [at : {"copy", "flush", "gone"}, held : 0..(Chunks + 1)]
  /\ write \in {"create", "copy", "put", "ok", "failed"}
  /\ got \in 0..(Chunks + 1)
  /\ file \in {"none", "made"} /\ early \in BOOLEAN
  /\ result \in {"running", "stored", "failed"}

(* Run reports a dump only when pg_dump exited 0 and every buffer, the gzip   *)
(* trailer included, went through both pipes into the file.                   *)
StoredIsWhole ==
  result = "stored" => proc = "ok" /\ file = "made" /\ got = Total

(* Run reads cmdErr, which another goroutine assigns, without a lock: when    *)
(* Write has returned well the assignment is over, ordered before it by the   *)
(* closing of the pipes.                                                      *)
CmdErrIsSettled == write \in {"put", "ok"} => cmdErr = "nil" /\ pump = "gone"

Call == INSTANCE DumpCall WITH
  file <- IF file = "none" THEN "none" ELSE IF got = Total THEN "whole" ELSE "partial"

(* The goroutines together do what Runner.Run expects of one call: DumpCall   *)
(* is implemented.                                                            *)
CallIsImplemented == Call!Spec

(* Run returns, whether or not pg_dump, the compression and Write succeed.    *)
RunReturns == <>(result # "running")

AllGone == proc # "runs" /\ pump = "gone" /\ zip.at = "gone"

(* Unless Write gave up before its reader ended, which happens on local and   *)
(* sftp only, Run leaves no process and no goroutine behind.                  *)
NothingLeftBehind ==
  result # "running" /\ (kind = "object" \/ ~early) ~> AllGone
=============================================================================
