------------------------- MODULE DumpPipelineProofs -------------------------
(* Theorems about DumpPipeline, for a dump and an operating system's pipe of  *)
(* any size.                                                                  *)
EXTENDS DumpPipeline, TLAPS

(* The buffers in a pipe.                                                     *)
In(p) == IF pipe[p].full THEN 1 ELSE 0

(* The command's end of things is settled in the order proc, cmdErr, pipe.    *)
CommandInv ==
  /\ proc = "ok" => made = Chunks
  /\ pump = "copy" => cmdErr = "unset"
  /\ pump # "copy" => /\ proc # "runs" /\ queued = 0 /\ Empty("raw")
                      /\ cmdErr = IF proc = "ok" THEN "nil" ELSE "err"
  /\ pump # "gone" => pipe["raw"].end = "open"
  /\ pump = "gone" => pipe["raw"].end = IF proc = "ok" THEN "eof" ELSE "err"

(* The gzip goroutine ends its pipe as its own reader ended.                  *)
ZipInv ==
  /\ ~gzip => zip.at = "gone" /\ zip.held = 0 /\ pipe["gz"] = Open
  /\ gzip /\ zip.at # "gone" => pipe["gz"].end = "open"
  /\ gzip /\ zip.at = "flush" => pipe["raw"].end = "eof"
  /\ gzip /\ zip.at = "gone" => /\ zip.held = 0 /\ Empty("gz")
                                /\ pipe["gz"].end \in {"eof", "err"}
                                /\ pipe["gz"].end = "eof" => pipe["raw"].end = "eof"

(* Write succeeds only at the end of its reader, and makes the file.          *)
WriteInv ==
  /\ write \in {"put", "ok"} => Closed(Source, "eof")
  /\ write = "create" => kind = "file" /\ got = 0 /\ file = "none"
  /\ write = "put" => kind = "object"
  /\ kind = "file" /\ write \in {"copy", "ok"} => file = "made"
  /\ kind = "object" /\ write \in {"copy", "put"} => file = "none"
  /\ write = "ok" => file = "made"
  /\ result # "running" => write \in {"ok", "failed"}
  /\ result = "stored" => write = "ok"

(* No buffer is made up on the way, and none is lost while nothing has failed.*)
Ahead == IF gzip THEN zip.held + In("gz") + got ELSE got
Copied == made - queued - In("raw")
Lossless == write # "failed" /\ pipe["gz"].end # "err"

FlowInv ==
  /\ Copied >= 0
  /\ gzip /\ zip.at # "copy" => Ahead <= Chunks + 1 /\ (Lossless => Ahead = Chunks + 1)
  /\ gzip /\ zip.at = "copy" => Ahead <= Copied /\ (Lossless => Ahead = Copied)
  /\ ~gzip => Ahead <= Copied /\ (Lossless => Ahead = Copied)

PipeInv == TypeOK /\ CommandInv /\ ZipInv /\ WriteInv /\ FlowInv

(* The type of the two pipes, which a write and a read keep.                  *)
Pipes == [{"raw", "gz"} -> [full : BOOLEAN, end : {"open", "eof", "err"}]]

LEMMA PipeStep ==
  ASSUME TypeOK, NEW p \in {"raw", "gz"}, Put(p) \/ Take(p)
  PROVE  pipe' \in Pipes
<1>1. PICK b \in BOOLEAN : pipe' = [pipe EXCEPT ![p].full = b]
  BY Zenon DEF Put, Take
<1>2. [pipe[p] EXCEPT !.full = b] \in [full : BOOLEAN, end : {"open", "eof", "err"}]
  BY DEF TypeOK
<1> QED BY <1>1, <1>2 DEF TypeOK, Pipes

LEMMA InitPipe == Init => PipeInv
<1> SUFFICES ASSUME Init PROVE PipeInv
  OBVIOUS
<1>0. /\ pipe \in [{"raw", "gz"} -> [full : BOOLEAN, end : {"open", "eof", "err"}]]
      /\ \A p \in {"raw", "gz"} : ~pipe[p].full /\ pipe[p].end = "open"
      /\ zip.held = 0
  BY DEF Init, Open
<1>1. TypeOK
  <2>1. zip \in [at : {"copy", "flush", "gone"}, held : 0..(Chunks + 1)]
    BY SizeAssumption DEF Init
  <2>2. made \in 0..Chunks /\ queued \in 0..OSPipe /\ got \in 0..(Chunks + 1)
    BY SizeAssumption DEF Init
  <2> QED BY <1>0, <2>1, <2>2 DEF Init, TypeOK
<1>2. CommandInv /\ ZipInv /\ WriteInv
  BY DEF Init, CommandInv, ZipInv, WriteInv, Open, Empty
<1>3. FlowInv
  <2>1. In("raw") = 0 /\ In("gz") = 0
    BY <1>0 DEF In
  <2> QED BY <1>0, <2>1 DEF Init, FlowInv, Ahead, Copied
<1> QED BY <1>1, <1>2, <1>3 DEF PipeInv

LEMMA ProcessStep == ASSUME PipeInv, Process PROVE PipeInv'
<1> USE SizeAssumption
    DEF PipeInv, TypeOK, CommandInv, ZipInv, WriteInv, FlowInv, Ahead, Copied,
        Lossless, In, Empty, Closed, Source, modeVars, outVars
<1>1. CASE PgWrite
  BY <1>1 DEF PgWrite
<1>2. CASE PgExit
  BY <1>2 DEF PgExit
<1> QED BY <1>1, <1>2 DEF Process

LEMMA CommandStep == ASSUME PipeInv, Command PROVE PipeInv'
<1> USE SizeAssumption
    DEF PipeInv, TypeOK, CommandInv, ZipInv, WriteInv, FlowInv, Ahead, Copied,
        Lossless, In, Empty, Closed, Put, Close, Source, modeVars, cmdVars, outVars
<1>1. CASE Pump
  <2>1. TypeOK'
    BY <1>1, PipeStep DEF Pump, Pipes
  <2>2. CommandInv'
    BY <1>1 DEF Pump
  <2>3. ZipInv'
    BY <1>1 DEF Pump
  <2>4. WriteInv'
    BY <1>1 DEF Pump
  <2>5. FlowInv'
    BY <1>1 DEF Pump
  <2> QED BY <2>1, <2>2, <2>3, <2>4, <2>5
<1>2. CASE CmdReturns
  BY <1>2 DEF CmdReturns
<1>3. CASE ClosePipe
  BY <1>3 DEF ClosePipe
<1> QED BY <1>1, <1>2, <1>3 DEF Command

LEMMA CompressStep == ASSUME PipeInv, Compress PROVE PipeInv'
<1> USE SizeAssumption
    DEF PipeInv, TypeOK, CommandInv, ZipInv, WriteInv, FlowInv, Ahead, Copied, Total,
        Lossless, In, Empty, Closed, Put, Take, Close, Source, modeVars, cmdVars, outVars
<1>1. CASE ZipCopy
  <2>1. TypeOK'
    BY <1>1, PipeStep DEF ZipCopy, Pipes
  <2>2. CommandInv'
    BY <1>1 DEF ZipCopy
  <2>3. ZipInv'
    BY <1>1 DEF ZipCopy
  <2>4. WriteInv'
    BY <1>1 DEF ZipCopy
  <2>5. FlowInv'
    BY <1>1 DEF ZipCopy
  <2> QED BY <2>1, <2>2, <2>3, <2>4, <2>5
<1>2. CASE ZipEOF
  BY <1>2 DEF ZipEOF
<1>3. CASE ZipFlush
  <2>1. TypeOK'
    BY <1>3, PipeStep DEF ZipFlush, Pipes
  <2>2. CommandInv'
    BY <1>3 DEF ZipFlush
  <2>3. ZipInv'
    BY <1>3 DEF ZipFlush
  <2>4. WriteInv'
    BY <1>3 DEF ZipFlush
  <2>5. FlowInv'
    BY <1>3 DEF ZipFlush
  <2> QED BY <2>1, <2>2, <2>3, <2>4, <2>5
<1>4. CASE ZipClose
  BY <1>4 DEF ZipClose
<1>5. CASE ZipBreaks
  BY <1>5 DEF ZipBreaks
<1> QED BY <1>1, <1>2, <1>3, <1>4, <1>5 DEF Compress

LEMMA CallerStep == ASSUME PipeInv, Caller PROVE PipeInv'
<1> USE SizeAssumption
    DEF PipeInv, TypeOK, CommandInv, ZipInv, WriteInv, FlowInv, Ahead, Copied,
        Lossless, In, Empty, Closed, Take, Source, modeVars, cmdVars
<1>1. CASE Create
  <2>1. TypeOK'
    BY <1>1 DEF Create
  <2>2. CommandInv'
    BY <1>1 DEF Create
  <2>3. ZipInv'
    BY <1>1 DEF Create
  <2>4. WriteInv'
    BY <1>1 DEF Create
  <2>5. FlowInv'
    BY <1>1 DEF Create
  <2> QED BY <2>1, <2>2, <2>3, <2>4, <2>5
<1>2. CASE Read
  <2>1. TypeOK'
    <3>1. Take(Source) /\ Source \in {"raw", "gz"}
      BY <1>2 DEF Read
    <3>2. pipe' \in Pipes
      BY <3>1, PipeStep
    <3>3. got' \in 0..(Chunks + 1)
      BY <1>2 DEF Read
    <3>4. write' \in {"create", "copy", "put", "ok", "failed"} /\ early' \in BOOLEAN
      BY <1>2 DEF Read
    <3>5. UNCHANGED <<gzip, kind, proc, made, queued, pump, cmdErr, zip, file, result>>
      BY <1>2 DEF Read, modeVars, cmdVars
    <3>6. TypeOK
      BY DEF PipeInv
    <3> QED BY <3>2, <3>3, <3>4, <3>5, <3>6 DEF TypeOK, Pipes
  <2>2. CommandInv'
    BY <1>2 DEF Read
  <2>3. ZipInv'
    BY <1>2 DEF Read
  <2>4. WriteInv'
    BY <1>2 DEF Read
  <2>5. FlowInv'
    BY <1>2 DEF Read
  <2> QED BY <2>1, <2>2, <2>3, <2>4, <2>5
<1>3. CASE ReadEnds
  BY <1>3 DEF ReadEnds
<1>4. CASE PutObject
  BY <1>4 DEF PutObject
<1>5. CASE Return
  BY <1>5 DEF Return
<1> QED BY <1>1, <1>2, <1>3, <1>4, <1>5 DEF Caller

LEMMA PipeInvariant == Spec => []PipeInv
<1>1. PipeInv /\ UNCHANGED vars => PipeInv'
  BY DEF PipeInv, TypeOK, CommandInv, ZipInv, WriteInv, FlowInv, Ahead, Copied,
         Lossless, In, Empty, Closed, Source, vars
<1>2. PipeInv /\ [Next]_vars => PipeInv'
  BY <1>1, ProcessStep, CommandStep, CompressStep, CallerStep DEF Next
<1> QED BY InitPipe, <1>2, PTL DEF Spec

(* What the invariant says once Write has returned well: its reader has seen  *)
(* the end of pg_dump's own output, and every buffer.                         *)
LEMMA AtTheEnd ==
  ASSUME PipeInv, write \in {"put", "ok"}
  PROVE  /\ proc = "ok" /\ cmdErr = "nil" /\ pump = "gone"
         /\ got = Total
<1>1. Closed(Source, "eof")
  BY DEF PipeInv, WriteInv
<1>2. pipe["raw"].end = "eof"
  BY <1>1 DEF PipeInv, ZipInv, Closed, Source, Open
<1>3. proc = "ok" /\ cmdErr = "nil" /\ pump = "gone" /\ queued = 0 /\ Empty("raw")
  BY <1>2 DEF PipeInv, CommandInv, TypeOK
<1>4. CASE gzip
  <2>1. Lossless /\ In("gz") = 0 /\ zip.at # "copy"
    BY <1>1, <1>4 DEF PipeInv, ZipInv, Lossless, Closed, Source, Empty, In
  <2>2. zip.held = 0
    BY <1>1, <1>4, <2>1 DEF PipeInv, ZipInv, Closed, Source, TypeOK
  <2> QED BY <1>3, <1>4, <2>1, <2>2 DEF PipeInv, FlowInv, Ahead, Total, TypeOK
<1>5. CASE ~gzip
  <2>1. Lossless /\ In("raw") = 0 /\ made = Chunks
    BY <1>3, <1>5 DEF PipeInv, ZipInv, CommandInv, Lossless, Empty, In, Open
  <2> QED BY <1>3, <1>5, <2>1 DEF PipeInv, FlowInv, Ahead, Copied, Total, TypeOK
<1> QED BY <1>3, <1>4, <1>5

(* Every variable stays in its type; above all, no buffer is written twice.   *)
THEOREM TypeCorrect == Spec => []TypeOK
<1>1. PipeInv => TypeOK
  BY DEF PipeInv
<1> QED BY PipeInvariant, <1>1, PTL

(* Run reads the error of pg_dump only after it was assigned: the pipes order *)
(* the two, for a dump of any size, compressed or not.                        *)
THEOREM CmdErrCorrect == Spec => []CmdErrIsSettled
<1>1. PipeInv => CmdErrIsSettled
  BY AtTheEnd DEF CmdErrIsSettled
<1> QED BY PipeInvariant, <1>1, PTL

(* A dump that is reported as stored is whole, whatever fails on the way.     *)
THEOREM StoredCorrect == Spec => []StoredIsWhole
<1>1. PipeInv => StoredIsWhole
  BY AtTheEnd DEF StoredIsWhole, PipeInv, WriteInv
<1> QED BY PipeInvariant, <1>1, PTL

-------------------------------------------------------------------------------
(* DumpPipeline implements DumpCall.                                          *)

LEMMA InitImplements == Init => Call!Init
BY DEF Init, Call!Init

(* A step that leaves the file, what was read and the result alone.           *)
LEMMA Stutter ==
  ASSUME UNCHANGED <<gzip, file, got, result>>
  PROVE  UNCHANGED Call!vars
BY DEF Call!vars, Total

LEMMA CallerImplements == ASSUME PipeInv, Caller PROVE [Call!Next]_(Call!vars)
<1> USE DEF modeVars, cmdVars
<1>1. CASE Create
  <2>1. result = "running" /\ file = "none" /\ UNCHANGED <<got, result, gzip>>
    BY <1>1 DEF Create, PipeInv, WriteInv, TypeOK
  <2>2. CASE UNCHANGED file
    BY <2>1, <2>2, Stutter
  <2>3. CASE file' = "made"
    BY <2>1, <2>3 DEF Call!Next, Call!Grow, Total
  <2> QED BY <1>1, <2>2, <2>3 DEF Create
<1>2. CASE Read
  <2>1. result = "running" /\ UNCHANGED <<file, result, gzip>>
    BY <1>2 DEF Read, PipeInv, WriteInv, TypeOK
  <2>2. got < Total
    BY <1>2, SizeAssumption
    DEF Read, Take, Source, In, PipeInv, TypeOK, FlowInv, ZipInv, Ahead, Copied, Total, Open
  <2>3. got # Total
    BY <2>2 DEF PipeInv, TypeOK
  <2>4. CASE file = "none"
    BY <2>1, <2>4 DEF Call!vars
  <2>5. CASE file # "none"
    BY <2>1, <2>3, <2>5 DEF Call!Next, Call!Grow
  <2> QED BY <2>4, <2>5
<1>3. CASE ReadEnds
  BY <1>3, Stutter DEF ReadEnds
<1>4. CASE PutObject
  <2>1. result = "running" /\ file = "none" /\ UNCHANGED <<got, result, gzip>>
    BY <1>4 DEF PutObject, PipeInv, WriteInv, TypeOK
  <2>2. CASE file' = "none"
    BY <2>1, <2>2, Stutter
  <2>3. CASE file' = "made"
    BY <2>1, <2>3 DEF Call!Next, Call!Grow, Total
  <2> QED BY <1>4, <2>2, <2>3 DEF PutObject
<1>5. CASE Return
  <2>1. UNCHANGED <<file, got, gzip>> /\ result = "running"
    BY <1>5 DEF Return
  <2>2. CASE result' = "failed"
    BY <2>1, <2>2 DEF Call!Next, Call!GiveUp, Total
  <2>3. CASE result' = "stored"
    <3>1. write = "ok" /\ file = "made"
      BY <1>5, <2>3 DEF Return, PipeInv, WriteInv
    <3>2. got = Total
      BY <3>1, AtTheEnd
    <3> QED BY <2>1, <2>3, <3>1, <3>2 DEF Call!Next, Call!Succeed, Total
  <2> QED BY <1>5, <2>2, <2>3 DEF Return
<1> QED BY <1>1, <1>2, <1>3, <1>4, <1>5 DEF Caller

LEMMA StepImplements == ASSUME PipeInv, [Next]_vars PROVE [Call!Next]_(Call!vars)
<1>1. CASE Process
  BY <1>1, Stutter DEF Process, PgWrite, PgExit, modeVars, outVars
<1>2. CASE Command
  BY <1>2, Stutter DEF Command, Pump, CmdReturns, ClosePipe, modeVars, outVars
<1>3. CASE Compress
  BY <1>3, Stutter
  DEF Compress, ZipCopy, ZipEOF, ZipFlush, ZipClose, ZipBreaks, modeVars, outVars
<1>4. CASE UNCHANGED vars
  BY <1>4, Stutter DEF vars
<1> QED BY <1>1, <1>2, <1>3, <1>4, CallerImplements DEF Next

(* The three goroutines and Write implement the one call that Runner.Run      *)
(* makes: the file grows while it lasts, rests after it, and is whole when it *)
(* is reported.                                                               *)
THEOREM CallCorrect == Spec => CallIsImplemented
<1>1. PipeInv /\ [Next]_vars => [Call!Next]_(Call!vars)
  BY StepImplements
<1> QED BY PipeInvariant, InitImplements, <1>1, PTL DEF Spec, CallIsImplemented, Call!Spec
=============================================================================
