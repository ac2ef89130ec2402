---------------------------- MODULE ExportPipeline ----------------------------
(***************************************************************************)
(* The export pipeline of the local engine router (src/crates/sdk/src/api/ *)
(* engine/local/mod.rs).  An export is a source (export_file, which runs  *)
(* the datastore export, or export_ml, which streams a model's bytes)     *)
(* sending chunks into a channel::bounded(1), and a bridge that receives   *)
(* them and forwards them to a sink:                                       *)
(*   - "file" (Command::ExportFile, ExportMl): the bridge writes into an   *)
(*     io::duplex pipe and copy() writes the pipe to the output file; the  *)
(*     handler awaits tokio::try_join!(export, bridge, copy);              *)
(*   - "bytes" (Command::ExportBytes, ExportBytesMl): a spawned task       *)
(*     tokio::join!s export and bridge, the bridge sending Ok(chunk) and  *)
(*     the export sending Err(error) into the caller's channel `bytes`.   *)
(* A chunk is its position in the export: the source holds chunks 1..n.   *)
(***************************************************************************)
EXTENDS Naturals, Sequences

CONSTANTS
  MaxChunks,  \* the most chunks an export produces
  PipeCap,    \* chunks the io::duplex(10_240) pipe buffers
  OutCap,     \* capacity of the caller's `bytes` channel
  Sinks,      \* {"file", "bytes"}
  Sources,    \* {"db", "ml"}: export_file or export_ml
  NoChunk     \* the bridge holds no chunk

VARIABLES
  sink, source,
  n,          \* the chunks the source has to send
  phase,      \* "open" (file sink: output not yet open), "run", "done"
  answer,     \* the file-sink handler's result: "none", "ok", "err"
  produced,   \* chunks the source has sent into the channel
  epc,        \* the source future: "run", "err" (bytes: error not yet reported), "ended"
  ch,         \* the channel::bounded(1) between source and bridge
  txOpen,     \* the source still holds the channel's sender
  held,       \* the chunk the bridge received and has not yet forwarded
  bpc,        \* the bridge future: "run", "ended"
  pipe,       \* file sink: the duplex pipe
  wOpen,      \* file sink: the bridge still holds the pipe's writer
  cpc,        \* file sink: copy(): "run", "ended"
  file,       \* file sink: the chunks written to the output file
  bytesOut,   \* bytes sink: the `bytes` channel, of [ok, chunk] / [ok |-> FALSE]
  clientOpen, \* bytes sink: the caller still holds the receiver
  recv        \* bytes sink: the messages the caller has received

exportVars == <<sink, source, n, phase, answer, produced, epc, ch, txOpen,
                held, bpc, pipe, wOpen, cpc, file, bytesOut, clientOpen, recv>>

(* crate::channel::bounded(1)                                              *)
ChanCap == 1

Chunks(k) == [i \in 1..k |-> i]

OkChunks(msgs) ==
  LET oks == SelectSeq(msgs, LAMBDA m : m.ok) IN [i \in DOMAIN oks |-> oks[i].chunk]

-----------------------------------------------------------------------------
(* Mutant: the bridge is only polled once the export has returned, as if  *)
(* the futures were awaited one after the other instead of joined.        *)
BridgePolledAfterExport == epc # "run"

(* try_join! and join! poll the export and the bridge together.            *)
BridgePolled == TRUE

(* Mutant: copy() takes a failed write for the end of its input.           *)
CopyFailsAsEof ==
  cpc' = "ended" /\ UNCHANGED <<phase, answer, file, pipe>>

(* A failed write is FileRead, the error copy() returns, which ends       *)
(* try_join! with it at once.                                              *)
CopyFails ==
  phase' = "done" /\ answer' = "err" /\ UNCHANGED <<cpc, file, pipe>>

(* Mutant: the export's error is dropped instead of sent to the caller.   *)
ReportsErrorNever == FALSE

(* if let Err(error) = export_file(..) { bytes.send(Err(error)) }          *)
ReportsError == TRUE

(* What a failure of the source ends it with.  export_file returns every   *)
(* error but a Channel error; export_ml returns the errors of check_ns_db, *)
(* the permission check, the model lookup and obs::stream, but its loop   *)
(* `while let Some(Ok(bytes)) = data.next()` ends on an Err item, which   *)
(* then returns Ok(()).                                                    *)
FailureEnds ==
  IF source = "db" THEN {"err"}
  ELSE IF produced = 0 THEN {"err", "ended"} ELSE {"ended"}

-----------------------------------------------------------------------------
Running == phase = "run"

(* The output file is opened after the futures are built and before any  *)
(* is polled: a failed open answers FileOpen and nothing runs.             *)
OpenOutput ==
  /\ phase = "open"
  /\ \E ok \in BOOLEAN :
       IF ok THEN phase' = "run" /\ UNCHANGED answer
       ELSE phase' = "done" /\ answer' = "err"
  /\ UNCHANGED <<sink, source, n, produced, epc, ch, txOpen, held, bpc,
                 pipe, wOpen, cpc, file, bytesOut, clientOpen, recv>>

(* chn.send(chunk) waits for room in the channel.  It would fail, and    *)
(* export_file would take the Channel error for the end of the export, *)
(* only once the receiver is dropped; but the receiver outlives the       *)
(* sender in every handler: ExportFile's bridge owns it until the sender *)
(* is gone, and the bytes task's bridge only borrows it, so it lives     *)
(* until join! returns.  A send into a full channel waits for ever.       *)
ExportSend ==
  /\ Running /\ epc = "run" /\ produced < n /\ Len(ch) < ChanCap
  /\ ch' = Append(ch, produced + 1)
  /\ produced' = produced + 1
  /\ UNCHANGED <<sink, source, n, phase, answer, epc, txOpen, held, bpc, pipe, wOpen,
                 cpc, file, bytesOut, clientOpen, recv>>

(* The source has sent every chunk: it returns Ok and drops the sender.   *)
ExportEnd ==
  /\ Running /\ epc = "run" /\ produced = n
  /\ epc' = "ended" /\ txOpen' = FALSE
  /\ UNCHANGED <<sink, source, n, phase, answer, produced, ch, held, bpc,
                 pipe, wOpen, cpc, file, bytesOut, clientOpen, recv>>

(* A read of the source fails before its next chunk.  For the file sink  *)
(* an error ends try_join! at once, with that error.                      *)
ExportFail ==
  /\ Running /\ epc = "run" /\ produced < n
  /\ \E e \in FailureEnds :
       /\ txOpen' = FALSE
       /\ IF e = "err" /\ sink = "file"
          THEN phase' = "done" /\ answer' = "err" /\ epc' = "ended"
          ELSE epc' = e /\ UNCHANGED <<phase, answer>>
  /\ UNCHANGED <<sink, source, n, produced, ch, held, bpc, pipe, wOpen,
                 cpc, file, bytesOut, clientOpen, recv>>

(* The bytes task's export: bytes.send(Err(error)); a dropped receiver    *)
(* makes the send fail, which is ignored.                                 *)
ExportReport ==
  /\ Running /\ epc = "err"
  /\ \/ /\ clientOpen /\ Len(bytesOut) < OutCap
        /\ bytesOut' = IF ReportsError THEN Append(bytesOut, [ok |-> FALSE]) ELSE bytesOut
     \/ /\ ~clientOpen
        /\ UNCHANGED bytesOut
  /\ epc' = "ended"
  /\ UNCHANGED <<sink, source, n, phase, answer, produced, ch, txOpen, held,
                 bpc, pipe, wOpen, cpc, file, clientOpen, recv>>

-----------------------------------------------------------------------------
(* The bridge: while let Ok(value) = rx.recv().await { forward value }.   *)
BridgeRecv ==
  /\ Running /\ bpc = "run" /\ BridgePolled
  /\ held = NoChunk /\ ch # << >>
  /\ held' = Head(ch) /\ ch' = Tail(ch)
  /\ UNCHANGED <<sink, source, n, phase, answer, produced, epc, txOpen, bpc,
                 pipe, wOpen, cpc, file, bytesOut, clientOpen, recv>>

(* writer.write_all(&value) into the pipe (file), or bytes.send(Ok(b))    *)
(* (bytes), whose failure breaks the loop.  The bytes bridge is a plain  *)
(* async block borrowing rx: breaking ends it but keeps the receiver.    *)
BridgeForward ==
  /\ Running /\ bpc = "run" /\ BridgePolled /\ held # NoChunk
  /\ \/ /\ sink = "file" /\ Len(pipe) < PipeCap
        /\ pipe' = Append(pipe, held) /\ held' = NoChunk
        /\ UNCHANGED <<bpc, wOpen, bytesOut>>
     \/ /\ sink = "bytes" /\ clientOpen /\ Len(bytesOut) < OutCap
        /\ bytesOut' = Append(bytesOut, [ok |-> TRUE, chunk |-> held]) /\ held' = NoChunk
        /\ UNCHANGED <<bpc, wOpen, pipe>>
     \/ /\ sink = "bytes" /\ ~clientOpen
        /\ bpc' = "ended" /\ held' = NoChunk
        /\ UNCHANGED <<wOpen, bytesOut, pipe>>
  /\ UNCHANGED <<sink, source, n, phase, answer, produced, epc, ch, txOpen, cpc,
                 file, clientOpen, recv>>

(* recv fails once the channel is empty and its sender dropped: the       *)
(* bridge returns, dropping the pipe's writer.                            *)
BridgeEnd ==
  /\ Running /\ bpc = "run" /\ BridgePolled
  /\ held = NoChunk /\ ch = << >> /\ ~txOpen
  /\ bpc' = "ended" /\ wOpen' = FALSE
  /\ UNCHANGED <<sink, source, n, phase, answer, produced, epc, ch, txOpen, held,
                 pipe, cpc, file, bytesOut, clientOpen, recv>>

-----------------------------------------------------------------------------
(* copy(): io::copy moves a chunk from the pipe to the file, or fails.    *)
CopyChunk ==
  /\ Running /\ sink = "file" /\ cpc = "run" /\ pipe # << >>
  /\ \/ file' = Append(file, Head(pipe)) /\ pipe' = Tail(pipe)
        /\ UNCHANGED <<cpc, phase, answer>>
     \/ CopyFails
  /\ UNCHANGED <<sink, source, n, produced, epc, ch, txOpen, held, bpc,
                 wOpen, bytesOut, clientOpen, recv>>

(* The pipe is empty and its writer dropped: io::copy returns Ok.        *)
CopyEnd ==
  /\ Running /\ sink = "file" /\ cpc = "run" /\ pipe = << >> /\ ~wOpen
  /\ cpc' = "ended"
  /\ UNCHANGED <<sink, source, n, phase, answer, produced, epc, ch, txOpen, 
                 held, bpc, pipe, wOpen, file, bytesOut, clientOpen, recv>>

(* try_join! returns Ok once all three futures have; the handler answers  *)
(* None.  The bytes task ends once join! has both futures done.           *)
Join ==
  /\ Running /\ epc = "ended" /\ bpc = "ended"
  /\ sink = "file" => cpc = "ended"
  /\ phase' = "done"
  /\ answer' = IF sink = "file" THEN "ok" ELSE answer
  /\ UNCHANGED <<sink, source, n, produced, epc, ch, txOpen, held, bpc,
                 pipe, wOpen, cpc, file, bytesOut, clientOpen, recv>>

-----------------------------------------------------------------------------
(* The caller of ExportBytes reads the stream, or drops it.                *)
ClientRecv ==
  /\ clientOpen /\ bytesOut # << >>
  /\ recv' = Append(recv, Head(bytesOut)) /\ bytesOut' = Tail(bytesOut)
  /\ UNCHANGED <<sink, source, n, phase, answer, produced, epc, ch, txOpen, 
                 held, bpc, pipe, wOpen, cpc, file, clientOpen>>

ClientDrop ==
  /\ sink = "bytes" /\ clientOpen
  /\ clientOpen' = FALSE /\ bytesOut' = << >>
  /\ UNCHANGED <<sink, source, n, phase, answer, produced, epc, ch, txOpen, 
                 held, bpc, pipe, wOpen, cpc, file, recv>>

(* A finished export stays finished.                                       *)
Finished ==
  /\ phase = "done" /\ (bytesOut = << >> \/ ~clientOpen)
  /\ UNCHANGED exportVars

-----------------------------------------------------------------------------
ExportInit ==
  /\ sink \in Sinks /\ source \in Sources /\ n \in 0..MaxChunks
  /\ phase = IF sink = "file" THEN "open" ELSE "run"
  /\ answer = "none" /\ produced = 0 /\ epc = "run"
  /\ ch = << >> /\ txOpen = TRUE /\ held = NoChunk /\ bpc = "run"
  /\ pipe = << >> /\ wOpen = TRUE /\ cpc = "run" /\ file = << >>
  /\ bytesOut = << >> /\ clientOpen = TRUE /\ recv = << >>

ExportNext ==
  \/ OpenOutput \/ ExportSend \/ ExportEnd \/ ExportFail \/ ExportReport
  \/ BridgeRecv \/ BridgeForward \/ BridgeEnd \/ CopyChunk \/ CopyEnd \/ Join
  \/ ClientRecv \/ ClientDrop \/ Finished

(* The joined futures are polled whenever one can make progress; the      *)
(* caller of ExportBytes is assumed to keep reading until it drops the    *)
(* stream.  Failures and the drop are not forced.                          *)
ExportFairness ==
  /\ WF_exportVars(OpenOutput) /\ WF_exportVars(ExportSend) /\ WF_exportVars(ExportEnd)
  /\ WF_exportVars(ExportReport) /\ WF_exportVars(BridgeRecv)
  /\ WF_exportVars(BridgeForward) /\ WF_exportVars(BridgeEnd)
  /\ WF_exportVars(CopyChunk) /\ WF_exportVars(CopyEnd) /\ WF_exportVars(Join)
  /\ WF_exportVars(ClientRecv)

ExportSpec == ExportInit /\ [][ExportNext]_exportVars /\ ExportFairness

-----------------------------------------------------------------------------
(* ExportFile and ExportMl answer Ok only when the output file holds every *)
(* chunk of the export, in order: a failure of the source, of the bridge   *)
(* or of copy() is the handler's error (the bridge's comment: "Let either *)
(* side's error be propagated").                                          *)
FileExportComplete ==
  sink = "file" /\ answer = "ok" => file = Chunks(n)

(* A caller that read the ExportBytes stream to its end either received  *)
(* every chunk or received an error: a failed export is never mistaken    *)
(* for a complete one.                                                     *)
StreamCompleteUnlessError ==
  (sink = "bytes" /\ phase = "done" /\ clientOpen /\ bytesOut = << >>
   /\ \A i \in DOMAIN recv : recv[i].ok)
  => OkChunks(recv) = Chunks(n)

(* ExportFile and ExportMl always answer, whatever the source and the     *)
(* file do: the export and the bridge are polled together over a channel *)
(* of one slot and copy() drains the pipe, so no future waits for ever.   *)
FileExportAnswers == sink = "file" => <>(phase = "done")

(* Every export ends, the bytes task included: the spawned task of        *)
(* ExportBytes exits whatever the caller does with the stream.            *)
ExportEnds == <>(phase = "done")

================================================================================
