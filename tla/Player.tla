------------------------------- MODULE Player -------------------------------
(***************************************************************************)
(* The player of src/MediaClient.cpp (112-161, 197-203).  The network      *)
(* thread appends audio to `buffer`, PulseAudio's thread asks for `length` *)
(* bytes and gets what there is, or silence.  The callback holds the mutex *)
(* three times, to look, to copy and to erase: a section of it is a step.  *)
(*                                                                         *)
(* Bytes are numbered as they arrive, 0 is a byte of silence.  Nobody      *)
(* calls interrupt(), so it is left out.                                   *)
(***************************************************************************)
EXTENDS Integers, Sequences

CONSTANTS MaxBytes,     (* how much audio arrives                          *)
          MaxLength,    (* the most the stream asks for at once            *)
          MaxFailures   (* how many writes to the stream fail              *)

ASSUME PlayerAssumption ==
  MaxBytes \in Nat /\ MaxLength \in Nat \ {0} /\ MaxFailures \in Nat

VARIABLES buffer, received,   (* how many bytes were put into it           *)
          played,             (* what the stream got when there was audio  *)
          wpc,                (* where streamWriteCallback() is            *)
          length, bufferSize, chunk, (* its locals                         *)
          failures

playerVars == <<buffer, received, played, wpc, length, bufferSize, chunk, failures>>
callVars == <<length, bufferSize, chunk>>

PlayerInit == /\ buffer = <<>> /\ received = 0 /\ played = <<>>
              /\ wpc = "out"
              /\ length = 0 /\ bufferSize = 0 /\ chunk = <<>>
              /\ failures = 0

Numbers(m, n) == [i \in 1..(n - m) |-> m + i]
Silence(n) == [i \in 1..n |-> 0]

(* What was waiting is dropped, as interrupt() would.                      *)
WriteInterrupts(n) == /\ received + n =< MaxBytes
                      /\ buffer' = Numbers(received, received + n)
                      /\ received' = received + n
                      /\ UNCHANGED <<played, wpc, callVars, failures>>

(* write(data)                                                             *)
Write(n) == /\ received + n =< MaxBytes
            /\ buffer' = buffer \o Numbers(received, received + n)
            /\ received' = received + n
            /\ UNCHANGED <<played, wpc, callVars, failures>>

chunkSize == IF bufferSize = 0 \/ length < bufferSize THEN length ELSE bufferSize

Look(n) == /\ wpc = "out" /\ wpc' = "copy"
           /\ length' = n
           /\ bufferSize' = Len(buffer)
           /\ UNCHANGED <<buffer, received, played, chunk, failures>>

Copy == /\ wpc = "copy" /\ wpc' = "write"
        /\ chunk' = IF bufferSize > 0 /\ Len(buffer) >= chunkSize
                    THEN SubSeq(buffer, 1, chunkSize) ELSE Silence(chunkSize)
        /\ UNCHANGED <<buffer, received, played, length, bufferSize, failures>>

(* pa_stream_write_ext_free() succeeds or fails.                           *)
StreamWrite == /\ wpc = "write"
               /\ wpc' = IF bufferSize > 0 THEN "erase" ELSE "out"
               /\ played' = IF bufferSize > 0 THEN played \o chunk ELSE played
               /\ UNCHANGED <<buffer, received, callVars, failures>>

StreamWriteFails == /\ failures < MaxFailures
                    /\ wpc = "write" /\ wpc' = "out"
                    /\ failures' = failures + 1
                    /\ UNCHANGED <<buffer, received, played, callVars>>

(* As if it had to go on from the size it has now.                         *)
EraseAsMany == /\ wpc = "erase" /\ wpc' = "out"
               /\ LET n == IF length < Len(buffer) THEN length ELSE Len(buffer)
                  IN  buffer' = SubSeq(buffer, n + 1, Len(buffer))
               /\ UNCHANGED <<received, played, callVars, failures>>

Erase == /\ wpc = "erase" /\ wpc' = "out"
         /\ buffer' = SubSeq(buffer, chunkSize + 1, Len(buffer))
         /\ UNCHANGED <<received, played, callVars, failures>>

WriteCallback == Copy \/ StreamWrite \/ Erase
-----------------------------------------------------------------------------
(* What the callback saw is still there when it copies and when it erases  *)
(* (the else of 137 is not taken, erase() stays within the buffer of 149). *)
StillThere == wpc \in {"copy", "write", "erase"} /\ bufferSize > 0
                => /\ Len(buffer) >= chunkSize
                   /\ wpc # "copy" => chunk = SubSeq(buffer, 1, chunkSize)

(* The stream gets the audio in the order it came, all of it, once,        *)
(* whatever arrives during a callback and whichever writes fail.           *)
InOrder == LET left == IF wpc = "erase" THEN SubSeq(buffer, chunkSize + 1, Len(buffer))
                       ELSE buffer
           IN  played \o left = Numbers(0, received)
=============================================================================
