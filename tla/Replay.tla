------------------------------- MODULE Replay -------------------------------
(***************************************************************************)
(* StreamRecorder and StreamReplayer (include/replay/recorder.hpp and      *)
(* replayer.hpp): a recording is a header and fixed-size records.          *)
(*                                                                         *)
(* The recorder writes through the buffer of an ofstream, so the file may  *)
(* end anywhere in what was written when the process dies or the disk is   *)
(* full; a replayer may open the file at any time, also while it grows.    *)
(* The file is a prefix of what was written and is modelled by its length, *)
(* in units of half a record (or header); the storage under it may damage  *)
(* one byte of one record.                                                 *)
(***************************************************************************)
EXTENDS Integers, Sequences, RecordFormat

CONSTANTS Foreign,      \* the file may also be one that is no recording of ours
          DamagedBytes, \* the offsets, from 1, of the bytes that may be damaged
          MaxRecords    \* bound: messages recorded

ASSUME RecordAssumption ==
    /\ MaxRecords \in Nat /\ Foreign \subseteq {"magic", "version"}
    /\ DamagedBytes \subseteq 1..kRecordBytes

VARIABLES
    recorder,   \* the recorder: "none", "open", "failed", "closed" or "dead"
    recorded,   \* the messages written, count_ of them
    damage,     \* the record and the byte that the storage damaged, if any
    length,     \* how much of the header and the records is in the file
    header,     \* "ours", or what is wrong with the header of a foreign file
    rpc,        \* the replayer: "none", "reading" or "ended"
    status_,    \* the replayer's status
    position,   \* how much of the file it has read
    replayed,   \* the messages next() returned
    truncated_

recorderVars == <<recorder, recorded, damage, length, header>>
replayerVars == <<rpc, status_, position, replayed, truncated_>>
streamVars == <<recorderVars, replayerVars>>

-----------------------------------------------------------------------------
\* The messages that are recorded: the ends of each field's range.
Recordable ==
    {[stream_id |-> Max32 - 1, ts_ns |-> -1, value |-> 27030, seq |-> Max64 - 1],
     [stream_id |-> 1, ts_ns |-> -(Max64 \div 2), value |-> 0, seq |-> 256]}

count_ == Len(recorded)
None == <<0, 0>>   \* no damage

kHeaderSize == 2
kRecordSize == 2

\* The size of the header and n records.
Size(n) == kHeaderSize + n * kRecordSize

ReplayInit ==
    /\ recorder = "none" /\ recorded = << >> /\ damage = None /\ length = 0 /\ header = "ours"
    /\ rpc = "none" /\ status_ = "kFileNotFound"
    /\ position = 0 /\ replayed = << >> /\ truncated_ = FALSE

-----------------------------------------------------------------------------
(* The recorder.                                                           *)

\* StreamRecorder(): the file is truncated and the header written to the
\* buffer, unless the file cannot be opened.
Open ==
    /\ recorder = "none"
    /\ recorder' \in {"open", "failed"}
    /\ UNCHANGED <<recorded, damage, length, header, replayerVars>>

\* write(): into the buffer.  The buffer may then reach the file.
Write ==
    /\ recorder = "open"
    /\ count_ < MaxRecords
    /\ \E m \in Recordable : recorded' = Append(recorded, m)
    /\ UNCHANGED <<recorder, damage, length, header, replayerVars>>

\* Some of the buffer reaches the file, up to any byte of it.
Spill ==
    /\ recorder = "open"
    /\ length' \in (length + 1)..Size(count_)
    /\ UNCHANGED <<recorder, recorded, damage, header, replayerVars>>

\* close(), or the destructor: the rest is flushed.
Close ==
    /\ recorder = "open"
    /\ length' = Size(count_)
    /\ recorder' = "closed"
    /\ UNCHANGED <<recorded, damage, header, replayerVars>>

\* The process dies, or the disk is full: what was not flushed is lost.
Die ==
    /\ recorder = "open"
    /\ recorder' = "dead"
    /\ UNCHANGED <<recorded, damage, length, header, replayerVars>>

\* Not a recorder's file at all.
ForeignFile ==
    /\ recorder = "none"
    /\ header' \in Foreign
    /\ length' = Size(1)
    /\ recorder' = "closed"
    /\ UNCHANGED <<recorded, damage, replayerVars>>

\* The storage changes a byte of a record that is in the file.
Damage(n, at) ==
    /\ recorder = "closed" /\ damage = None /\ rpc = "none"
    /\ n <= count_
    /\ damage' = <<n, at>>
    /\ UNCHANGED <<recorder, recorded, length, header, replayerVars>>

-----------------------------------------------------------------------------
(* The replayer.                                                           *)

HasFile == recorder \notin {"none", "failed"}

\* What StreamReplayer() makes of the first kHeaderSize bytes.
HeaderStatus ==
    CASE ~HasFile -> "kFileNotFound"
      [] HasFile /\ (length < kHeaderSize \/ header = "magic") -> "kBadMagic"
      [] HasFile /\ length >= kHeaderSize /\ header = "version" -> "kUnsupportedVersion"
      [] OTHER -> "kOk"

OpenReplay ==
    /\ rpc = "none"
    /\ status_' = HeaderStatus
    /\ rpc' = IF HeaderStatus = "kOk" THEN "reading" ELSE "ended"
    /\ position' = IF HeaderStatus = "kOk" THEN kHeaderSize ELSE 0
    /\ UNCHANGED <<recorderVars, replayed, truncated_>>

\* The bytes of the record that starts at offset k.
RecordAt(k) ==
    LET n == (k - kHeaderSize) \div kRecordSize + 1
    IN  [i \in 1..kRecordBytes |->
            IF damage = <<n, i>> THEN (EncodeRecord(recorded[n])[i] + 1) % Byte
            ELSE EncodeRecord(recorded[n])[i]]

\* next(): a whole record.
NextRecord ==
    /\ rpc = "reading"
    /\ length - position >= kRecordSize
    /\ replayed' = Append(replayed, DecodeRecord(RecordAt(position)))
    /\ position' = position + kRecordSize
    /\ UNCHANGED <<recorderVars, rpc, status_, truncated_>>

NextEndSilent ==
    /\ rpc = "reading"
    /\ length - position < kRecordSize
    /\ position' = length
    /\ rpc' = "ended"
    /\ UNCHANGED <<recorderVars, status_, replayed, truncated_>>

\* next(): less than a record is left; the stream is at its end for good.
NextEnd ==
    /\ rpc = "reading"
    /\ length - position < kRecordSize
    /\ truncated_' = (length > position)
    /\ position' = length
    /\ rpc' = "ended"
    /\ UNCHANGED <<recorderVars, status_, replayed>>

ReplayNext ==
    \/ Open \/ Write \/ Spill \/ Close \/ Die \/ ForeignFile
    \/ \E n \in 1..MaxRecords, at \in DamagedBytes : Damage(n, at)
    \/ OpenReplay \/ NextRecord \/ NextEnd

ReplaySpec == ReplayInit /\ [][ReplayNext]_streamVars

-----------------------------------------------------------------------------
(* Properties.                                                             *)

\* Every variable keeps its type; the replayer reads only what is there.
ReplayTypeOK ==
    /\ recorder \in {"none", "open", "failed", "closed", "dead"}
    /\ recorded \in Seq(Recordable) /\ count_ <= MaxRecords
    /\ damage \in {None} \cup (1..MaxRecords) \X (1..kRecordBytes)
    /\ length \in 0..Size(MaxRecords + 1)
    /\ header \in {"ours"} \cup Foreign
    /\ rpc \in {"none", "reading", "ended"}
    /\ status_ \in {"kOk", "kFileNotFound", "kBadMagic", "kUnsupportedVersion"}
    /\ position \in 0..length
    /\ Len(replayed) <= MaxRecords
    /\ truncated_ \in BOOLEAN

\* A replay is the beginning of the recording, every field of every message
\* back as it was, and ends before the first message that is not wholly in the
\* file: a torn record is never returned, and nothing is returned from a file
\* that is no recording.
ReplayIsPrefix ==
    /\ replayed # << >> => header = "ours" /\ Len(replayed) <= count_
    /\ damage = None => \A i \in 1..Len(replayed) : replayed[i] = recorded[i]
    /\ status_ = "kOk" => Size(Len(replayed)) <= length

\* The checksum sees a damaged byte of any field, however many messages follow
\* it, and does not see one of the padding, which is no content.
ChecksumSeesDamage ==
    (rpc = "ended" /\ replayed # << >> /\ Len(replayed) = count_) =>
        (Digest(replayed) = Digest(recorded) <=> damage[2] \notin (1..4 \cup 9..32))

\* A replay that ends says why: it is marked truncated exactly when it stopped
\* within a record, and one that read a recording to the end without that mark
\* after it was closed has replayed every message the recorder counted.
EndIsExplained ==
    (rpc = "ended" /\ status_ = "kOk") =>
        /\ truncated_ <=> position > Size(Len(replayed))
        /\ (recorder = "closed" /\ position = length) => Len(replayed) = count_ /\ ~truncated_
        /\ ~truncated_ => position = Size(Len(replayed))

\* A replay can be trusted, whenever the recording was cut off or read: what it
\* returned was recorded (ReplayIsPrefix), how it ended says what is missing
\* (EndIsExplained), and its checksum says whether it is the recording
\* (ChecksumSeesDamage).
ReplayIsFaithful == ReplayTypeOK /\ ReplayIsPrefix /\ EndIsExplained /\ ChecksumSeesDamage
=============================================================================
