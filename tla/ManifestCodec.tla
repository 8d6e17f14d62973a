---------------------------- MODULE ManifestCodec ----------------------------
(***************************************************************************)
(* ManifestChangeEdit::EncodeTo and DecodeTo                               *)
(* (src/src/manifest/manifest_change_edit.cpp): the bytes of a manifest    *)
(* file.  Every batch of changes is appended as its number of records and  *)
(* the records; a crash leaves the beginning of the batch that was being   *)
(* written, and the next process appends behind it.                        *)
(***************************************************************************)
EXTENDS Codec

CONSTANTS TableIds, Levels,  \* the integers of a record
          BatchSizes,        \* the numbers of changes saved at a time
          MaxBatches         \* bound on the batches in a file

\* Without a change nothing is written, and what is written is no batch.
ASSUME BatchesAssumption ==
    /\ \A id \in TableIds : id \subseteq Below(64)
    /\ \A level \in Levels : level \subseteq Below(32)
    /\ \A n \in BatchSizes : n \in Nat \ {0} /\ Word[n] \subseteq Below(32)

VARIABLES manifest_file,  \* its bytes
          batches,        \* the batches written, in order
          torn            \* the batches of which a crash left only a part
manifest_vars == <<manifest_file, batches, torn>>

kCreate == {}
kDelete == {0}
ManifestChanges ==
    [id : TableIds, level : Levels, manifest_change_type : {kCreate, kDelete}]

-----------------------------------------------------------------------------
(* EncodeTo                                                                *)

EncodeRecord(item) ==
    EncodeVarint64(item.id) \o EncodeVarint32(item.level)
        \o EncodeVarint32(item.manifest_change_type)

\* What is in out after i records.
EncodeTo(changes) ==
    LET out[i \in 0 .. Len(changes)] ==
            IF i > 0 THEN out[i - 1] \o EncodeRecord(changes[i])
            ELSE IF changes = <<>> THEN <<>> ELSE EncodeVarint32(Word[Len(changes)])
    IN  out[Len(changes)]

-----------------------------------------------------------------------------
(* DecodeTo                                                                *)

\* Mutant: a record is kept once its id and its level were read.
KeepWithoutType(id, level, type) == level.ok

KeepRecord(id, level, type) == type.ok

\* One turn of the loop, on the rest of the input and the changes so far.  A
\* field that is refused leaves what the fields before it consumed consumed,
\* and the loop goes on.
DecodeRecord(state) ==
    LET id    == GetVarint64(state.st)
        level == IF id.ok THEN GetVarint32(id.rest) ELSE id
        type  == IF level.ok THEN GetVarint32(level.rest) ELSE level
    IN  [st |-> type.rest,
         changes |-> IF KeepRecord(id, level, type)
                     THEN Append(state.changes,
                                 [id |-> id.value, level |-> level.value,
                                  manifest_change_type |-> IF type.ok THEN type.value ELSE kCreate])
                     ELSE state.changes]

\* Mutant: the records go on to the end of the input.
ToTheEnd(count) == Len(count.rest)

\* How often the loop turns: record_size times, and not at all when there is
\* no record_size.  Turns beyond the number of bytes find the input empty.
Turns(count) ==
    IF ~ count.ok THEN 0
    ELSE Min({n \in 0 .. Len(count.rest) : Word[n] = count.value} \cup {Len(count.rest)})

DecodeTo(bytes) ==
    LET count == GetVarint32(bytes)
        state[index \in 0 .. Turns(count)] ==
            IF index > 0 THEN DecodeRecord(state[index - 1])
            ELSE [st |-> count.rest, changes |-> <<>>]
    IN  state[Turns(count)].changes

-----------------------------------------------------------------------------
(* The file                                                                *)

ManifestInit == manifest_file = <<>> /\ batches = <<>> /\ torn = {}

\* A batch is written whole, or up to the crash of the process.
SaveChanges(changes, length) ==
    /\ Len(batches) < MaxBatches
    /\ manifest_file' = manifest_file \o SubSeq(EncodeTo(changes), 1, length)
    /\ batches' = Append(batches, changes)
    /\ torn' = IF length < Len(EncodeTo(changes)) THEN torn \cup {Len(batches')} ELSE torn

ManifestNext ==
    \E n \in BatchSizes : \E changes \in [1 .. n -> ManifestChanges] :
        \E length \in 0 .. Len(EncodeTo(changes)) : SaveChanges(changes, length)

ManifestCodecSpec == ManifestInit /\ [][ManifestNext]_manifest_vars

-----------------------------------------------------------------------------
(* Properties *)

\* Of a file that begins with a whole batch DecodeTo returns that batch,
\* whatever follows: other batches, torn or not.
FirstBatchIsDecoded ==
    batches # <<>> /\ 1 \notin torn => DecodeTo(manifest_file) = batches[1]

\* Of a batch that a crash has torn, at the end of the file, it returns the
\* records that are complete, and nothing that was not written.  Once the next
\* process has appended behind a torn first batch this is no longer so.
TornBatchIsPrefix ==
    torn = {1} /\ Len(batches) = 1 => IsPrefix(DecodeTo(manifest_file), batches[1])

\* DecodeTo returns what there is of the first batch of a file.
DecodesFirstBatch == FirstBatchIsDecoded /\ TornBatchIsPrefix
=============================================================================
