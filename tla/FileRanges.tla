----------------------------- MODULE FileRanges ----------------------------
(***************************************************************************)
(* The byte arithmetic of reads and writes: a file as a list of chunks or  *)
(* of shards of chunks (facade.rs), the ranges that a cache may answer     *)
(* with (e2v-vfs), and the bytes a handle holds before they are flushed    *)
(* (windows.rs).  Offsets count from 0, as in the code.                    *)
(***************************************************************************)
EXTENDS Integers, Sequences

CONSTANTS Data,              \* the payload of each chunk
          ChunksOf,          \* the chunks of each file object
          MaxChunksPerObject \* a file object with more lists shards instead

ASSUME RangesAssumption ==
  /\ \A c \in DOMAIN Data : Data[c] \in Seq(Nat) /\ Data[c] # << >>
  /\ \A f \in DOMAIN ChunksOf : ChunksOf[f] \in Seq(DOMAIN Data)
  /\ MaxChunksPerObject \in Nat \ {0}

Least(a, b) == IF a <= b THEN a ELSE b
Monus(a, b) == IF a <= b THEN 0 ELSE a - b

\* bytes[from..to] of the code.
Slice(bytes, from, to) == SubSeq(bytes, from + 1, to)

\* At most length bytes from offset on: short at the end of the file.
Requested(bytes, offset, length) == Slice(bytes, offset, Least(offset + length, Len(bytes)))

\* Numbers added up, and sequences put one after the other.
Total(numbers) ==
  LET sum[n \in 0..Len(numbers)] == IF n = 0 THEN 0 ELSE sum[n - 1] + numbers[n]
  IN sum[Len(numbers)]

Joined(parts) ==
  LET joined[n \in 0..Len(parts)] == IF n = 0 THEN << >> ELSE joined[n - 1] \o parts[n]
  IN joined[Len(parts)]

Length(chunk) == Len(Data[chunk])
Content(f) == Joined([i \in 1..Len(ChunksOf[f]) |-> Data[ChunksOf[f][i]]])
FileSize(f) == Len(Content(f))

ByteLength(chunks) == Total([i \in 1..Len(chunks) |-> Length(chunks[i])])

\* The shards of a long file.
Shards(chunks) ==
  [i \in 1..((Len(chunks) + MaxChunksPerObject - 1) \div MaxChunksPerObject) |->
     SubSeq(chunks, (i - 1) * MaxChunksPerObject + 1,
            Least(i * MaxChunksPerObject, Len(chunks)))]

(***************************************************************************)
(* append_requested_bytes_from_chunks.  acc: the output, where the next    *)
(* chunk starts, and the chunks read so far.                               *)
(***************************************************************************)
AppendChunk(acc, c, offset, end) ==
  LET stop == acc.start + Length(c)
  IN IF Len(acc.output) >= end - offset THEN acc
     ELSE IF stop <= offset THEN [acc EXCEPT !.start = stop]
     ELSE IF acc.start >= end THEN acc
     ELSE [output |-> acc.output \o Slice(Data[c], Monus(offset, acc.start),
                                          Least(end - acc.start, Length(c))),
           start |-> stop, read |-> Append(acc.read, c)]

AppendChunks(acc, chunks, offset, end) ==
  LET after[n \in 0..Len(chunks)] ==
        IF n = 0 THEN acc ELSE AppendChunk(after[n - 1], chunks[n], offset, end)
  IN after[Len(chunks)]

\* Mutant: a skipped shard does not move the start of the next chunk.
AppendShard_restarts(acc, shard, offset, end) ==
  LET stop == acc.shard + ByteLength(shard)
  IN IF Len(acc.bytes.output) >= end - offset \/ (stop > offset /\ acc.shard >= end) THEN acc
     ELSE IF stop <= offset THEN [acc EXCEPT !.shard = stop]
     ELSE [bytes |-> AppendChunks(acc.bytes, shard, offset, end), shard |-> stop]

\* One shard: skipped without being read when it ends before the range.
AppendShard(acc, shard, offset, end) ==
  LET stop == acc.shard + ByteLength(shard)
  IN IF Len(acc.bytes.output) >= end - offset \/ (stop > offset /\ acc.shard >= end) THEN acc
     ELSE IF stop <= offset THEN [bytes |-> [acc.bytes EXCEPT !.start = stop], shard |-> stop]
     ELSE [bytes |-> AppendChunks(acc.bytes, shard, offset, end), shard |-> stop]

AppendShards(acc, shards, offset, end) ==
  LET after[n \in 0..Len(shards)] ==
        IF n = 0 THEN acc ELSE AppendShard(after[n - 1], shards[n], offset, end)
  IN after[Len(shards)]

\* ReadService::read_range: the bytes, and the chunks they are read from.
ReadRange(f, offset, length) ==
  LET end == Least(offset + length, FileSize(f))
      none == [output |-> << >>, start |-> 0, read |-> << >>]
  IN IF offset = end THEN none
     ELSE IF Len(ChunksOf[f]) <= MaxChunksPerObject
          THEN AppendChunks(none, ChunksOf[f], offset, end)
          ELSE AppendShards([bytes |-> none, shard |-> 0], Shards(ChunksOf[f]), offset, end).bytes

(***************************************************************************)
(* Caches.  A range is [offset, bytes]; a cache of one is a set with at    *)
(* most one member, and an answer is a set with at most one.               *)
(***************************************************************************)
RangeEnd(r) == r.offset + Len(r.bytes)

\* OpenedFile::cached_range_bytes: a range that ends with the file also
\* answers requests that reach past it.
MayAnswer(r, size, offset, length) ==
  /\ r.offset <= offset /\ offset - r.offset <= Len(r.bytes)
  /\ offset + length <= RangeEnd(r) \/ RangeEnd(r) = size

CachedRangeBytes(cache, size, offset, length) ==
  {Requested(r.bytes, offset - r.offset, length) :
     r \in {x \in cache : MayAnswer(x, size, offset, length)}}

\* EncryptedRangeCache::read_covering_range wants the whole request.
Covers(r, offset, length) == r.offset <= offset /\ RangeEnd(r) >= offset + length

(***************************************************************************)
(* The pending bytes of a handle (resize_handle_bytes, write_handle_bytes) *)
(***************************************************************************)
Resize(bytes, size) == [i \in 1..size |-> IF i <= Len(bytes) THEN bytes[i] ELSE 0]

WriteBytes(bytes, offset, data) ==
  LET padded == IF offset + Len(data) > Len(bytes) THEN Resize(bytes, offset + Len(data)) ELSE bytes
  IN [i \in DOMAIN padded |->
        IF i \in (offset + 1)..(offset + Len(data)) THEN data[i - offset] ELSE padded[i]]

\* An edit: [kind, offset, bytes]; an append starts at the end, a resize has
\* its size in offset.
ApplyEdit(bytes, edit) ==
  IF edit.kind = "resize" THEN Resize(bytes, edit.offset)
  ELSE WriteBytes(bytes, IF edit.kind = "append" THEN Len(bytes) ELSE edit.offset, edit.bytes)

============================================================================
