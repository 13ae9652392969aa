---------------------------- MODULE PooledMemory ----------------------------
(***************************************************************************)
(* PooledMemory over SimMemory (crates/memory-manager/src/lib.rs): buffers   *)
(* in a host and a GPU pool of limited size, with copies between them.       *)
(* A buffer id is an index into two vectors, the pool's sizes and the        *)
(* backend's buffers, which must stay in step; here ids count from 1.  The   *)
(* modelled copy latency is a number and is left out.                        *)
(***************************************************************************)
EXTENDS Integers, Sequences, FiniteSets, FiniteSetsExt

CONSTANTS
  PoolBytes,    \* [Kind -> Nat]: host_pool_bytes and gpu_pool_bytes
  MaxBuffers,   \* cfg.max_buffers
  Byte,         \* byte values; Zero is what a new buffer holds
  Zero,
  MaxSize,      \* bound: the largest size asked for
  MaxAllocs     \* bound: ids ever given out

Kind == {"Host", "Gpu"}

Gone == [kind |-> "none", data |-> << >>]        \* buffers[id] = None
NoSize == [kind |-> "none", size |-> 0]          \* sizes[id] = None

VARIABLES
  buffers,   \* SimMemory.buffers
  sizes,     \* PooledMemory.sizes
  used,      \* host_used and gpu_used
  count,     \* buffer_count
  owner      \* ghost: which ids a client holds, with the contents it expects

vars == <<buffers, sizes, used, count, owner>>

Id == 1 .. Len(buffers)
Live(id) == id \in Id /\ buffers[id] # Gone

Init ==
  /\ buffers = << >> /\ sizes = << >>
  /\ used = [k \in Kind |-> 0]
  /\ count = 0
  /\ owner = [id \in {} |-> << >>]

Zeros(size) == [i \in 1 .. size |-> Zero]

\* The conditions of allocate; PoolExhausted otherwise.
Admits(size, kind) == count < MaxBuffers /\ used[kind] + size <= PoolBytes[kind]

\* Mutated Add: the place of a freed buffer is taken before a new id.
AddReuses(kind, data) ==
  LET gone == {i \in Id : buffers[i] = Gone}
      id   == IF gone = {} THEN Len(buffers) + 1 ELSE Max(gone)
      put(s, x) == IF gone = {} THEN Append(s, x) ELSE [s EXCEPT ![id] = x]
  IN  /\ Len(buffers) < MaxAllocs
      /\ Admits(Len(data), kind)
      /\ buffers' = put(buffers, [kind |-> kind, data |-> data])
      /\ sizes' = put(sizes, [kind |-> kind, size |-> Len(data)])
      /\ used' = [used EXCEPT ![kind] = @ + Len(data)]
      /\ count' = count + 1
      /\ owner' = [i \in DOMAIN owner \cup {id} |-> IF i = id THEN data ELSE owner[i]]
\* allocate with the given initial contents (copy writes before it returns).
Add(kind, data) ==
  /\ Len(buffers) < MaxAllocs
  /\ Admits(Len(data), kind)
  /\ buffers' = Append(buffers, [kind |-> kind, data |-> data])
  /\ sizes' = Append(sizes, [kind |-> kind, size |-> Len(data)])
  /\ used' = [used EXCEPT ![kind] = @ + Len(data)]
  /\ count' = count + 1
  /\ owner' = [id \in DOMAIN owner \cup {Len(buffers) + 1} |->
                 IF id = Len(buffers) + 1 THEN data ELSE owner[id]]

Allocate(size, kind) == Add(kind, Zeros(size))

InBounds(id, offset, len) == offset + len <= Len(buffers[id].data)
Slice(id, offset, len) == SubSeq(buffers[id].data, offset + 1, offset + len)
Overwrite(s, offset, data) ==
  [i \in 1 .. Len(s) |-> IF i \in offset + 1 .. offset + Len(data) THEN data[i - offset] ELSE s[i]]

Write(id, offset, data) ==
  /\ Live(id) /\ InBounds(id, offset, Len(data))
  /\ buffers' = [buffers EXCEPT ![id].data = Overwrite(@, offset, data)]
  /\ owner' = [owner EXCEPT ![id] = Overwrite(@, offset, data)]
  /\ UNCHANGED <<sizes, used, count>>

\* copy: read src, allocate in dst_kind, write.  The source is left alone.
Copy(id, offset, len, kind) ==
  /\ Live(id) /\ InBounds(id, offset, len)
  /\ Add(kind, Slice(id, offset, len))

\* Mutated Free: the id's place is given to the next allocation.
FreeReuses(id) ==
  /\ id \in Id /\ sizes[id] # NoSize
  /\ buffers' = SubSeq(buffers, 1, id - 1) \o SubSeq(buffers, id + 1, Len(buffers))
  /\ sizes' = SubSeq(sizes, 1, id - 1) \o SubSeq(sizes, id + 1, Len(sizes))
  /\ used' = [used EXCEPT ![sizes[id].kind] = @ - sizes[id].size]
  /\ count' = count - 1
  /\ owner' = [i \in DOMAIN owner \ {id} |-> owner[i]]

\* free: NotFound for an id that is unknown or already freed.
Free(id) ==
  /\ id \in Id /\ sizes[id] # NoSize
  /\ Live(id)
  /\ buffers' = [buffers EXCEPT ![id] = Gone]
  /\ sizes' = [sizes EXCEPT ![id] = NoSize]
  /\ used' = [used EXCEPT ![sizes[id].kind] = IF @ >= sizes[id].size THEN @ - sizes[id].size ELSE 0]
  /\ count' = IF count > 0 THEN count - 1 ELSE 0
  /\ owner' = [i \in DOMAIN owner \ {id} |-> owner[i]]

Data == UNION {[1 .. n -> Byte] : n \in 1 .. MaxSize}

Next ==
  \/ \E size \in 0 .. MaxSize, kind \in Kind : Allocate(size, kind)
  \/ \E id \in Id : Free(id)
  \/ \E id \in Id, offset \in 0 .. MaxSize :
       \/ \E data \in Data : Write(id, offset, data)
       \/ \E len \in 0 .. MaxSize, kind \in Kind : Copy(id, offset, len, kind)

Spec == Init /\ [][Next]_vars

-----------------------------------------------------------------------------
(* Properties                                                               *)

\* Type invariant: neither pool is over its size, nor the buffer count over its.
TypeOK ==
  /\ Len(buffers) <= MaxAllocs
  /\ \A k \in Kind : used[k] \in 0 .. PoolBytes[k]
  /\ count \in 0 .. MaxBuffers

\* The bytes of the buffers of a kind, each named by id and place.
Bytes(k) == UNION {{id} \X (1 .. Len(buffers[id].data)) : id \in {i \in Id : buffers[i].kind = k}}

\* The two vectors agree on which ids exist, of which kind and size, and the
\* three counters are exactly what they hold, after any sequence of
\* allocations, copies and frees: a byte that is not given back is gone for good.
Accounting ==
  /\ Len(sizes) = Len(buffers)
  /\ \A id \in Id : sizes[id].kind = buffers[id].kind /\ sizes[id].size = Len(buffers[id].data)
  /\ \A k \in Kind : used[k] = Cardinality(Bytes(k))
  /\ count = Cardinality({id \in Id : Live(id)})

\* A client reads back what it wrote: a held id always denotes the same buffer,
\* and no write, copy or free of another id changes its contents.
Isolation ==
  \A id \in DOMAIN owner : Live(id) /\ buffers[id].data = owner[id]

\* A freed id stays invalid for ever: no later allocation hands it out again, so
\* a stale id is refused and never reaches somebody else's buffer.
IdsNeverReused ==
  [][ \A id \in Id : buffers[id] = Gone => id \in DOMAIN buffers' /\ buffers'[id] = Gone ]_vars
=============================================================================
