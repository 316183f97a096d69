------------------------------- MODULE Tensors -------------------------------
(***************************************************************************)
(* Tensors and the memory behind them (mace/core/tensor.h, buffer.h).      *)
(*                                                                         *)
(* A Tensor points to a buffer object: one of its own, one of the blocks   *)
(* preallocated for the intermediate results of a net, or a slice of the   *)
(* model's weights.  Several tensors may point to one object.  The object  *)
(* in turn has memory, or none if the allocator had none to give.          *)
(*                                                                         *)
(* Sizes are in elements (every tensor is of floats), shapes are height,   *)
(* width and channels of one picture.  What is in a buffer is represented  *)
(* by a term: how it was computed.                                         *)
(***************************************************************************)
EXTENDS Integers, Sequences

CONSTANTS
  Name,      \* of tensors
  Block,     \* mem_ids of the memory arena
  Pad,       \* MACE_EXTRA_BUFFER_PAD_SIZE
  Faults     \* {"alloc"} if allocations may fail

ASSUME TensorsAssumption == Pad \in Nat /\ Faults \subseteq {"alloc"}

VARIABLES tensors, buffers

(* The buffer objects, by what they belong to.                             *)
Own(n)   == [of |-> "tensor", id |-> n]
Slice(n) == [of |-> "slice", id |-> n]
Pool(m)  == [of |-> "pool", id |-> m]
Weights  == [of |-> "model", id |-> "weights"]
Null     == [of |-> "none", id |-> "none"]

BufferId == {Own(n) : n \in Name} \cup {Slice(n) : n \in Name}
              \cup {Pool(m) : m \in Block} \cup {Weights}

Elements(s)   == s[1] * s[2] * s[3]
ImageShape(s) == <<((s[3] + 3) \div 4) * s[2], s[1]>>
NoShape       == <<0, 0, 0>>

Fresh   == <<"fresh">>          \* memory nobody has written
Garbage == <<"garbage">>        \* memory that is not ours any more

NoBuffer == [state |-> "none", image |-> FALSE, size |-> 0, phys |-> <<0, 0>>,
             mem |-> FALSE, gen |-> 0, val |-> Fresh]
NoTensor == [state |-> "none", buffer |-> Null, owner |-> FALSE,
             shape |-> NoShape, unused |-> FALSE]

NoMemoryYet ==
  /\ tensors = [n \in Name |-> NoTensor]
  /\ buffers = [b \in BufferId |-> NoBuffer]

-----------------------------------------------------------------------------
(* Whether the allocator finds memory.                                     *)
Grant == IF "alloc" \in Faults THEN BOOLEAN ELSE {TRUE}

(* Buffer::Allocate and Resize: size_ is set before memory is asked for.   *)
(* gen counts the memory objects the buffer has had.                       *)
Allocated(old, size, got) ==
  [state |-> "live", image |-> FALSE, size |-> size, phys |-> <<0, 0>>,
   mem |-> got, gen |-> old.gen + 1, val |-> Fresh]

(* Image::Allocate; size_ counts pixels, of four channels each.            *)
AllocatedImage(old, phys, got) ==
  [state |-> "live", image |-> TRUE, size |-> phys[1] * phys[2], phys |-> phys,
   mem |-> got, gen |-> old.gen + 1, val |-> Fresh]

(* A tensor that has no buffer and will make its own.                      *)
NewTensor == [NoTensor EXCEPT !.state = "live", !.owner = TRUE]

(* A tensor for memory that belongs to somebody else.                      *)
TensorOn(b, shape) == [NoTensor EXCEPT !.state = "live", !.buffer = b, !.shape = shape]

HasImage(n) == tensors[n].buffer # Null /\ buffers[tensors[n].buffer].image

(* The memory is there and has not been given back.                        *)
Usable(b) ==
  /\ b # Null /\ buffers[b].state = "live" /\ buffers[b].mem
  /\ b.of = "slice" => buffers[Weights].state = "live"

Content(b) == IF Usable(b) THEN buffers[b].val ELSE Garbage

(* Tensor::Resize; r says how it ends: "ok", "oom" (the status             *)
(* MACE_OUT_OF_RESOURCES) or "fatal" (a MACE_CHECK ends the process).      *)
Resize(n, shape, r) ==
  LET t    == tensors[n]
      need == Elements(shape) + Pad
      to(b) == [tensors EXCEPT ![n].shape = shape, ![n].buffer = b]
  IN
  \/ /\ t.buffer = Null /\ t.owner
     /\ \E got \in Grant :
          /\ buffers' = [buffers EXCEPT ![Own(n)] = Allocated(@, need, got)]
          /\ r = IF got THEN "ok" ELSE "oom"
     /\ tensors' = to(Own(n))
  \/ /\ t.buffer # Null /\ ~HasImage(n)
     /\ need <= buffers[t.buffer].size
     /\ tensors' = to(t.buffer)
     /\ r = "ok" /\ UNCHANGED buffers
  \/ /\ t.buffer # Null /\ ~HasImage(n) /\ t.buffer.of # "slice"
     /\ need > buffers[t.buffer].size
     /\ \E got \in Grant :
          /\ buffers' = [buffers EXCEPT ![t.buffer] = Allocated(@, need, got)]
          /\ r = IF got THEN "ok" ELSE "oom"
     /\ tensors' = to(t.buffer)
  \/ /\ \/ t.buffer = Null /\ ~t.owner
        \/ HasImage(n)
        \/ t.buffer.of = "slice" /\ need > buffers[t.buffer].size
     /\ r = "fatal" /\ UNCHANGED <<tensors, buffers>>

(* Bug: an image must be exactly as large as the tensor.                   *)
BugResizeImageExact(n, shape, r) ==
  LET t == tensors[n]
      to(b) == [tensors EXCEPT ![n].shape = shape, ![n].buffer = b]
  IN
  \/ /\ t.buffer = Null /\ t.owner
     /\ \E got \in Grant :
          /\ buffers' = [buffers EXCEPT
                           ![Own(n)] = AllocatedImage(@, ImageShape(shape), got)]
          /\ r = IF got THEN "ok" ELSE "oom"
     /\ tensors' = to(Own(n))
  \/ /\ t.buffer # Null
     /\ r = IF ImageShape(shape) = buffers[t.buffer].phys THEN "ok" ELSE "fatal"
     /\ tensors' = to(t.buffer)
     /\ UNCHANGED buffers

(* Tensor::ResizeImage: an image that exists is never made larger.         *)
ResizeImage(n, shape, r) ==
  LET t    == tensors[n]
      i    == ImageShape(shape)
      to(b) == [tensors EXCEPT ![n].shape = shape, ![n].buffer = b]
  IN
  \/ /\ t.buffer = Null /\ t.owner
     /\ \E got \in Grant :
          /\ buffers' = [buffers EXCEPT ![Own(n)] = AllocatedImage(@, i, got)]
          /\ r = IF got THEN "ok" ELSE "oom"
     /\ tensors' = to(Own(n))
  \/ /\ HasImage(n)
     /\ LET p == buffers[t.buffer].phys IN
          r = IF i[1] <= p[1] /\ i[2] <= p[2] THEN "ok" ELSE "fatal"
     /\ tensors' = to(t.buffer)
     /\ UNCHANGED buffers
  \/ /\ \/ t.buffer = Null /\ ~t.owner
        \/ t.buffer # Null /\ ~HasImage(n)
     /\ r = "fatal" /\ UNCHANGED <<tensors, buffers>>

(* Bug: the tensor's own image is thrown away each time.                   *)
BugResizeLikeAnew(n, m, r) ==
  LET shape == tensors[m].shape IN
  \/ /\ HasImage(m) /\ tensors[n].owner
     /\ \E got \in Grant :
          /\ buffers' = [buffers EXCEPT
                           ![Own(n)] = AllocatedImage(@, ImageShape(shape), got)]
          /\ r = IF got THEN "ok" ELSE "oom"
     /\ tensors' = [tensors EXCEPT ![n].shape = shape, ![n].buffer = Own(n)]
  \/ HasImage(m) /\ ~tensors[n].owner /\ ResizeImage(n, shape, r)
  \/ ~HasImage(m) /\ Resize(n, shape, r)

(* Tensor::ResizeLike: same shape and same kind of memory as m.  (A tensor *)
(* whose own memory is of the other kind would first drop it; in a net the *)
(* kind of an operator's output never changes.)                            *)
ResizeLike(n, m, r) ==
  \/ HasImage(m) /\ ResizeImage(n, tensors[m].shape, r)
  \/ ~HasImage(m) /\ Resize(n, tensors[m].shape, r)

(* Bug: the borrower believes the memory its own.                          *)
BugAliased(n, m) == [tensors EXCEPT ![n].buffer = tensors[m].buffer,
                                    ![n].owner = TRUE,
                                    ![n].shape = tensors[m].shape]

(* Tensor::ReuseTensorBuffer: n becomes another name of m's memory, and    *)
(* its own, if it has any, is deleted.                                     *)
Aliased(n, m) == [tensors EXCEPT ![n].buffer = tensors[m].buffer,
                                 ![n].owner = FALSE,
                                 ![n].shape = tensors[m].shape]
WithoutOwn(n) ==
  IF tensors[n].owner /\ tensors[n].buffer # Null
  THEN [buffers EXCEPT ![Own(n)].state = "freed"] ELSE buffers

(* The check of Tensor::Reshape.                                           *)
MayReshape(m, shape) == Elements(shape) <= buffers[tensors[m].buffer].size

(* A mapping guard needs memory to map, and Map dies on a buffer, or on a  *)
(* slice, that another guard has mapped: what is mapped at once is         *)
(* different objects.                                                      *)
MapsTogether(ns) ==
  LET b(i) == tensors[ns[i]].buffer IN
  /\ \A i \in DOMAIN ns : b(i) # Null /\ buffers[b(i)].mem
  /\ \A i, j \in DOMAIN ns : i # j => b(i) # b(j)
=============================================================================
