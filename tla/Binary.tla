-------------------------------- MODULE Binary --------------------------------
(***************************************************************************)
(* Array buffers and the views over them, on two engines: how long a       *)
(* buffer may be, which views may be made over it, what a view is said to  *)
(* be of, and how many bytes a copy-out writes.                            *)
(*                                                                         *)
(* Pure operators over a size_t of WordBits bits, so that an offset or a   *)
(* length that overflows when it is multiplied is one of the inputs.  TLC  *)
(* evaluates the ASSUMEs with the runs of MCScripts.                       *)
(***************************************************************************)
LOCAL INSTANCE Integers
LOCAL INSTANCE Sequences
LOCAL INSTANCE SequencesExt
LOCAL INSTANCE FiniteSetsExt

WordBits == 5                                   \* 64 in the code
SizeT == 0 .. (2 ^ WordBits) - 1
Wrapped(n) == n % (2 ^ WordBits)                \* size_t arithmetic
Signed(n) == IF n < 2 ^ (WordBits - 1) THEN n ELSE n - 2 ^ WordBits
Fewer(a, b) == Min({a, b})

NoView == [made |-> FALSE]

-----------------------------------------------------------------------------
(* Element types.                                                          *)

ElementTypes == {"Int8", "Uint8", "Uint8Clamped", "Int16", "Uint16", "Float16", "Int32", "Uint32",
                 "Float32", "Float64", "BigInt64", "BigUint64"}

ElementSize(type) ==
  CASE type \in {"Int8", "Uint8", "Uint8Clamped"} -> 1
    [] type \in {"Int16", "Uint16", "Float16"} -> 2
    [] type \in {"Int32", "Uint32", "Float32"} -> 4
    [] type \in {"Float64", "BigInt64", "BigUint64"} -> 8
    [] OTHER -> 0

\* SpiderMonkey's own type codes: these, and some an ElementType never names.
Scalars == ElementTypes \cup {"Int64", "Simd128", "MaxTypedArrayViewType"}
ToScalarType(type) == IF type \in ElementTypes \ {"Float64"} THEN type ELSE "Float64"
FromScalarType(scalar) == IF scalar \in ElementTypes THEN scalar ELSE "Float64"

\* V8 makes a view by its class and asks which class it is, one at a time,
\* with Float64 left for last.
V8ViewClass(type) == type
V8TypedArrayElementType(class) ==
  LET asked == <<"Int8", "Uint8", "Uint8Clamped", "Int16", "Uint16", "Int32", "Uint32", "Float32",
                 "BigInt64", "BigUint64", "Float16">>
  IN IF class \in ToSet(asked) THEN class ELSE "Float64"

\* A view is of the element type it was made with, on either engine.
ASSUME ElementTypeComesBack ==
  \A type \in ElementTypes : /\ FromScalarType(ToScalarType(type)) = type
                             /\ V8TypedArrayElementType(V8ViewClass(type)) = type
                             /\ ElementSize(type) > 0

-----------------------------------------------------------------------------
(* Buffers.  A buffer is its bytes and whether it has been detached, which *)
(* leaves it none; kMaxByteLength is the engine's (external) ceiling.      *)

kMaxByteLength == 12
Zeros(n) == [i \in 1 .. n |-> 0]
Bytes(n) == [i \in 1 .. n |-> i]                \* told apart by their place
Detached == [bytes |-> <<>>, detached |-> TRUE]
BufferOf(bytes) == [bytes |-> bytes, detached |-> FALSE]

\* V8 is fatal about a length past its ceiling, so the backend asks first;
\* SpiderMonkey throws, and the backend clears what it threw.
V8MakeArrayBuffer(bytes, byteLength) ==
  IF byteLength > kMaxByteLength THEN Detached
  ELSE BufferOf(bytes \o Zeros(byteLength - Len(bytes)))

SMMakeArrayBuffer(bytes, byteLength) ==
  LET count == Fewer(Len(bytes), byteLength)
  IN IF byteLength > kMaxByteLength THEN Detached
     ELSE BufferOf(SubSeq(bytes, 1, count) \o Zeros(byteLength - count))

\* Both backends make the same buffer: the bytes given and then zeros, of the
\* length asked for, or none.  (bytes longer than byteLength is asserted away.)
ASSUME BuffersAgree ==
  \A byteLength \in SizeT : \A given \in 0 .. Fewer(byteLength, 3) :
    LET made == V8MakeArrayBuffer(Bytes(given), byteLength)
    IN /\ made = SMMakeArrayBuffer(Bytes(given), byteLength)
       /\ made # Detached => Len(made.bytes) = byteLength /\ IsPrefix(Bytes(given), made.bytes)

-----------------------------------------------------------------------------
(* Views.                                                                  *)

\* The check both backends make before the engine is asked: the length in
\* elements must not overflow as bytes, and the bytes must be in the buffer.
OutOfRange(size, byteLength, byteOffset, length) ==
  \/ size = 0
  \/ length > (2 ^ WordBits - 1) \div size
  \/ byteOffset > byteLength
  \/ Wrapped(length * size) > Wrapped(byteLength - byteOffset)

View(type, buffer, byteOffset, byteLength) ==
  [made |-> TRUE, type |-> type, buffer |-> buffer, offset |-> byteOffset, length |-> byteLength]

\* The engines' own constructors (external).  V8 fails a CHECK, and the
\* process with it, on what it was not promised; SpiderMonkey throws, and
\* takes a negative length to mean "to the end of the buffer".
FitsEngine(type, buffer, byteOffset, bytes) ==
  /\ ~buffer.detached
  /\ byteOffset % ElementSize(type) = 0
  /\ byteOffset + bytes <= Len(buffer.bytes)
V8EngineView(type, buffer, byteOffset, length) ==
  IF FitsEngine(type, buffer, byteOffset, length * ElementSize(type))
  THEN View(type, buffer, byteOffset, length * ElementSize(type))
  ELSE [made |-> "the process ended"]
SMEngineView(type, buffer, byteOffset, count) ==
  LET bytes == IF count < 0 THEN Len(buffer.bytes) - byteOffset ELSE count * ElementSize(type)
  IN IF FitsEngine(type, buffer, byteOffset, bytes) THEN View(type, buffer, byteOffset, bytes) ELSE NoView

V8MakeTypedArray(type, buffer, byteOffset, length) ==
  LET size == ElementSize(type)
  IN IF \/ OutOfRange(size, Len(buffer.bytes), byteOffset, length)
        \/ byteOffset % size # 0
        \/ buffer.detached
     THEN NoView ELSE V8EngineView(type, buffer, byteOffset, length)

SMMakeTypedArray(type, buffer, byteOffset, length) ==
  IF OutOfRange(ElementSize(type), Len(buffer.bytes), byteOffset, length) THEN NoView
  ELSE SMEngineView(ToScalarType(type), buffer, byteOffset, Signed(length))

V8MakeDataView(buffer, byteOffset, byteLength) ==
  IF \/ buffer.detached
     \/ byteOffset > Len(buffer.bytes)
     \/ byteLength > Wrapped(Len(buffer.bytes) - byteOffset)
  THEN NoView ELSE View("DataView", buffer, byteOffset, byteLength)

SMMakeDataView(buffer, byteOffset, byteLength) ==
  IF buffer.detached THEN NoView
  ELSE LET available == Len(buffer.bytes)
       IN IF byteOffset > available \/ byteLength > Wrapped(available - byteOffset) THEN NoView
          ELSE View("DataView", buffer, byteOffset, byteLength)

Buffers == {Detached} \cup {BufferOf(Bytes(n)) : n \in {0, 1, 7, 8, 9, kMaxByteLength}}

\* A view asked for with any offset and length at all is refused alike by both
\* backends, never handed to an engine that would end the process for it, and
\* when made is exactly the one asked for and inside its buffer.
ASSUME ViewsStayInside ==
  /\ \A type \in ElementTypes, buffer \in Buffers, byteOffset, length \in SizeT :
       LET view == V8MakeTypedArray(type, buffer, byteOffset, length)
       IN /\ view = SMMakeTypedArray(type, buffer, byteOffset, length)
          /\ view.made \in BOOLEAN
          /\ view.made = FitsEngine(type, buffer, byteOffset, length * ElementSize(type))
          /\ view.made => view = View(type, buffer, byteOffset, length * ElementSize(type))
  /\ \A buffer \in Buffers, byteOffset, byteLength \in SizeT :
       LET view == V8MakeDataView(buffer, byteOffset, byteLength)
       IN /\ view = SMMakeDataView(buffer, byteOffset, byteLength)
          /\ view.made => byteOffset + byteLength <= Len(buffer.bytes)

-----------------------------------------------------------------------------
(* Lengths and copies.  A view outlives the detaching of its buffer, and   *)
(* is then of no bytes at offset zero.                                     *)

Seen(view) == IF view.buffer.detached THEN [view EXCEPT !.offset = 0, !.length = 0] ELSE view
ViewBytes(view) ==
  SubSeq(view.buffer.bytes, Seen(view).offset + 1, Seen(view).offset + Seen(view).length)

\* V8's CopyContents (external) and both backends' copy of a whole buffer.
V8CopyOut(view, room) == SubSeq(ViewBytes(view), 1, Fewer(Len(ViewBytes(view)), room))
ArrayBufferCopyOut(buffer, room) == SubSeq(buffer.bytes, 1, Fewer(Len(buffer.bytes), room))

\* SpiderMonkey's typed array: what its length says, then what the engine
\* says is there; the lesser is copied.
SMTypedArrayCopyOut(view, room) ==
  LET elements == Seen(view).length \div ElementSize(view.type)
      count == Fewer(Wrapped(elements * ElementSize(FromScalarType(view.type))), room)
      safe == Fewer(Len(ViewBytes(view)), count)
  IN SubSeq(ViewBytes(view), 1, safe)

\* Through LiveViewOf: a detached view copies nothing and is at offset zero.
LiveViewOf(view) == IF view.buffer.detached THEN NoView ELSE view
SMViewCopyOut(view, room) ==
  LET live == LiveViewOf(view)
  IN IF ~live.made \/ room = 0 THEN <<>> ELSE SubSeq(ViewBytes(live), 1, Fewer(live.length, room))
SMViewByteLength(view) == IF LiveViewOf(view).made THEN view.length ELSE 0
SMViewByteOffset(view) == IF LiveViewOf(view).made THEN view.offset ELSE 0

Views == {v \in {V8MakeTypedArray(type, buffer, o, n) :
                   type \in {"Uint8", "Int16", "Float64"}, buffer \in Buffers, o, n \in 0 .. 9} : v.made}
Lost(view) == [view EXCEPT !.buffer = Detached]

\* A copy writes the view's first bytes and no more than there is room for,
\* the same ones whichever question asks for them and whichever backend is
\* asked; a view whose buffer went away since is empty and at offset zero.
ASSUME CopiesFit ==
  /\ \A v \in Views : \A view \in {v, Lost(v)}, room \in 0 .. 10 :
       LET copied == V8CopyOut(view, room)
       IN /\ Len(copied) <= room
          /\ IsPrefix(copied, ViewBytes(view))
          /\ SMTypedArrayCopyOut(view, room) = copied
          /\ SMViewCopyOut(view, room) = copied
          /\ SMViewByteLength(view) = Seen(view).length
          /\ SMViewByteOffset(view) = Seen(view).offset
  /\ \A buffer \in Buffers, room \in 0 .. 13 : Len(ArrayBufferCopyOut(buffer, room)) <= room
=============================================================================
