------------------------------- MODULE Frames --------------------------------
(***************************************************************************)
(* Handles.  A Local is a frame and an ordinal in it; a HandleScope, and   *)
(* every native call, is a frame; a Global is a root of its own.  What the *)
(* ordinal finds differs: on SpiderMonkey a value in a rooted vector, on   *)
(* V8 a v8::Local, which is a pointer into the block of the V8 scope that  *)
(* was innermost when it was made and dies with that scope.  So escaping   *)
(* is an append there and a hand-over here, and V8 has one cheap hand-over *)
(* per scope: later escapes park the value in a global root, reserve an    *)
(* empty slot of the parent and fill it when the frame has closed.         *)
(*                                                                         *)
(* Everything is on the isolate's thread; what a collector may see of it   *)
(* is any state.                                                           *)
(***************************************************************************)
EXTENDS Engine, Naturals, Sequences, SequencesExt

CONSTANTS
  Values,       \* JavaScript values
  InlineSlots,  \* UNIBIND_FRAME_INLINE_SLOTS: past it a push allocates
  MaxDepth,     \* bound on open frames
  MaxSlots,     \* bound on a frame's slots
  MaxGlobals    \* bound on live Globals

ASSUME BoundAssumption ==
  /\ {InlineSlots, MaxDepth, MaxGlobals} \subseteq Nat
  /\ MaxSlots \in Nat \ {0}

VARIABLES
  frames,   \* open frames, innermost last
  closing,  \* escapes of a frame whose V8 scope has closed, still to apply
  globals,  \* the values Global nodes root
  locals    \* Locals of open frames that the embedder holds

frameVars == <<engine, frames, closing, globals, locals>>

-----------------------------------------------------------------------------
(* A slot holds a v8::Local: a value and the depth of the V8 scope whose   *)
(* block it points into, 0 being the engine's own for a native's           *)
(* arguments.  A reserved slot holds an empty one.                         *)
Nothing == "nothing"
Cell(v, depth) == [is |-> v, at |-> depth]
Reserved == Cell(Nothing, 0)

NewFrame(escapable, args) ==
  [escapable |-> escapable,
   used |-> FALSE,          \* V8's one escape is spent
   cells |-> args,          \* borrowed arguments, then the frame's own
   argCount |-> Len(args),
   deferred |-> <<>>]       \* parked values and the parent's slots they go to

Depth == Len(frames)
Parked == [to : 1 .. MaxSlots, is : Values]

FramesTypeOK ==
  /\ engine \in Engines
  /\ Depth <= MaxDepth
  /\ \A d \in 1 .. Depth :
       /\ frames[d].cells \in Seq([is : Values \cup {Nothing}, at : 0 .. MaxDepth])
       /\ Len(frames[d].cells) <= MaxSlots
       /\ frames[d].deferred \in Seq(Parked)
       /\ frames[d].deferred # <<>> => frames[d].used /\ engine = "V8" /\ d > 1
  /\ closing \in Seq(Parked)
  /\ globals \in Seq(Values)
  /\ \A h \in locals : h.frame <= Depth /\ h.index <= Len(frames[h.frame].cells)

FramesInit ==
  /\ engine \in Engines
  /\ frames = <<>>
  /\ closing = <<>>
  /\ globals = <<>>
  /\ locals = {}

(* What a handle finds in its slot.                                        *)
Resolve(h) == frames[h.frame].cells[h.index].is

(* Frame::Push: past the inline slots it allocates, and may fail.          *)
Own(frame) == Len(frame.cells) - frame.argCount
HasRoom(d) == Len(frames[d].cells) < MaxSlots
MayFail(d) == Own(frames[d]) >= InlineSlots
PushTo(fs, d, cell) == [fs EXCEPT ![d].cells = Append(@, cell)]
Naming(d, v) == [frame |-> d, index |-> Len(frames[d].cells) + 1, names |-> v]

Idle == closing = <<>>

-----------------------------------------------------------------------------
(* HandleScope, EscapableHandleScope and the frame of a native call.       *)

OpenFrame(escapable) ==
  /\ Idle /\ Depth < MaxDepth
  /\ frames' = Append(frames, NewFrame(escapable, <<>>))
  /\ UNCHANGED <<engine, closing, globals, locals>>

CallFrame(args) ==
  /\ Idle /\ Depth < MaxDepth
  /\ frames' = Append(frames, NewFrame(FALSE, [i \in DOMAIN args |-> Cell(args[i], 0)]))
  /\ locals' = locals \cup
       {[frame |-> Depth + 1, index |-> i, names |-> args[i]] : i \in DOMAIN args}
  /\ UNCHANGED <<engine, closing, globals>>

(* An operation that makes a value pushes it on the current frame, whose   *)
(* V8 scope is the innermost.  A push that fails is an empty handle.       *)
Push(v) ==
  /\ Idle /\ Depth > 0 /\ HasRoom(Depth)
  /\ \/ /\ frames' = PushTo(frames, Depth, Cell(v, Depth))
        /\ locals' = locals \cup {Naming(Depth, v)}
     \/ MayFail(Depth) /\ UNCHANGED <<frames, locals>>
  /\ UNCHANGED <<engine, closing, globals>>

-----------------------------------------------------------------------------
(* EscapeSlot.  The value may be any handle of an open frame, and the      *)
(* closing frame any open escapable one that has a parent.                 *)

MayEscape(d) == Idle /\ d > 1 /\ frames[d].escapable /\ HasRoom(d - 1)

(* SpiderMonkey: a copy into the parent's vector.                          *)
EscapeCopy(d, h) ==
  /\ engine = "SpiderMonkey"
  /\ MayEscape(d)
  /\ \/ /\ frames' = PushTo(frames, d - 1, Cell(Resolve(h), d - 1))
        /\ locals' = locals \cup {Naming(d - 1, Resolve(h))}
     \/ MayFail(d - 1) /\ UNCHANGED <<frames, locals>>
  /\ UNCHANGED <<engine, closing, globals>>

(* V8: the slot the scope reserved when it opened, spent whether or not    *)
(* the parent has room for the handle.                                     *)
EscapeFirst(d, h) ==
  /\ engine = "V8"
  /\ MayEscape(d)
  /\ ~frames[d].used
  /\ LET spent == [frames EXCEPT ![d].used = TRUE]
     IN \/ /\ frames' = PushTo(spent, d - 1, Cell(Resolve(h), d - 1))
           /\ locals' = locals \cup {Naming(d - 1, Resolve(h))}
        \/ MayFail(d - 1) /\ frames' = spent /\ UNCHANGED locals
  /\ UNCHANGED <<engine, closing, globals>>

(* Mutant: the v8::Local itself copied into the parent's slot.             *)
EscapeCopyingLocal(d, h) ==
  /\ engine = "V8"
  /\ MayEscape(d)
  /\ frames[d].used
  /\ frames' = PushTo(frames, d - 1, Cell(Resolve(h), h.frame))
  /\ locals' = locals \cup {Naming(d - 1, Resolve(h))}
  /\ UNCHANGED <<engine, closing, globals>>

(* V8, from the second on: an empty slot of the parent, and the value in a *)
(* root until it can be written there.  Without memory for the root the    *)
(* slot stays, and no handle names it.                                     *)
EscapeLater(d, h) ==
  /\ engine = "V8"
  /\ MayEscape(d)
  /\ frames[d].used
  /\ LET held == PushTo(frames, d - 1, Reserved)
         slot == Naming(d - 1, Resolve(h))
         entry == [to |-> slot.index, is |-> Resolve(h)]
     IN \/ /\ frames' = IF Resolve(h) = Nothing THEN held
                        ELSE [held EXCEPT ![d].deferred = Append(@, entry)]
           /\ locals' = locals \cup {slot}
        \/ frames' = held /\ UNCHANGED locals
        \/ MayFail(d - 1) /\ UNCHANGED <<frames, locals>>
  /\ UNCHANGED <<engine, closing, globals>>

-----------------------------------------------------------------------------
(* CloseFrame: the parent is current again, the frame's V8 scope closes,   *)
(* and only then are its deferred escapes written into the parent.         *)

Survivors == {h \in locals : h.frame < Depth}

(* Mutant: the parked values are forgotten with the frame.                 *)
CloseForgetting ==
  /\ Idle /\ Depth > 0
  /\ frames' = Front(frames)
  /\ locals' = Survivors
  /\ UNCHANGED <<engine, closing, globals>>

CloseFrame ==
  /\ Idle /\ Depth > 0
  /\ frames' = Front(frames)
  /\ closing' = Last(frames).deferred
  /\ locals' = Survivors
  /\ UNCHANGED <<engine, globals>>

(* Mutant: the writes happen while the frame's V8 scope is still open.     *)
ApplyInTheClosingScope ==
  /\ closing # <<>>
  /\ frames' = [frames EXCEPT ![Depth].cells[Head(closing).to] =
                  Cell(Head(closing).is, Depth + 1)]
  /\ closing' = Tail(closing)
  /\ UNCHANGED <<engine, globals, locals>>

ApplyDeferredEscapes ==
  /\ closing # <<>>
  /\ frames' = [frames EXCEPT ![Depth].cells[Head(closing).to] =
                  Cell(Head(closing).is, Depth)]
  /\ closing' = Tail(closing)
  /\ UNCHANGED <<engine, globals, locals>>

-----------------------------------------------------------------------------
(* Global<T>, from a handle or from another Global.                        *)

MakeGlobal(h) ==
  /\ Idle /\ Len(globals) < MaxGlobals
  /\ Resolve(h) # Nothing
  /\ globals' = Append(globals, Resolve(h))
  /\ UNCHANGED <<engine, frames, closing, locals>>

DuplicateGlobal(i) ==
  /\ Idle /\ Len(globals) < MaxGlobals
  /\ globals' = Append(globals, globals[i])
  /\ UNCHANGED <<engine, frames, closing, locals>>

ReleaseGlobal(i) ==
  /\ Idle
  /\ globals' = RemoveAt(globals, i)
  /\ UNCHANGED <<engine, frames, closing, locals>>

GlobalToSlot(i) == Push(globals[i])

FramesNext ==
  \/ \E e \in BOOLEAN : OpenFrame(e)
  \/ \E v \in Values : CallFrame(<<v>>)
  \/ \E v \in Values : Push(v)
  \/ \E h \in locals :
       \/ \E d \in 2 .. Depth :
            EscapeCopy(d, h) \/ EscapeFirst(d, h) \/ EscapeLater(d, h)
       \/ MakeGlobal(h)
  \/ CloseFrame \/ ApplyDeferredEscapes
  \/ \E i \in DOMAIN globals :
       DuplicateGlobal(i) \/ ReleaseGlobal(i) \/ GlobalToSlot(i)

FramesSpec == FramesInit /\ [][FramesNext]_frameVars

-----------------------------------------------------------------------------
(* A slot reserved by an escape whose frame has not closed yet.            *)
Pending(h) ==
  \/ \E d \in 1 .. Depth : d = h.frame + 1
       /\ h.index \in {frames[d].deferred[i].to : i \in DOMAIN frames[d].deferred}
  \/ h.frame = Depth /\ h.index \in {closing[i].to : i \in DOMAIN closing}

(* A handle finds, for as long as its frame is open, the value it was made *)
(* for - whatever frames opened, escaped and closed above it and whichever *)
(* of their allocations failed - except while its slot is being held for a *)
(* deferred escape.                                                        *)
HandleKeepsValue ==
  \A h \in locals : ~Pending(h) => Resolve(h) = h.names

(* No slot points into a V8 scope that closes before its frame does.       *)
SlotsOutliveScopes ==
  engine = "V8" =>
    \A d \in 1 .. Depth : \A c \in ToSet(frames[d].cells) : c.at <= d

(* The value a handle names is rooted in every state: by a slot whose V8   *)
(* scope is open, by the root an escape parked it in, or by a Global.      *)
Parks(d) == IF d > Depth THEN closing ELSE frames[d].deferred
RootedBySlot(v) ==
  \E d \in 1 .. Depth : \E c \in ToSet(frames[d].cells) : c.is = v /\ c.at <= Depth
RootedByEscape(v) ==
  \E d \in 1 .. Depth + 1 : \E p \in ToSet(Parks(d)) : p.is = v
NeverUnrooted ==
  \A h \in locals : h.names # Nothing =>
    RootedBySlot(h.names) \/ RootedByEscape(h.names)
=============================================================================
