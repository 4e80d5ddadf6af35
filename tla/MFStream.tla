------------------------------- MODULE MFStream -------------------------------
(***************************************************************************)
(* The native objects behind one mf.Stream, internal/mf/mf.go: Open, which *)
(* acquires them one after the other and may fail at each step, Close and  *)
(* release, which let go of them in reverse order.  The stream lives in    *)
(* the process that module MediaFoundation describes.                      *)
(*                                                                         *)
(* COM objects are reference counted and hold references to one another: a *)
(* byte stream to the memory stream it adapts, the attribute store and the *)
(* source reader to the callback, the source reader to its byte stream and *)
(* attributes.  An object whose count drops to 0 is gone and releases what *)
(* it holds.                                                               *)
(***************************************************************************)
EXTENDS Naturals, FiniteSets, Sequences

VARIABLES
    step,       \* the next step of Open, or open, releasing, released
    todo,       \* what release still has to look at, in order
    fields,     \* fields of Stream that are not nil
    refs,       \* refs[o]: the reference count of object o
    holds,      \* holds[o]: objects o has a reference to
    pinned,     \* the callback is pinned
    gaveUp      \* samples.gaveUp: a read was abandoned

objectVars == <<fields, refs, holds, pinned>>
streamVars == <<step, todo, objectVars, gaveUp>>

Objects == {"istream", "byteStream", "attributes", "cb", "reader"}
Fields == Objects \cup {"samples", "compressed"}

OpenPC == {"istream", "byteStream", "attributes", "hardware", "cb", "reader",
           "configure", "format", "samples"}

StreamTypeOK ==
    /\ step \in OpenPC \cup {"open", "releasing", "released"}
    /\ todo \in Seq(Fields)
    /\ fields \subseteq Fields
    /\ refs \in [Objects -> Nat]
    /\ holds \in [Objects -> SUBSET Objects]
    /\ pinned \in BOOLEAN /\ gaveUp \in BOOLEAN

StreamInit ==
    /\ step = "istream" /\ todo = <<>>
    /\ fields = {"compressed"}
    /\ refs = [o \in Objects |-> 0]
    /\ holds = [o \in Objects |-> {}]
    /\ pinned = FALSE /\ gaveUp = FALSE

-----------------------------------------------------------------------------
(* Reference counts. *)

Added(rfs, O) == [o \in Objects |-> IF o \in O THEN rfs[o] + 1 ELSE rfs[o]]

Dropped(rfs, O) == [o \in Objects |-> IF o \in O THEN rfs[o] - 1 ELSE rfs[o]]

\* Object x is gone once rfs has no reference to it left, and releases what it
\* holds.
Gone(rfs, x) ==
    IF refs[x] > 0 /\ rfs[x] = 0 THEN Dropped(rfs, holds[x]) ELSE rfs

\* The counts once a reference to o is given up: with the last one go the
\* references that o holds, and so on, from the objects that hold others to
\* those they hold.
Released(o) ==
    LET given == Dropped(refs, {o})
        reader == Gone(given, "reader")
        attributes == Gone(reader, "attributes")
    IN  Gone(attributes, "byteStream")

-----------------------------------------------------------------------------
(* Open. *)

BadReleaseOrder ==                             \* drops the bytes first
    <<"compressed", "samples", "reader", "attributes", "byteStream", "istream",
      "cb">>

ReleaseOrder ==
    <<"samples", "reader", "attributes", "byteStream", "istream", "cb",
      "compressed">>

BadFail ==                                     \* no deferred release
    step' = "released" /\ UNCHANGED todo

\* A step fails, and the deferred release runs on what there is.
Fail == step' = "releasing" /\ todo' = ReleaseOrder

\* A native call fails.  In the step "cb" that is after newCallback, below.
FailStep ==
    /\ step \in OpenPC \ {"cb", "samples"}
    /\ Fail
    /\ UNCHANGED <<objectVars, gaveUp>>

\* Object o is created for the field of that name and retains the objects H.
Create(o, H, next) ==
    /\ step = o
    /\ fields' = fields \cup {o}
    /\ refs' = Added(refs, H \cup {o})
    /\ holds' = [holds EXCEPT ![o] = H]
    /\ step' = next
    /\ UNCHANGED <<todo, pinned, gaveUp>>

CreateIStream == Create("istream", {}, "byteStream")

CreateByteStream == Create("byteStream", {"istream"}, "attributes")

CreateAttributes == Create("attributes", {}, "hardware")

CreateReader == Create("reader", {"byteStream", "attributes", "cb"}, "configure")

\* A step that only calls methods of what there is.
Advance(from, to) ==
    /\ step = from /\ step' = to
    /\ UNCHANGED <<todo, objectVars, gaveUp>>

SetHardware == Advance("hardware", "cb")

\* newCallback, then SetUnknown, which makes the attributes hold it, or fails.
SetCallback ==
    /\ step = "cb"
    /\ fields' = fields \cup {"cb"}
    /\ pinned' = TRUE
    /\ \/ /\ refs' = Added(refs, {"cb"})
          /\ Fail
          /\ UNCHANGED holds
       \/ /\ refs' = [refs EXCEPT !["cb"] = @ + 2]
          /\ holds' = [holds EXCEPT !["attributes"] = {"cb"}]
          /\ step' = "reader"
          /\ UNCHANGED todo
    /\ UNCHANGED gaveUp

\* The media types that these two make are released before they return,
\* whatever fails, and are not among the objects.
Configure == Advance("configure", "format")

GetFormat == Advance("format", "samples")

MakeSamples ==
    /\ step = "samples" /\ step' = "open"
    /\ fields' = fields \cup {"samples"}
    /\ UNCHANGED <<todo, refs, holds, pinned, gaveUp>>

Opening ==
    \/ FailStep \/ CreateIStream \/ CreateByteStream \/ CreateAttributes
    \/ SetHardware \/ SetCallback \/ CreateReader \/ Configure \/ GetFormat
    \/ MakeSamples

\* A Read of the open stream is abandoned.
GiveUp ==
    /\ step = "open" /\ ~gaveUp
    /\ gaveUp' = TRUE
    /\ UNCHANGED <<step, todo, objectVars>>

-----------------------------------------------------------------------------
(* Close and release.  A second Close finds closed set and does nothing.   *)

\* A reader that was given up on is dropped.
CloseStream ==
    /\ step = "open"
    /\ fields' = IF gaveUp THEN fields \ {"reader"} ELSE fields
    /\ step' = "releasing" /\ todo' = ReleaseOrder
    /\ UNCHANGED <<refs, holds, pinned, gaveUp>>

IsSet(f) == f \in Objects /\ f \in fields

BadReleaseNothing(f) == UNCHANGED <<refs, pinned>>      \* sets f to nil only

\* f.Release().  That of a reader that was given up on does not return.  The
\* callback unpins itself with its last reference.
ReleaseObject(f) ==
    /\ f = "reader" => ~gaveUp
    /\ refs' = Released(f)
    /\ pinned' = (pinned /\ refs'["cb"] > 0)

\* One field of release: its object is released unless it is nil, and it is
\* set to nil.
Release ==
    /\ step = "releasing" /\ todo # <<>>
    /\ LET f == Head(todo) IN
        /\ fields' = fields \ {f}
        /\ \/ IsSet(f) /\ ReleaseObject(f)
           \/ ~IsSet(f) /\ UNCHANGED <<refs, pinned>>
    /\ todo' = Tail(todo)
    /\ step' = IF todo' = <<>> THEN "released" ELSE step
    /\ UNCHANGED <<holds, gaveUp>>

-----------------------------------------------------------------------------
(* Properties. *)

\* A count is exactly the field and the living objects that refer to the
\* object, so nothing is released twice or under somebody who still uses it;
\* the one reference more is that of the reader that was given up on.
RefsCount ==
    StreamTypeOK /\ \A o \in Objects :
        refs[o] = (IF o \in fields THEN 1 ELSE 0)
                  + Cardinality({x \in Objects : refs[x] > 0 /\ o \in holds[x]})
                  + (IF o = "reader" /\ gaveUp /\ o \notin fields THEN 1 ELSE 0)

\* Whichever step of Open failed, and after every Close, nothing is left; but
\* a reader that was given up on stays, with the callback, the byte stream and
\* the attributes it may still use, and the callback then stays pinned.
NothingLeaks ==
    step = "released" =>
        /\ fields = {}
        /\ \A o \in Objects : refs[o] > 0 <=> gaveUp
        /\ pinned <=> gaveUp

\* The compressed audio is reachable as long as the memory stream made from it
\* is alive, except for the memory stream of a reader that was given up on.
BufferRetained == refs["istream"] > 0 /\ ~gaveUp => "compressed" \in fields
=============================================================================
