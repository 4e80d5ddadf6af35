------------------------- MODULE MediaFoundationProofs -------------------------
(***************************************************************************)
(* Proofs about module MediaFoundation and the modules MFStartup and       *)
(* MFStream it composes, for any set of goroutines and any number of       *)
(* calls: what an inductive invariant has to say of the goroutines that    *)
(* start the platform (PlatformInv), of the objects of the stream          *)
(* (StreamInv) and of both (UserInv), and the safety properties.           *)
(***************************************************************************)
EXTENDS MediaFoundation, FiniteSetTheorems, SequenceTheorems, TLAPS

-----------------------------------------------------------------------------
(* The inductive invariant. *)

\* A goroutine on its way through MFStartup has no open Decoder, and whoever
\* is past loadOnce is so because loadProcs has run; it resolves everything on
\* a machine that lacks nothing.
LoadInv ==
    /\ \A c \in Callers : pc[c] \in {"once", "load", "startup"} => c \notin started
    /\ \A c \in Callers : pc[c] = "startup" => once.done
    /\ started # {} => once.done
    /\ once.done /\ lacks = 0 => resolved = Len(Procs)

PlatformInv ==
    /\ PlatformPaired /\ IsFiniteSet(started)
    /\ NoNilCall /\ LoadInv

\* While Open runs, and until Close, the stream has the objects made so far.
OpeningInv ==
    step \in OpenPC \cup {"open"} =>
        /\ todo = <<>> /\ (step # "open" => ~gaveUp)
        /\ step \in {"hardware", "cb"} => holds["attributes"] = {}
        /\ "istream" \in fields <=> step # "istream"
        /\ "byteStream" \in fields <=> step \notin {"istream", "byteStream"}
        /\ "attributes" \in fields
              <=> step \notin {"istream", "byteStream", "attributes"}
        /\ "cb" \in fields
              <=> step \in {"reader", "configure", "format", "samples", "open"}
        /\ "reader" \in fields
              <=> step \in {"configure", "format", "samples", "open"}

\* While release runs it has let go of the fields it has looked at.
ReleasingInv ==
    /\ step # "released" => "compressed" \in fields
    /\ step = "released" => fields = {}
    /\ step = "releasing" =>
          \E i \in 1..Len(ReleaseOrder) :
             /\ todo = SubSeq(ReleaseOrder, i, Len(ReleaseOrder))
             /\ fields \subseteq {ReleaseOrder[j] : j \in i..Len(ReleaseOrder)}

\* Who can hold whom.
HoldsInv ==
    /\ holds["istream"] = {} /\ holds["cb"] = {}
    /\ holds["byteStream"] \subseteq {"istream"}
    /\ refs["byteStream"] > 0 => holds["byteStream"] = {"istream"}
    /\ holds["attributes"] \subseteq {"cb"}
    /\ holds["reader"] \subseteq {"byteStream", "attributes", "cb"}
    /\ refs["reader"] > 0 =>
          holds["reader"] = {"byteStream", "attributes", "cb"}

\* A reader is given up on only in an open stream, and Close forgets it.
GaveUpInv ==
    /\ gaveUp => step \in {"open", "releasing", "released"}
    /\ gaveUp /\ step # "open" => "reader" \notin fields

One(b) == IF b THEN 1 ELSE 0

Holds(x, o) == refs[x] > 0 /\ o \in holds[x]

\* RefsCount, object by object.
CountInv ==
    /\ refs["reader"] = One("reader" \in fields) + One(gaveUp /\ "reader" \notin fields)
    /\ refs["attributes"] = One("attributes" \in fields) + One(Holds("reader", "attributes"))
    /\ refs["byteStream"] = One("byteStream" \in fields) + One(Holds("reader", "byteStream"))
    /\ refs["cb"] = One("cb" \in fields) + One(Holds("reader", "cb"))
                    + One(Holds("attributes", "cb"))
    /\ refs["istream"] = One("istream" \in fields) + One(Holds("byteStream", "istream"))

\* The callback unpins itself with the last reference to it.
PinnedWhileReferenced == refs["cb"] > 0 <=> pinned

StreamInv ==
    /\ StreamTypeOK /\ OpeningInv /\ ReleasingInv /\ GaveUpInv
    /\ HoldsInv /\ CountInv /\ PinnedWhileReferenced

\* A stream in use is on an open Decoder.
UserInv ==
    /\ user \in Callers \cup {NoCaller}
    /\ InUse => user \in started
    /\ user = NoCaller => step = "istream" /\ ~gaveUp

IInv == PlatformInv /\ StreamInv /\ UserInv

-----------------------------------------------------------------------------
(* The platform. *)

\* Once they are all resolved, the entry points the package calls are not nil.
LEMMA AllResolved ==
    ASSUME resolved = Len(Procs)
    PROVE  \A p \in {"SHCreateMemStream", "MFStartup", "MFShutdown", "MFCreateMediaType",
                     "MFCreateAttributes", "MFCreateMFByteStreamOnStream",
                     "MFCreateSourceReaderFromByteStream"} : IsResolved(p)
<1>1. Len(Procs) = 10
  BY DEF Procs
<1>2. /\ Procs[4] = "SHCreateMemStream" /\ Procs[5] = "MFStartup"
      /\ Procs[6] = "MFShutdown" /\ Procs[7] = "MFCreateMediaType"
      /\ Procs[8] = "MFCreateAttributes" /\ Procs[9] = "MFCreateMFByteStreamOnStream"
      /\ Procs[10] = "MFCreateSourceReaderFromByteStream"
  BY DEF Procs
<1>3. \A i \in {4, 5, 6, 7, 8, 9, 10} : i \in 1..resolved
  BY <1>1
<1> QED
  BY <1>2, <1>3 DEF IsResolved

\* A step of MFStartup or MFShutdown keeps the types and the count.
LEMMA PairedStep ==
    ASSUME PlatformInv, NEW c \in Callers, Running(c) \/ Startup(c) \/ Shutdown(c)
    PROVE  PlatformPaired' /\ IsFiniteSet(started)'
<1>t. TypeOK /\ platform = Cardinality(started) + refused /\ IsFiniteSet(started)
  BY DEF PlatformInv, PlatformPaired
<1>c. Cardinality(started) \in Nat
  BY <1>t, FS_CardinalityType
<1>l. Len(Procs) \in Nat
  BY DEF Procs
<1>o. [in |-> NoCaller, done |-> TRUE] \in [in : Callers \cup {NoCaller}, done : BOOLEAN]
  OBVIOUS
<1> USE StartupAssumption DEF PlatformPaired, TypeOK, Goto, Return, counts
<1>1. CASE Startup(c)
  BY <1>t, <1>1 DEF Startup
<1>2. CASE OnceFirst(c) \/ OncePast(c)
  BY <1>t, <1>2 DEF OnceFirst, OncePast
<1>3. CASE Resolve(c)
  BY <1>t, <1>l, <1>3 DEF Resolve
<1>4. CASE Loaded(c) \/ LoadFails(c)
  <2>1. once' \in [in : Callers \cup {NoCaller}, done : BOOLEAN]
    BY <1>o, <1>4 DEF Loaded, LoadFails, LoadDone
  <2> QED
    BY <1>t, <1>4, <2>1 DEF Loaded, LoadFails
<1>5. CASE CallStartup(c)
  <2>1. CASE UNCHANGED <<started, counts>>
    BY <1>t, <1>5, <2>1 DEF CallStartup
  <2>2. CASE started' = started \cup {c} /\ platform' = platform + 1 /\ refused' = refused
    <3>1. c \notin started
      BY <1>5 DEF PlatformInv, LoadInv, CallStartup
    <3>2. IsFiniteSet(started') /\ Cardinality(started') = Cardinality(started) + 1
      BY <1>t, <2>2, <3>1, FS_AddElement
    <3>3. TypeOK'
      BY <1>t, <1>5, <2>2 DEF CallStartup
    <3>4. platform' = Cardinality(started') + refused'
      <4>1. platform \in Int /\ refused \in Int
        BY <1>t
      <4> QED
        BY ONLY <1>t, <1>c, <2>2, <3>2, <4>1
    <3> QED
      BY <3>2, <3>3, <3>4
  <2> QED
    BY <1>5, <2>1, <2>2 DEF CallStartup
<1>6. CASE Shutdown(c)
  <2>1. CASE UNCHANGED <<started, counts>>
    BY <1>t, <1>6, <2>1 DEF Shutdown
  <2>2. CASE /\ started' = started \ {c}
             /\ \/ platform' = platform - 1 /\ refused' = refused
                \/ platform' = platform /\ refused' = refused + 1
    <3>1. c \in started
      BY <1>6 DEF Shutdown
    <3>2. IsFiniteSet(started') /\ Cardinality(started') = Cardinality(started) - 1
      BY <1>t, <2>2, <3>1, FS_RemoveElement
    <3>3. platform' \in Nat /\ refused' \in Nat
      <4>1. Cardinality(started') \in Nat
        BY <3>2, FS_CardinalityType
      <4> QED
        BY <1>t, <1>c, <2>2, <3>2, <4>1
    <3>4. TypeOK'
      BY <1>t, <1>6, <2>2, <3>3 DEF Shutdown
    <3>5. platform' = Cardinality(started') + refused'
      <4>1. platform \in Int /\ refused \in Int
        BY <1>t
      <4> QED
        BY ONLY <1>t, <1>c, <2>2, <3>2, <4>1
    <3> QED
      BY <3>2, <3>4, <3>5
  <2> QED
    BY <1>6, <2>1, <2>2 DEF Shutdown
<1> QED
  BY <1>1, <1>2, <1>3, <1>4, <1>5, <1>6 DEF Running

\* No such step calls a nil entry point, unless the machine lacks one.
LEMMA LoadStep ==
    ASSUME PlatformInv, NEW c \in Callers, Running(c) \/ Startup(c) \/ Shutdown(c)
    PROVE  NoNilCall' /\ LoadInv'
<1>t. TypeOK /\ NoNilCall /\ LoadInv
  BY DEF PlatformInv, PlatformPaired
<1> USE DEF NoNilCall, LoadInv, TypeOK, Goto, Return
<1>1. CASE Startup(c)
  BY <1>t, <1>1 DEF Startup
<1>2. CASE OnceFirst(c) \/ OncePast(c)
  BY <1>t, <1>2 DEF OnceFirst, OncePast
<1>3. CASE Resolve(c)
  BY <1>t, <1>3 DEF Resolve
<1>4. CASE Loaded(c)
  BY <1>t, <1>4 DEF Loaded, LoadDone
<1>5. CASE LoadFails(c)
  BY <1>t, <1>5 DEF LoadFails, LoadDone
<1>6. CASE CallStartup(c)
  <2>1. once.done
    BY <1>t, <1>6 DEF CallStartup
  <2>2. lacks = 0 => IsResolved("MFStartup")
    BY <1>t, <2>1, AllResolved
  <2> QED
    BY <1>t, <1>6, <2>1, <2>2 DEF CallStartup
<1>7. CASE Shutdown(c)
  <2>1. lacks = 0 => IsResolved("MFShutdown")
    BY <1>t, <1>7, AllResolved DEF Shutdown
  <2> QED
    BY <1>t, <1>7, <2>1 DEF Shutdown
<1> QED
  BY <1>1, <1>2, <1>3, <1>4, <1>5, <1>6, <1>7 DEF Running

-----------------------------------------------------------------------------
(* Reference counts. *)

\* RefsCount counts the objects that hold o; who can hold whom makes that the
\* sum over at most two.
LEMMA CountsAgree ==
    ASSUME StreamTypeOK, HoldsInv
    PROVE  RefsCount <=> CountInv
<1> DEFINE By(o) == {x \in Objects : refs[x] > 0 /\ o \in holds[x]}
<1>0. /\ Cardinality({}) = 0
      /\ \A x : Cardinality({x}) = 1
      /\ Cardinality({"reader", "attributes"}) = 2
  <2>1. IsFiniteSet({"reader"})
    BY FS_Singleton
  <2>2. Cardinality({"reader"} \cup {"attributes"}) = Cardinality({"reader"}) + 1
    BY <2>1, FS_AddElement
  <2>3. {"reader"} \cup {"attributes"} = {"reader", "attributes"}
    OBVIOUS
  <2>4. Cardinality({"reader"}) = 1 /\ 1 + 1 = 2
    BY FS_Singleton
  <2>5. Cardinality({"reader", "attributes"}) = 2
    BY <2>2, <2>3, <2>4
  <2> QED
    BY <2>5, FS_EmptySet, FS_Singleton
<1>1. Cardinality(By("reader")) = 0
  <2>1. By("reader") = {}
    BY DEF HoldsInv, Objects
  <2> QED
    BY <1>0, <2>1
<1>2. Cardinality(By("attributes")) = One(Holds("reader", "attributes"))
  <2>1. By("attributes") = IF Holds("reader", "attributes") THEN {"reader"} ELSE {}
    BY DEF HoldsInv, Objects, Holds
  <2> QED
    BY <1>0, <2>1 DEF One
<1>3. Cardinality(By("byteStream")) = One(Holds("reader", "byteStream"))
  <2>1. By("byteStream") = IF Holds("reader", "byteStream") THEN {"reader"} ELSE {}
    BY DEF HoldsInv, Objects, Holds
  <2> QED
    BY <1>0, <2>1 DEF One
<1>4. Cardinality(By("cb")) = One(Holds("reader", "cb")) + One(Holds("attributes", "cb"))
  <2>1. By("cb") = (IF Holds("reader", "cb") THEN {"reader"} ELSE {})
                   \cup (IF Holds("attributes", "cb") THEN {"attributes"} ELSE {})
    BY DEF HoldsInv, Objects, Holds
  <2>2. CASE Holds("reader", "cb") /\ Holds("attributes", "cb")
    <3>1. By("cb") = {"reader", "attributes"}
      BY <2>1, <2>2
    <3> QED
      BY <1>0, <2>2, <3>1 DEF One
  <2>3. CASE Holds("reader", "cb") /\ ~Holds("attributes", "cb")
    <3>1. By("cb") = {"reader"}
      BY <2>1, <2>3
    <3> QED
      BY <1>0, <2>3, <3>1 DEF One
  <2>4. CASE ~Holds("reader", "cb") /\ Holds("attributes", "cb")
    <3>1. By("cb") = {"attributes"}
      BY <2>1, <2>4
    <3>2. One(Holds("reader", "cb")) = 0 /\ One(Holds("attributes", "cb")) = 1
      BY <2>4 DEF One
    <3>3. Cardinality({"attributes"}) = 1
      BY <1>0
    <3> HIDE DEF By
    <3>4. Cardinality(By("cb")) = 1
      BY <3>1, <3>3
    <3> QED
      BY <3>2, <3>4
  <2>5. CASE ~Holds("reader", "cb") /\ ~Holds("attributes", "cb")
    <3>1. By("cb") = {}
      BY <2>1, <2>5
    <3> QED
      BY <1>0, <2>5, <3>1 DEF One
  <2> QED
    BY <2>2, <2>3, <2>4, <2>5
<1>5. Cardinality(By("istream")) = One(Holds("byteStream", "istream"))
  <2>1. By("istream") = IF Holds("byteStream", "istream") THEN {"byteStream"} ELSE {}
    BY DEF HoldsInv, Objects, Holds
  <2> QED
    BY <1>0, <2>1 DEF One
<1> HIDE DEF By
<1>6. (\A o \in Objects :
          refs[o] = (IF o \in fields THEN 1 ELSE 0) + Cardinality(By(o))
                    + (IF o = "reader" /\ gaveUp /\ o \notin fields THEN 1 ELSE 0))
      <=> CountInv
  <2> DEFINE Exact(o) ==
        refs[o] = (IF o \in fields THEN 1 ELSE 0) + Cardinality(By(o))
                  + (IF o = "reader" /\ gaveUp /\ o \notin fields THEN 1 ELSE 0)
  <2>0. (\A o \in Objects : Exact(o)) <=>
           Exact("reader") /\ Exact("attributes") /\ Exact("byteStream") /\ Exact("cb")
           /\ Exact("istream")
    BY DEF Objects
  <2>1. Exact("reader") <=> refs["reader"] = One("reader" \in fields)
                                             + One(gaveUp /\ "reader" \notin fields)
    BY <1>1 DEF One
  <2>2. Exact("attributes") <=> refs["attributes"] = One("attributes" \in fields)
                                                     + One(Holds("reader", "attributes"))
    BY <1>2 DEF One
  <2>3. Exact("byteStream") <=> refs["byteStream"] = One("byteStream" \in fields)
                                                     + One(Holds("reader", "byteStream"))
    BY <1>3 DEF One
  <2>4. Exact("cb") <=> refs["cb"] = One("cb" \in fields) + One(Holds("reader", "cb"))
                                     + One(Holds("attributes", "cb"))
    BY <1>4 DEF One
  <2>5. Exact("istream") <=> refs["istream"] = One("istream" \in fields)
                                               + One(Holds("byteStream", "istream"))
    BY <1>5 DEF One
  <2> HIDE DEF Exact
  <2>6. (\A o \in Objects : Exact(o)) <=> CountInv
    BY <2>0, <2>1, <2>2, <2>3, <2>4, <2>5 DEF CountInv
  <2> QED
    BY <2>6 DEF Exact
<1> QED
  BY <1>6 DEF RefsCount, By

\* What an object releases once it is gone.
LEMMA GoneAt ==
    ASSUME NEW rfs \in [Objects -> Int], NEW x
    PROVE  /\ Gone(rfs, x) \in [Objects -> Int]
           /\ \A y \in Objects :
                 Gone(rfs, x)[y] = rfs[y] - One(refs[x] > 0 /\ rfs[x] = 0 /\ y \in holds[x])
           /\ \A y \in Objects : y \notin holds[x] => Gone(rfs, x)[y] = rfs[y]
  BY DEF Gone, Dropped, One

\* The counts after a reference to f is given up: one less for f, and one less
\* for what is held by an object that is gone by that.
LEMMA ReleasedCounts ==
    ASSUME StreamTypeOK, HoldsInv, NEW f \in Objects
    PROVE  LET r == Released(f)
               Dies(x) == refs[x] > 0 /\ r[x] = 0
           IN  /\ r \in [Objects -> Int]
               /\ r["reader"] = refs["reader"] - One(f = "reader")
               /\ r["attributes"] = refs["attributes"] - One(f = "attributes")
                     - One(Dies("reader") /\ "attributes" \in holds["reader"])
               /\ r["byteStream"] = refs["byteStream"] - One(f = "byteStream")
                     - One(Dies("reader") /\ "byteStream" \in holds["reader"])
               /\ r["cb"] = refs["cb"] - One(f = "cb")
                     - One(Dies("reader") /\ "cb" \in holds["reader"])
                     - One(Dies("attributes") /\ "cb" \in holds["attributes"])
               /\ r["istream"] = refs["istream"] - One(f = "istream")
                     - One(Dies("byteStream") /\ "istream" \in holds["byteStream"])
<1> DEFINE g == Dropped(refs, {f})
           a == Gone(g, "reader")
           b == Gone(a, "attributes")
           r == Gone(b, "byteStream")
<1>0. r = Released(f)
  BY DEF Released
<1>1. /\ g \in [Objects -> Int]
      /\ \A y \in Objects : g[y] = refs[y] - One(f = y)
  BY DEF Dropped, One, StreamTypeOK
<1>2. refs \in [Objects -> Nat]
  BY DEF StreamTypeOK
<1> HIDE DEF g
<1>3. /\ a \in [Objects -> Int]
      /\ \A y \in Objects :
            a[y] = g[y] - One(refs["reader"] > 0 /\ g["reader"] = 0 /\ y \in holds["reader"])
      /\ \A y \in Objects : y \notin holds["reader"] => a[y] = g[y]
  BY <1>1, GoneAt
<1> HIDE DEF a
<1>4. /\ b \in [Objects -> Int]
      /\ \A y \in Objects :
            b[y] = a[y] - One(refs["attributes"] > 0 /\ a["attributes"] = 0
                              /\ y \in holds["attributes"])
      /\ \A y \in Objects : y \notin holds["attributes"] => b[y] = a[y]
  BY <1>3, GoneAt
<1> HIDE DEF b
<1>5. /\ r \in [Objects -> Int]
      /\ \A y \in Objects :
            r[y] = b[y] - One(refs["byteStream"] > 0 /\ b["byteStream"] = 0
                              /\ y \in holds["byteStream"])
      /\ \A y \in Objects : y \notin holds["byteStream"] => r[y] = b[y]
  BY <1>4, GoneAt
<1> HIDE DEF r
<1> DEFINE Dies(x) == refs[x] > 0 /\ r[x] = 0
<1>6. \A y \in Objects : g[y] \in Int /\ a[y] \in Int /\ b[y] \in Int /\ refs[y] \in Int
  BY <1>1, <1>2, <1>3, <1>4
<1>7. "reader" \in Objects /\ "attributes" \in Objects /\ "byteStream" \in Objects
      /\ "cb" \in Objects /\ "istream" \in Objects
  BY DEF Objects
<1>8. /\ g["reader"] = refs["reader"] - One(f = "reader")
      /\ a["reader"] = g["reader"] /\ b["reader"] = g["reader"] /\ r["reader"] = g["reader"]
  <2>1. "reader" \notin holds["reader"] /\ "reader" \notin holds["attributes"]
        /\ "reader" \notin holds["byteStream"]
    BY DEF HoldsInv
  <2> QED
    BY <1>1, <1>3, <1>4, <1>5, <1>7, <2>1
<1>9. /\ a["attributes"] = refs["attributes"] - One(f = "attributes")
            - One(Dies("reader") /\ "attributes" \in holds["reader"])
      /\ b["attributes"] = a["attributes"] /\ r["attributes"] = a["attributes"]
  <2>1. "attributes" \notin holds["attributes"] /\ "attributes" \notin holds["byteStream"]
    BY DEF HoldsInv
  <2>2. b["attributes"] = a["attributes"] /\ r["attributes"] = a["attributes"]
    BY <1>4, <1>5, <1>7, <2>1
  <2> QED
    BY <1>1, <1>3, <1>7, <1>8, <2>2
<1>10. /\ a["byteStream"] = refs["byteStream"] - One(f = "byteStream")
             - One(Dies("reader") /\ "byteStream" \in holds["reader"])
       /\ b["byteStream"] = a["byteStream"] /\ r["byteStream"] = a["byteStream"]
  <2>1. "byteStream" \notin holds["attributes"] /\ "byteStream" \notin holds["byteStream"]
    BY DEF HoldsInv
  <2>2. b["byteStream"] = a["byteStream"] /\ r["byteStream"] = a["byteStream"]
    BY <1>4, <1>5, <1>7, <2>1
  <2> QED
    BY <1>1, <1>3, <1>7, <1>8, <2>2
<1>11. r["cb"] = refs["cb"] - One(f = "cb")
             - One(Dies("reader") /\ "cb" \in holds["reader"])
             - One(Dies("attributes") /\ "cb" \in holds["attributes"])
  <2>1. "cb" \notin holds["byteStream"]
    BY DEF HoldsInv
  <2>2. r["cb"] = b["cb"]
    BY <1>5, <1>7, <2>1
  <2> QED
    BY <1>1, <1>3, <1>4, <1>7, <1>8, <1>9, <2>2
<1>12. r["istream"] = refs["istream"] - One(f = "istream")
             - One(Dies("byteStream") /\ "istream" \in holds["byteStream"])
  <2>1. "istream" \notin holds["reader"] /\ "istream" \notin holds["attributes"]
    BY DEF HoldsInv
  <2>2. b["istream"] = g["istream"]
    BY <1>3, <1>4, <1>7, <2>1
  <2> QED
    BY <1>1, <1>5, <1>7, <1>10, <2>2
<1> QED
  BY <1>0, <1>5, <1>8, <1>9, <1>10, <1>11, <1>12

-----------------------------------------------------------------------------
(* The objects of the stream. *)

\* The fields in the order in which release looks at them.
LEMMA ReleaseOrderIs ==
    /\ Len(ReleaseOrder) = 7
    /\ ReleaseOrder \in Seq(Fields)
    /\ ReleaseOrder[1] = "samples" /\ ReleaseOrder[2] = "reader"
    /\ ReleaseOrder[3] = "attributes" /\ ReleaseOrder[4] = "byteStream"
    /\ ReleaseOrder[5] = "istream" /\ ReleaseOrder[6] = "cb"
    /\ ReleaseOrder[7] = "compressed"
    /\ Fields = {ReleaseOrder[j] : j \in 1..7}
<1>1. /\ Len(ReleaseOrder) = 7
      /\ ReleaseOrder[1] = "samples" /\ ReleaseOrder[2] = "reader"
      /\ ReleaseOrder[3] = "attributes" /\ ReleaseOrder[4] = "byteStream"
      /\ ReleaseOrder[5] = "istream" /\ ReleaseOrder[6] = "cb"
      /\ ReleaseOrder[7] = "compressed"
  BY DEF ReleaseOrder
<1>2. ReleaseOrder \in Seq(Fields)
  BY DEF ReleaseOrder, Fields, Objects
<1>3. 1..7 = {1, 2, 3, 4, 5, 6, 7}
  OBVIOUS
<1>4. Fields = {ReleaseOrder[j] : j \in 1..7}
  BY <1>1, <1>3 DEF Fields, Objects
<1> QED
  BY <1>1, <1>2, <1>4

\* What release does with the i-th field.
LEMMA ReleaseEffect ==
    ASSUME StreamInv, Release
    PROVE  \E i \in 1..7 :
              LET f == ReleaseOrder[i] IN
              /\ step = "releasing" /\ f \in Fields
              /\ fields \subseteq {ReleaseOrder[j] : j \in i..7}
              /\ fields' = fields \ {f} /\ UNCHANGED <<holds, gaveUp>>
              /\ \/ IsSet(f) /\ ReleaseObject(f)
                 \/ ~IsSet(f) /\ UNCHANGED <<refs, pinned>>
              /\ todo' \in Seq(Fields)
              /\ \/ /\ i = 7 /\ todo' = <<>> /\ step' = "released"
                 \/ /\ i < 7 /\ step' = "releasing"
                    /\ todo' = SubSeq(ReleaseOrder, i + 1, 7)
<1>1. step = "releasing" /\ todo # <<>>
  BY DEF Release
<1>2. PICK i \in 1..7 : /\ todo = SubSeq(ReleaseOrder, i, 7)
                        /\ fields \subseteq {ReleaseOrder[j] : j \in i..7}
  BY <1>1, ReleaseOrderIs DEF StreamInv, ReleasingInv
<1>3. Head(todo) = ReleaseOrder[i] /\ ReleaseOrder[i] \in Fields
  BY <1>2, ReleaseOrderIs
<1>4. Tail(todo) = SubSeq(ReleaseOrder, i + 1, 7)
  BY <1>2, ReleaseOrderIs
<1>5. /\ SubSeq(ReleaseOrder, i + 1, 7) \in Seq(Fields)
      /\ SubSeq(ReleaseOrder, i + 1, 7) = <<>> <=> i = 7
  <2>0. i \in Int /\ i + 1 \in Int /\ 7 \in Int /\ i <= 7
    BY <1>2
  <2>1. \A j \in (i + 1)..7 : ReleaseOrder[j] \in Fields
    <3>1. \A j \in (i + 1)..7 : j \in 1..7
      BY <1>2
    <3> QED
      BY <3>1, ReleaseOrderIs
  <2>2. /\ SubSeq(ReleaseOrder, i + 1, 7) \in Seq(Fields)
        /\ Len(SubSeq(ReleaseOrder, i + 1, 7)) = IF i + 1 <= 7 THEN 7 - (i + 1) + 1 ELSE 0
    BY <2>0, <2>1, SubSeqProperties
  <2>3. SubSeq(ReleaseOrder, i + 1, 7) = <<>> <=> Len(SubSeq(ReleaseOrder, i + 1, 7)) = 0
    BY <2>2, EmptySeq
  <2>4. (IF i + 1 <= 7 THEN 7 - (i + 1) + 1 ELSE 0) = 0 <=> i = 7
    BY <2>0
  <2> QED
    BY <2>2, <2>3, <2>4
<1>6. todo' = SubSeq(ReleaseOrder, i + 1, 7)
  BY <1>4 DEF Release
<1>7. step' = IF i = 7 THEN "released" ELSE "releasing"
  BY <1>1, <1>5, <1>6 DEF Release
<1>8. /\ fields' = fields \ {ReleaseOrder[i]} /\ UNCHANGED <<holds, gaveUp>>
      /\ \/ IsSet(ReleaseOrder[i]) /\ ReleaseObject(ReleaseOrder[i])
         \/ ~IsSet(ReleaseOrder[i]) /\ UNCHANGED <<refs, pinned>>
  BY <1>3 DEF Release
<1>9. i = 7 \/ i < 7
  BY <1>2
<1>10. \/ /\ i = 7 /\ todo' = <<>> /\ step' = "released"
       \/ /\ i < 7 /\ step' = "releasing" /\ todo' = SubSeq(ReleaseOrder, i + 1, 7)
  BY <1>5, <1>6, <1>7, <1>9
<1>11. todo' \in Seq(Fields)
  BY <1>5, <1>6
<1> HIDE DEF ReleaseOrder
<1> QED
  BY <1>1, <1>2, <1>3, <1>8, <1>10, <1>11

\* The steps of a stream.
StreamNext == Opening \/ GiveUp \/ CloseStream \/ Release

\* Where the stream is, and which fields it has.
LEMMA FieldsStep ==
    ASSUME StreamInv, StreamNext
    PROVE  /\ step' \in OpenPC \cup {"open", "releasing", "released"}
           /\ todo' \in Seq(Fields) /\ fields' \subseteq Fields
           /\ OpeningInv' /\ ReleasingInv' /\ GaveUpInv'
<1>t. /\ StreamTypeOK /\ OpeningInv /\ ReleasingInv /\ GaveUpInv
  BY DEF StreamInv
<1>r. /\ Len(ReleaseOrder) = 7 /\ ReleaseOrder \in Seq(Fields)
      /\ SubSeq(ReleaseOrder, 1, 7) = ReleaseOrder
      /\ {ReleaseOrder[j] : j \in 1..7} = Fields /\ 1 \in 1..7
  BY ReleaseOrderIs
<1> USE DEF objectVars, OpenPC, Objects
<1>1. CASE FailStep
  <2>1. step' = "releasing" /\ todo' = ReleaseOrder /\ UNCHANGED <<fields, gaveUp>>
        /\ ~gaveUp /\ "compressed" \in fields
    BY <1>t, <1>1 DEF FailStep, Fail, OpeningInv, ReleasingInv
  <2> QED
    BY <1>t, <1>r, <2>1 DEF StreamTypeOK, OpeningInv, ReleasingInv, GaveUpInv
<1>2. ASSUME NEW o, NEW H, NEW next, Create(o, H, next),
             \/ o = "istream" /\ next = "byteStream"
             \/ o = "byteStream" /\ next = "attributes"
             \/ o = "attributes" /\ next = "hardware" /\ H = {}
             \/ o = "reader" /\ next = "configure"
      PROVE  /\ step' \in OpenPC \cup {"open", "releasing", "released"}
             /\ todo' \in Seq(Fields) /\ fields' \subseteq Fields
             /\ OpeningInv' /\ ReleasingInv' /\ GaveUpInv'
  <2>1. /\ step = o /\ step' = next /\ fields' = fields \cup {o}
        /\ UNCHANGED <<todo, gaveUp>> /\ ~gaveUp /\ todo = <<>>
        /\ "compressed" \in fields
    BY <1>t, <1>2 DEF Create, OpeningInv, ReleasingInv
  <2>2. o = "attributes" => holds'["attributes"] = {}
    BY <1>t, <1>2 DEF Create, StreamTypeOK
  <2>3. fields' \subseteq Fields /\ todo' \in Seq(Fields)
    BY <1>t, <1>2, <2>1 DEF StreamTypeOK, Fields
  <2>4. OpeningInv'
    BY <1>t, <1>2, <2>1, <2>2 DEF OpeningInv
  <2>5. ReleasingInv' /\ GaveUpInv'
    BY <1>t, <1>2, <2>1 DEF ReleasingInv, GaveUpInv
  <2> QED
    BY <1>2, <2>1, <2>3, <2>4, <2>5
<1>3. CASE SetHardware \/ Configure \/ GetFormat
  BY <1>t, <1>3 DEF SetHardware, Configure, GetFormat, Advance, StreamTypeOK, OpeningInv,
                    ReleasingInv, GaveUpInv
<1>4. CASE SetCallback
  <2>1. CASE Fail
    <3>1. step' = "releasing" /\ todo' = ReleaseOrder /\ UNCHANGED gaveUp
          /\ fields' = fields \cup {"cb"} /\ ~gaveUp /\ "compressed" \in fields
      BY <1>t, <1>4, <2>1 DEF SetCallback, Fail, OpeningInv, ReleasingInv
    <3>2. fields' \subseteq Fields
      BY <1>t, <3>1 DEF StreamTypeOK, Fields
    <3> QED
      BY <1>t, <1>r, <3>1, <3>2 DEF StreamTypeOK, OpeningInv, ReleasingInv, GaveUpInv
  <2>2. CASE step' = "reader"
    BY <1>t, <1>4, <2>2 DEF SetCallback, Fail, StreamTypeOK, OpeningInv, ReleasingInv,
                            GaveUpInv, Fields
  <2> QED
    BY <1>4, <2>1, <2>2 DEF SetCallback
<1>5. CASE MakeSamples
  BY <1>t, <1>5 DEF MakeSamples, StreamTypeOK, OpeningInv, ReleasingInv, GaveUpInv, Fields
<1>6. CASE GiveUp
  BY <1>t, <1>6 DEF GiveUp, StreamTypeOK, OpeningInv, ReleasingInv, GaveUpInv
<1>7. CASE CloseStream
  <2>1. /\ step' = "releasing" /\ todo' = ReleaseOrder /\ UNCHANGED gaveUp
        /\ fields' \subseteq fields /\ "compressed" \in fields'
        /\ gaveUp => "reader" \notin fields'
    BY <1>t, <1>7 DEF CloseStream, ReleasingInv
  <2> QED
    BY <1>t, <1>r, <2>1 DEF StreamTypeOK, OpeningInv, ReleasingInv, GaveUpInv
<1>8. CASE Release
  <2>1. PICK i \in 1..7 :
              /\ step = "releasing" /\ ReleaseOrder[i] \in Fields
              /\ fields \subseteq {ReleaseOrder[j] : j \in i..7}
              /\ fields' = fields \ {ReleaseOrder[i]} /\ UNCHANGED gaveUp
              /\ todo' \in Seq(Fields)
              /\ \/ /\ i = 7 /\ todo' = <<>> /\ step' = "released"
                 \/ /\ i < 7 /\ step' = "releasing"
                    /\ todo' = SubSeq(ReleaseOrder, i + 1, 7)
    BY <1>8, ReleaseEffect DEF StreamInv
  <2>2. fields' \subseteq Fields
    BY <1>t, <2>1 DEF StreamTypeOK
  <2>3. CASE i = 7
    BY <1>t, <2>1, <2>2, <2>3 DEF OpeningInv, ReleasingInv, GaveUpInv
  <2>4. CASE i < 7
    <3>1. i + 1 \in 1..7 /\ fields' \subseteq {ReleaseOrder[j] : j \in (i + 1)..7}
      BY <2>1, <2>4
    <3>2. ReleaseOrder[i] # "compressed"
      BY <2>4, ReleaseOrderIs
    <3>3. step = "releasing" /\ step' = "releasing" /\ UNCHANGED gaveUp
          /\ "compressed" \in fields' /\ fields' \subseteq fields
          /\ todo' = SubSeq(ReleaseOrder, i + 1, 7)
      BY <1>t, <2>1, <2>4, <3>2 DEF ReleasingInv
    <3> HIDE DEF ReleaseOrder
    <3>4. ReleasingInv'
      BY <1>r, <3>1, <3>3 DEF ReleasingInv
    <3>5. OpeningInv' /\ GaveUpInv'
      BY <1>t, <3>3 DEF OpeningInv, GaveUpInv
    <3> QED
      BY <2>1, <2>2, <3>3, <3>4, <3>5
  <2> QED
    BY <2>3, <2>4
<1> QED
  BY <1>1, <1>2, <1>3, <1>4, <1>5, <1>6, <1>7, <1>8 DEF StreamNext, Opening, CreateIStream,
     CreateByteStream, CreateAttributes, CreateReader

\* Who holds whom, after a step.
LEMMA HoldsStep ==
    ASSUME StreamInv, StreamNext, \A o \in Objects : step = "releasing" => refs'[o] <= refs[o]
    PROVE  holds' \in [Objects -> SUBSET Objects] /\ HoldsInv'
<1>t. StreamTypeOK /\ HoldsInv /\ CountInv /\ OpeningInv
  BY DEF StreamInv
<1>h. refs \in [Objects -> Nat] /\ holds \in [Objects -> SUBSET Objects]
  BY <1>t DEF StreamTypeOK
<1>o. /\ "istream" \in Objects /\ "byteStream" \in Objects /\ "attributes" \in Objects
      /\ "cb" \in Objects /\ "reader" \in Objects
  BY DEF Objects
<1>0. CASE UNCHANGED <<refs, holds>>
  BY <1>t, <1>h, <1>0 DEF HoldsInv
<1>1. CASE CreateIStream
  <2>1. holds' = [holds EXCEPT !["istream"] = {}] /\ refs' = Added(refs, {"istream"})
    BY <1>1 DEF CreateIStream, Create
  <2>2. /\ refs'["byteStream"] = refs["byteStream"] /\ refs'["reader"] = refs["reader"]
    BY <1>h, <1>o, <2>1 DEF Added
  <2> QED
    BY <1>t, <1>h, <1>o, <2>1, <2>2 DEF HoldsInv
<1>2. CASE CreateByteStream
  <2>1. /\ holds' = [holds EXCEPT !["byteStream"] = {"istream"}]
        /\ refs' = Added(refs, {"istream", "byteStream"})
    BY <1>2 DEF CreateByteStream, Create
  <2>2. refs'["reader"] = refs["reader"]
    BY <1>h, <1>o, <2>1 DEF Added
  <2> QED
    BY <1>t, <1>h, <1>o, <2>1, <2>2 DEF HoldsInv
<1>3. CASE CreateAttributes
  <2>1. holds' = [holds EXCEPT !["attributes"] = {}] /\ refs' = Added(refs, {"attributes"})
    BY <1>3 DEF CreateAttributes, Create
  <2>2. /\ refs'["byteStream"] = refs["byteStream"] /\ refs'["reader"] = refs["reader"]
    BY <1>h, <1>o, <2>1 DEF Added
  <2> QED
    BY <1>t, <1>h, <1>o, <2>1, <2>2 DEF HoldsInv
<1>4. CASE CreateReader
  <2>1. /\ holds' = [holds EXCEPT !["reader"] = {"byteStream", "attributes", "cb"}]
        /\ refs' = Added(refs, {"byteStream", "attributes", "cb", "reader"})
    BY <1>4 DEF CreateReader, Create
  <2>2. step = "reader"
    BY <1>4 DEF CreateReader, Create
  <2>3. refs["byteStream"] > 0
    <3>1. "byteStream" \in fields
      BY <1>t, <2>2 DEF OpeningInv, OpenPC
    <3> QED
      BY <1>t, <3>1 DEF CountInv, One
  <2> QED
    BY <1>t, <1>h, <1>o, <2>1, <2>3 DEF HoldsInv
<1>5. CASE SetCallback
  <2>1. CASE UNCHANGED holds
    <3>1. refs' = Added(refs, {"cb"}) \/ refs' = [refs EXCEPT !["cb"] = @ + 2]
      BY <1>5 DEF SetCallback
    <3>2. /\ refs'["byteStream"] = refs["byteStream"] /\ refs'["reader"] = refs["reader"]
      BY <1>h, <1>o, <3>1 DEF Added
    <3> QED
      BY <1>t, <1>h, <2>1, <3>2 DEF HoldsInv
  <2>2. CASE /\ refs' = [refs EXCEPT !["cb"] = @ + 2]
             /\ holds' = [holds EXCEPT !["attributes"] = {"cb"}]
    BY <1>t, <1>h, <1>o, <2>2 DEF HoldsInv
  <2> QED
    BY <1>5, <2>1, <2>2 DEF SetCallback
<1>6. CASE Release
  <2>1. step = "releasing" /\ UNCHANGED holds
    BY <1>6 DEF Release
  <2>2. \A o \in Objects : refs'[o] > 0 => refs[o] > 0
    <3>1. CASE UNCHANGED refs
      BY <3>1
    <3>2. CASE \E f \in Objects : refs' = Released(f)
      <4>1. refs' \in [Objects -> Int]
        BY <1>t, <3>2, ReleasedCounts
      <4> QED
        BY <1>h, <2>1, <4>1
    <3> QED
      BY <1>6, <3>1, <3>2 DEF Release, ReleaseObject, IsSet
  <2> QED
    BY <1>t, <1>h, <1>o, <2>1, <2>2 DEF HoldsInv
<1> QED
  BY <1>0, <1>1, <1>2, <1>3, <1>4, <1>5, <1>6 DEF StreamNext, Opening, FailStep, SetHardware,
     Configure, GetFormat, Advance, MakeSamples, GiveUp, CloseStream, objectVars

\* The counts while Open acquires objects.
LEMMA OpeningCounts ==
    ASSUME StreamInv, Opening
    PROVE  refs' \in [Objects -> Nat] /\ CountInv' /\ PinnedWhileReferenced'
<1>t. StreamTypeOK /\ HoldsInv /\ CountInv /\ OpeningInv /\ GaveUpInv /\ PinnedWhileReferenced
  BY DEF StreamInv
<1>h. refs \in [Objects -> Nat] /\ holds \in [Objects -> SUBSET Objects]
  BY <1>t DEF StreamTypeOK
<1>o. /\ "istream" \in Objects /\ "byteStream" \in Objects /\ "attributes" \in Objects
      /\ "cb" \in Objects /\ "reader" \in Objects
  BY DEF Objects
<1>s. step \in OpenPC /\ ~gaveUp /\ UNCHANGED gaveUp
  BY <1>t DEF Opening, FailStep, CreateIStream, CreateByteStream, CreateAttributes,
     CreateReader, Create, SetHardware, Configure, GetFormat, Advance, SetCallback,
     MakeSamples, OpeningInv, OpenPC
<1>c. /\ refs["reader"] = One("reader" \in fields)
      /\ refs["attributes"] = One("attributes" \in fields) + One(Holds("reader", "attributes"))
      /\ refs["byteStream"] = One("byteStream" \in fields) + One(Holds("reader", "byteStream"))
      /\ refs["cb"] = One("cb" \in fields) + One(Holds("reader", "cb"))
                      + One(Holds("attributes", "cb"))
      /\ refs["istream"] = One("istream" \in fields) + One(Holds("byteStream", "istream"))
  BY <1>t, <1>s DEF CountInv, One
<1>0. CASE UNCHANGED <<refs, holds, pinned>> /\ \A o \in Objects : o \in fields' <=> o \in fields
  <2>1. CountInv'
    BY <1>t, <1>o, <1>s, <1>0 DEF CountInv, One, Holds
  <2> QED
    BY <1>t, <1>h, <1>0, <2>1 DEF PinnedWhileReferenced
<1>1. CASE CreateIStream
  <2>1. /\ holds' = [holds EXCEPT !["istream"] = {}] /\ refs' = Added(refs, {"istream"})
        /\ fields' = fields \cup {"istream"} /\ step = "istream" /\ UNCHANGED pinned
    BY <1>1 DEF CreateIStream, Create
  <2>2. /\ "istream" \notin fields /\ "reader" \notin fields /\ "byteStream" \notin fields
    BY <1>t, <2>1 DEF OpeningInv, OpenPC
  <2>3. refs["reader"] = 0 /\ refs["byteStream"] = 0 /\ refs["istream"] = 0
    BY <1>c, <1>h, <2>2 DEF One, Holds
  <2>4. /\ refs' \in [Objects -> Nat]
        /\ refs'["istream"] = 1 /\ \A o \in Objects \ {"istream"} : refs'[o] = refs[o]
        /\ \A o \in Objects \ {"istream"} : holds'[o] = holds[o]
    BY <1>h, <1>o, <2>1, <2>3 DEF Added
  <2>5. /\ refs'["reader"] = refs["reader"] /\ refs'["byteStream"] = refs["byteStream"]
        /\ refs'["attributes"] = refs["attributes"] /\ refs'["cb"] = refs["cb"]
        /\ holds'["reader"] = holds["reader"] /\ holds'["byteStream"] = holds["byteStream"]
        /\ holds'["attributes"] = holds["attributes"]
    BY <1>o, <2>4
  <2>6. CountInv'
    BY <1>s, <1>c, <2>1, <2>2, <2>3, <2>4, <2>5 DEF CountInv, One, Holds
  <2> QED
    BY <1>t, <2>1, <2>4, <2>5, <2>6 DEF PinnedWhileReferenced
<1>2. CASE CreateByteStream
  <2>1. /\ holds' = [holds EXCEPT !["byteStream"] = {"istream"}]
        /\ refs' = Added(refs, {"istream", "byteStream"})
        /\ fields' = fields \cup {"byteStream"} /\ step = "byteStream" /\ UNCHANGED pinned
    BY <1>2 DEF CreateByteStream, Create
  <2>2. /\ "istream" \in fields /\ "reader" \notin fields /\ "byteStream" \notin fields
    BY <1>t, <2>1 DEF OpeningInv, OpenPC
  <2>3. refs["reader"] = 0 /\ refs["byteStream"] = 0 /\ refs["istream"] = 1
    BY <1>c, <1>h, <2>2 DEF One, Holds
  <2>4. /\ refs' \in [Objects -> Nat]
        /\ refs'["istream"] = 2 /\ refs'["byteStream"] = 1
        /\ refs'["reader"] = refs["reader"]
        /\ refs'["attributes"] = refs["attributes"] /\ refs'["cb"] = refs["cb"]
    BY <1>h, <1>o, <2>1, <2>3 DEF Added
  <2>5. /\ holds'["reader"] = holds["reader"] /\ holds'["byteStream"] = {"istream"}
        /\ holds'["attributes"] = holds["attributes"]
    BY <1>h, <1>o, <2>1
  <2>6. CountInv'
    BY <1>s, <1>c, <2>1, <2>2, <2>3, <2>4, <2>5 DEF CountInv, One, Holds
  <2> QED
    BY <1>t, <2>1, <2>4, <2>6 DEF PinnedWhileReferenced
<1>3. CASE CreateAttributes
  <2>1. /\ holds' = [holds EXCEPT !["attributes"] = {}]
        /\ refs' = Added(refs, {"attributes"})
        /\ fields' = fields \cup {"attributes"} /\ step = "attributes" /\ UNCHANGED pinned
    BY <1>3 DEF CreateAttributes, Create
  <2>2. /\ "attributes" \notin fields /\ "reader" \notin fields
    BY <1>t, <2>1 DEF OpeningInv, OpenPC
  <2>3. refs["reader"] = 0 /\ refs["attributes"] = 0
    BY <1>c, <1>h, <2>2 DEF One, Holds
  <2>4. /\ refs' \in [Objects -> Nat]
        /\ refs'["attributes"] = 1 /\ refs'["istream"] = refs["istream"]
        /\ refs'["reader"] = refs["reader"]
        /\ refs'["byteStream"] = refs["byteStream"] /\ refs'["cb"] = refs["cb"]
    BY <1>h, <1>o, <2>1, <2>3 DEF Added
  <2>5. /\ holds'["reader"] = holds["reader"] /\ holds'["byteStream"] = holds["byteStream"]
        /\ holds'["attributes"] = {}
    BY <1>h, <1>o, <2>1
  <2>6. CountInv'
    BY <1>s, <1>c, <2>1, <2>2, <2>3, <2>4, <2>5 DEF CountInv, One, Holds
  <2> QED
    BY <1>t, <2>1, <2>4, <2>6 DEF PinnedWhileReferenced
<1>4. CASE CreateReader
  <2>1. /\ holds' = [holds EXCEPT !["reader"] = {"byteStream", "attributes", "cb"}]
        /\ refs' = Added(refs, {"byteStream", "attributes", "cb", "reader"})
        /\ fields' = fields \cup {"reader"} /\ step = "reader" /\ UNCHANGED pinned
    BY <1>4 DEF CreateReader, Create
  <2>2. /\ "attributes" \in fields /\ "reader" \notin fields /\ "byteStream" \in fields
        /\ "cb" \in fields
    BY <1>t, <2>1 DEF OpeningInv, OpenPC
  <2>3. refs["reader"] = 0
    BY <1>c, <1>h, <2>2 DEF One, Holds
  <2>4. /\ refs' \in [Objects -> Nat]
        /\ refs'["reader"] = 1 /\ refs'["istream"] = refs["istream"]
        /\ refs'["attributes"] = refs["attributes"] + 1
        /\ refs'["byteStream"] = refs["byteStream"] + 1 /\ refs'["cb"] = refs["cb"] + 1
    BY <1>h, <1>o, <2>1, <2>3 DEF Added
  <2>5. /\ holds'["reader"] = {"byteStream", "attributes", "cb"}
        /\ holds'["byteStream"] = holds["byteStream"]
        /\ holds'["attributes"] = holds["attributes"]
    BY <1>h, <1>o, <2>1
  <2>6. /\ refs["attributes"] = 1 /\ refs["byteStream"] = 1
        /\ refs["cb"] = 1 + One(Holds("attributes", "cb"))
        /\ refs["istream"] = One("istream" \in fields) + One(Holds("byteStream", "istream"))
    BY <1>c, <2>2, <2>3 DEF One, Holds
  <2>7. CountInv'
    BY <1>s, <2>1, <2>2, <2>4, <2>5, <2>6 DEF CountInv, One, Holds
  <2> QED
    BY <1>t, <1>h, <1>o, <2>1, <2>4, <2>6, <2>7 DEF PinnedWhileReferenced, One
<1>5. CASE SetCallback
  <2>1. step = "cb" /\ fields' = fields \cup {"cb"} /\ pinned'
    BY <1>5 DEF SetCallback
  <2>2. /\ "attributes" \in fields /\ "reader" \notin fields /\ "byteStream" \in fields
        /\ "cb" \notin fields /\ holds["attributes"] = {}
    BY <1>t, <2>1 DEF OpeningInv, OpenPC
  <2>3. refs["reader"] = 0 /\ refs["attributes"] = 1 /\ refs["cb"] = 0
    BY <1>c, <1>h, <2>2 DEF One, Holds
  <2>4. /\ refs' \in [Objects -> Nat]
        /\ refs'["reader"] = refs["reader"] /\ refs'["istream"] = refs["istream"]
        /\ refs'["attributes"] = refs["attributes"]
        /\ refs'["byteStream"] = refs["byteStream"]
        /\ \/ refs'["cb"] = 1 /\ holds' = holds
           \/ refs'["cb"] = 2 /\ holds' = [holds EXCEPT !["attributes"] = {"cb"}]
    BY <1>h, <1>o, <1>5, <2>3 DEF SetCallback, Added
  <2>5. /\ holds'["reader"] = holds["reader"] /\ holds'["byteStream"] = holds["byteStream"]
        /\ \/ refs'["cb"] = 1 /\ holds'["attributes"] = {}
           \/ refs'["cb"] = 2 /\ holds'["attributes"] = {"cb"}
    BY <1>h, <1>o, <2>2, <2>4
  <2>6. CountInv'
    BY <1>s, <1>c, <2>1, <2>2, <2>3, <2>4, <2>5 DEF CountInv, One, Holds
  <2>7. refs'["cb"] > 0
    BY <2>5
  <2> QED
    BY <2>1, <2>4, <2>6, <2>7 DEF PinnedWhileReferenced
<1>6. CASE MakeSamples
  <2>1. UNCHANGED <<refs, holds, pinned>> /\ fields' = fields \cup {"samples"}
    BY <1>6 DEF MakeSamples
  <2> QED
    BY <1>0, <2>1 DEF Objects
<1> QED
  BY <1>0, <1>1, <1>2, <1>3, <1>4, <1>5, <1>6 DEF Opening, FailStep, SetHardware,
     Configure, GetFormat, Advance, objectVars

\* The counts when release gives up the reference of a field.
LEMMA ReleaseCounts ==
    ASSUME StreamInv, NEW f \in Objects, f \in fields, f = "reader" => ~gaveUp,
           refs' = Released(f), fields' = fields \ {f}, UNCHANGED <<holds, gaveUp>>
    PROVE  /\ refs' \in [Objects -> Nat] /\ CountInv'
           /\ \A o \in Objects : refs'[o] <= refs[o]
<1>t. StreamTypeOK /\ HoldsInv /\ CountInv
  BY DEF StreamInv
<1>h. refs \in [Objects -> Nat] /\ holds \in [Objects -> SUBSET Objects]
  BY <1>t DEF StreamTypeOK
<1>o. /\ Objects = {"istream", "byteStream", "attributes", "cb", "reader"}
      /\ \A o \in Objects : refs[o] \in Nat
  BY <1>h DEF Objects
<1> DEFINE Dies(x) == refs[x] > 0 /\ refs'[x] = 0
<1>1. /\ refs' \in [Objects -> Int]
      /\ refs'["reader"] = refs["reader"] - One(f = "reader")
      /\ refs'["attributes"] = refs["attributes"] - One(f = "attributes")
            - One(Dies("reader") /\ "attributes" \in holds["reader"])
      /\ refs'["byteStream"] = refs["byteStream"] - One(f = "byteStream")
            - One(Dies("reader") /\ "byteStream" \in holds["reader"])
      /\ refs'["cb"] = refs["cb"] - One(f = "cb")
            - One(Dies("reader") /\ "cb" \in holds["reader"])
            - One(Dies("attributes") /\ "cb" \in holds["attributes"])
      /\ refs'["istream"] = refs["istream"] - One(f = "istream")
            - One(Dies("byteStream") /\ "istream" \in holds["byteStream"])
  BY <1>t, ReleasedCounts
<1>2. /\ refs'["reader"] = One("reader" \in fields') + One(gaveUp' /\ "reader" \notin fields')
      /\ 0 <= refs'["reader"] /\ refs'["reader"] <= refs["reader"]
  BY <1>t, <1>1 DEF CountInv, One
<1>3. /\ refs'["attributes"] = One("attributes" \in fields')
            + One(refs'["reader"] > 0 /\ "attributes" \in holds'["reader"])
      /\ 0 <= refs'["attributes"] /\ refs'["attributes"] <= refs["attributes"]
  BY <1>t, <1>o, <1>1, <1>2 DEF CountInv, One, Holds
<1>4. /\ refs'["byteStream"] = One("byteStream" \in fields')
            + One(refs'["reader"] > 0 /\ "byteStream" \in holds'["reader"])
      /\ 0 <= refs'["byteStream"] /\ refs'["byteStream"] <= refs["byteStream"]
  BY <1>t, <1>o, <1>1, <1>2 DEF CountInv, One, Holds
<1>5. /\ refs'["cb"] = One("cb" \in fields')
            + One(refs'["reader"] > 0 /\ "cb" \in holds'["reader"])
            + One(refs'["attributes"] > 0 /\ "cb" \in holds'["attributes"])
      /\ 0 <= refs'["cb"] /\ refs'["cb"] <= refs["cb"]
  BY <1>t, <1>o, <1>1, <1>2, <1>3 DEF CountInv, One, Holds
<1>6. /\ refs'["istream"] = One("istream" \in fields')
            + One(refs'["byteStream"] > 0 /\ "istream" \in holds'["byteStream"])
      /\ 0 <= refs'["istream"] /\ refs'["istream"] <= refs["istream"]
  BY <1>t, <1>o, <1>1, <1>4 DEF CountInv, One, Holds
<1>7. \A o \in Objects : 0 <= refs'[o] /\ refs'[o] <= refs[o]
  BY <1>o, <1>2, <1>3, <1>4, <1>5, <1>6
<1>8. refs' \in [Objects -> Nat]
  BY <1>1, <1>7
<1>9. CountInv'
  BY <1>2, <1>3, <1>4, <1>5, <1>6 DEF CountInv, Holds
<1> QED
  BY <1>7, <1>8, <1>9

\* Every step of the stream keeps what is said of it.
LEMMA StreamStep ==
    ASSUME StreamInv, StreamNext
    PROVE  StreamInv'
<1>t. StreamTypeOK /\ HoldsInv /\ CountInv /\ OpeningInv /\ GaveUpInv /\ PinnedWhileReferenced
  BY DEF StreamInv
<1>f. /\ step' \in OpenPC \cup {"open", "releasing", "released"}
      /\ todo' \in Seq(Fields) /\ fields' \subseteq Fields
      /\ OpeningInv' /\ ReleasingInv' /\ GaveUpInv'
  BY FieldsStep
<1>b. pinned' \in BOOLEAN /\ gaveUp' \in BOOLEAN
  BY <1>t DEF StreamNext, Opening, FailStep, CreateIStream, CreateByteStream, CreateAttributes,
     CreateReader, Create, SetHardware, Configure, GetFormat, Advance, SetCallback, MakeSamples,
     GiveUp, CloseStream, Release, ReleaseObject, objectVars, StreamTypeOK
<1>1. /\ refs' \in [Objects -> Nat] /\ CountInv' /\ PinnedWhileReferenced'
      /\ \A o \in Objects : step = "releasing" => refs'[o] <= refs[o]
  <2>1. CASE Opening
    <3>1. step # "releasing"
      BY <2>1 DEF Opening, FailStep, CreateIStream, CreateByteStream, CreateAttributes,
         CreateReader, Create, SetHardware, Configure, GetFormat, Advance, SetCallback,
         MakeSamples, OpenPC
    <3> QED
      BY <2>1, <3>1, OpeningCounts
  <2>2. CASE GiveUp
    <3>1. /\ step = "open" /\ UNCHANGED <<fields, refs, holds, pinned>> /\ "reader" \in fields
      BY <1>t, <2>2 DEF GiveUp, objectVars, OpeningInv
    <3>2. CountInv'
      BY <1>t, <3>1 DEF CountInv, One, Holds
    <3> QED
      BY <1>t, <3>1, <3>2 DEF StreamTypeOK, PinnedWhileReferenced
  <2>3. CASE CloseStream
    <3>1. /\ step = "open" /\ UNCHANGED <<refs, holds, pinned, gaveUp>>
          /\ "reader" \in fields
          /\ fields' = IF gaveUp THEN fields \ {"reader"} ELSE fields
      BY <1>t, <2>3 DEF CloseStream, OpeningInv
    <3>2. /\ "reader" \in fields' <=> ~gaveUp
          /\ "attributes" \in fields' <=> "attributes" \in fields
          /\ "byteStream" \in fields' <=> "byteStream" \in fields
          /\ "cb" \in fields' <=> "cb" \in fields
          /\ "istream" \in fields' <=> "istream" \in fields
      BY <3>1
    <3>3. CountInv'
      BY <1>t, <3>1, <3>2 DEF CountInv, One, Holds
    <3> QED
      BY <1>t, <3>1, <3>3 DEF StreamTypeOK, PinnedWhileReferenced
  <2>4. CASE Release
    <3>1. PICK f \in Fields : /\ step = "releasing"
                              /\ fields' = fields \ {f} /\ UNCHANGED <<holds, gaveUp>>
                              /\ \/ IsSet(f) /\ ReleaseObject(f)
                                 \/ ~IsSet(f) /\ UNCHANGED <<refs, pinned>>
      BY <2>4, ReleaseEffect
    <3>2. CASE ~IsSet(f) /\ UNCHANGED <<refs, pinned>>
      <4>1. \A o \in Objects : o \in fields' <=> o \in fields
        BY <3>1, <3>2 DEF IsSet
      <4>2. CountInv'
        BY <1>t, <3>1, <3>2, <4>1 DEF CountInv, One, Holds, Objects
      <4> QED
        BY <1>t, <3>2, <4>2 DEF StreamTypeOK, PinnedWhileReferenced
    <3>3. CASE IsSet(f) /\ ReleaseObject(f)
      <4>1. /\ f \in Objects /\ f \in fields /\ (f = "reader" => ~gaveUp)
            /\ refs' = Released(f) /\ pinned' = (pinned /\ refs'["cb"] > 0)
        BY <3>3 DEF IsSet, ReleaseObject
      <4>2. /\ refs' \in [Objects -> Nat] /\ CountInv'
            /\ \A o \in Objects : refs'[o] <= refs[o]
        BY <3>1, <4>1, ReleaseCounts
      <4>3. refs'["cb"] > 0 => refs["cb"] > 0
        <5>1. "cb" \in Objects /\ refs["cb"] \in Nat /\ refs'["cb"] \in Nat
          BY <1>t, <4>2 DEF StreamTypeOK, Objects
        <5> QED
          BY <4>2, <5>1
      <4>4. PinnedWhileReferenced'
        BY <1>t, <4>1, <4>3 DEF PinnedWhileReferenced
      <4> QED
        BY <4>2, <4>4
    <3> QED
      BY <3>1, <3>2, <3>3
  <2> QED
    BY <2>1, <2>2, <2>3, <2>4 DEF StreamNext
<1>2. holds' \in [Objects -> SUBSET Objects] /\ HoldsInv'
  BY <1>1, HoldsStep
<1>3. StreamTypeOK'
  BY <1>f, <1>b, <1>1, <1>2 DEF StreamTypeOK
<1> QED
  BY <1>f, <1>1, <1>2, <1>3 DEF StreamInv

-----------------------------------------------------------------------------
(* The process. *)

\* The invariant holds when the process starts.
LEMMA InitInv == ProcessInit => IInv
<1> SUFFICES ASSUME ProcessInit PROVE IInv
  OBVIOUS
<1> USE DEF ProcessInit, Init, StreamInit
<1>1. PlatformInv
  <2>1. TypeOK
    BY StartupAssumption DEF TypeOK, Procs
  <2>2. Cardinality(started) = 0 /\ IsFiniteSet(started)
    BY FS_EmptySet
  <2>3. NoNilCall /\ LoadInv
    BY DEF NoNilCall, LoadInv
  <2> QED
    BY <2>1, <2>2, <2>3 DEF PlatformInv, PlatformPaired
<1>2. StreamInv
  <2>1. StreamTypeOK
    BY EmptySeq DEF StreamTypeOK, Fields, Objects, OpenPC
  <2>2. OpeningInv /\ ReleasingInv /\ GaveUpInv
    BY DEF OpeningInv, ReleasingInv, GaveUpInv, OpenPC
  <2>3. HoldsInv /\ CountInv /\ PinnedWhileReferenced
    BY DEF HoldsInv, CountInv, One, Holds, PinnedWhileReferenced, Objects
  <2> QED
    BY <2>1, <2>2, <2>3 DEF StreamInv
<1>3. UserInv
  BY DEF UserInv, InUse
<1> QED
  BY <1>1, <1>2, <1>3 DEF IInv

\* And every step of the process keeps it.
LEMMA ProcessStep ==
    ASSUME IInv, [ProcessNext]_allVars
    PROVE  IInv'
<1>t. PlatformInv /\ StreamInv /\ UserInv
  BY DEF IInv
<1>p. ASSUME UNCHANGED vars PROVE PlatformInv'
  BY <1>t, <1>p DEF vars, counts, PlatformInv, PlatformPaired, TypeOK, NoNilCall, LoadInv
<1>s. ASSUME UNCHANGED streamVars PROVE StreamInv'
  <2> USE <1>t, <1>s DEF streamVars, objectVars, StreamInv
  <2>1. StreamTypeOK' /\ PinnedWhileReferenced' /\ GaveUpInv'
    BY DEF StreamTypeOK, PinnedWhileReferenced, GaveUpInv
  <2>2. OpeningInv'
    BY DEF OpeningInv
  <2>3. ReleasingInv'
    BY DEF ReleasingInv
  <2>4. HoldsInv'
    BY DEF HoldsInv
  <2>5. CountInv'
    BY DEF CountInv, Holds
  <2> QED
    BY <2>1, <2>2, <2>3, <2>4, <2>5
<1>1. CASE UNCHANGED allVars
  <2>1. UNCHANGED vars /\ UNCHANGED streamVars /\ UNCHANGED user
    BY <1>1 DEF allVars
  <2>2. UserInv'
    BY <1>t, <2>1 DEF vars, streamVars, UserInv, InUse
  <2> QED
    BY <1>p, <1>s, <2>1, <2>2 DEF IInv
<1>2. CASE OpenStep \/ UseStream
  <2>1. InUse /\ StreamNext /\ UNCHANGED vars /\ UNCHANGED user
    BY <1>2 DEF OpenStep, UseStream, StreamNext
  <2>2. PlatformInv' /\ StreamInv'
    BY <1>t, <1>p, <2>1, StreamStep
  <2>3. UserInv'
    BY <1>t, <2>1 DEF UserInv, InUse, vars
  <2> QED
    BY <2>2, <2>3 DEF IInv
<1>3. CASE OpenPanics
  <2>1. /\ InUse /\ CallsNil /\ pc' = [pc EXCEPT ![user] = "panic"]
        /\ UNCHANGED <<lacks, once, resolved, result, started, counts, calls, user>>
        /\ UNCHANGED streamVars /\ pc[user] = "idle"
    BY <1>3 DEF OpenPanics, Goto
  <2>2. user \in started /\ once.done
    BY <1>t, <2>1 DEF UserInv, PlatformInv, LoadInv
  <2>3. lacks # 0
    <3>1. SUFFICES ASSUME lacks = 0 PROVE FALSE
      OBVIOUS
    <3>2. resolved = Len(Procs)
      BY <1>t, <2>2, <3>1 DEF PlatformInv, LoadInv
    <3>3. PICK st \in DOMAIN EntryPoint : ~IsResolved(EntryPoint[st])
      BY <2>1 DEF CallsNil
    <3> QED
      BY <3>2, <3>3, AllResolved DEF EntryPoint
  <2>4. TypeOK'
    BY <1>t, <2>1 DEF PlatformInv, PlatformPaired, TypeOK, counts
  <2>5. NoNilCall' /\ LoadInv'
    BY <1>t, <2>1, <2>3 DEF PlatformInv, PlatformPaired, TypeOK, NoNilCall, LoadInv
  <2>6. PlatformInv'
    BY <1>t, <2>1, <2>4, <2>5 DEF PlatformInv, PlatformPaired, counts
  <2>7. UserInv'
    BY <1>t, <2>1 DEF UserInv, InUse, streamVars
  <2> QED
    BY <1>s, <2>1, <2>6, <2>7 DEF IInv
<1>4. ASSUME NEW c \in Callers, CreateDecoder(c) \/ CloseDecoder(c)
      PROVE  IInv'
  <2>1. /\ Running(c) \/ Startup(c) \/ Shutdown(c)
        /\ UNCHANGED streamVars /\ UNCHANGED user
    BY <1>4 DEF CreateDecoder, CloseDecoder
  <2>2. PlatformPaired' /\ IsFiniteSet(started)' /\ NoNilCall' /\ LoadInv'
    BY <1>t, <2>1, PairedStep, LoadStep
  <2>3. \/ started \subseteq started'
        \/ started' = started \ {c} /\ Awaited(c)
    BY <1>4 DEF CreateDecoder, CloseDecoder, Running, Startup, OnceFirst, OncePast, Resolve,
       Loaded, LoadFails, CallStartup, Shutdown, Return
  <2>4. UserInv'
    BY <1>t, <2>1, <2>3 DEF UserInv, InUse, Awaited, streamVars
  <2> QED
    BY <1>s, <2>1, <2>2, <2>4 DEF IInv, PlatformInv
<1>5. ASSUME NEW c \in Callers, OpenStream(c)
      PROVE  IInv'
  <2>1. /\ user' = c /\ c \in started /\ UNCHANGED vars /\ UNCHANGED streamVars
    BY <1>5 DEF OpenStream
  <2>2. UserInv'
    BY <2>1, StartupAssumption DEF UserInv, InUse, vars
  <2> QED
    BY <1>p, <1>s, <2>1, <2>2 DEF IInv
<1> QED
  BY <1>1, <1>2, <1>3, <1>4, <1>5 DEF ProcessNext

\* The inductive invariant holds in every state the process reaches.
THEOREM Invariance == ProcessSpec => []IInv
<1>1. ProcessInit => IInv
  BY InitInv
<1>2. IInv /\ [ProcessNext]_allVars => IInv'
  BY ProcessStep
<1> QED
  BY <1>1, <1>2, PTL DEF ProcessSpec

-----------------------------------------------------------------------------
(* The properties. *)

\* Every MFStartup that succeeded is undone by one MFShutdown, unless the
\* platform refuses it, and one that failed is not, with any number of
\* goroutines.
THEOREM StartupsArePaired == ProcessSpec => []PlatformPaired
<1>1. IInv => PlatformPaired
  BY DEF IInv, PlatformInv
<1> QED
  BY <1>1, Invariance, PTL

\* On a machine that has all entry points none is called while it is nil.
THEOREM EntryPointsAreResolved == ProcessSpec => []NoNilCall
<1>1. IInv => NoNilCall
  BY DEF IInv, PlatformInv
<1> QED
  BY <1>1, Invariance, PTL

\* Reference counts are exact, through a failed Open and a Close.
THEOREM ReferencesAreCounted == ProcessSpec => []RefsCount
<1>1. IInv => RefsCount
  BY CountsAgree DEF IInv, StreamInv
<1> QED
  BY <1>1, Invariance, PTL

\* A reader that was given up on keeps what it may still use.
LEMMA GivenUpIsWhole ==
    ASSUME StreamInv, gaveUp
    PROVE  \A o \in Objects : refs[o] > 0
<1>t. StreamTypeOK /\ HoldsInv /\ CountInv
  BY DEF StreamInv
<1>1. refs["reader"] = 1
  BY <1>t DEF CountInv, One
<1>2. holds["reader"] = {"byteStream", "attributes", "cb"}
  BY <1>t, <1>1 DEF HoldsInv
<1>3. refs["byteStream"] > 0 /\ refs["attributes"] > 0 /\ refs["cb"] > 0
  BY <1>t, <1>1, <1>2 DEF CountInv, One, Holds
<1>4. holds["byteStream"] = {"istream"}
  BY <1>t, <1>3 DEF HoldsInv
<1>5. refs["istream"] > 0
  BY <1>t, <1>3, <1>4 DEF CountInv, One, Holds
<1> QED
  BY <1>1, <1>3, <1>5 DEF Objects

\* Without one, objects to which no field refers are gone.
LEMMA UnreferencedIsGone ==
    ASSUME StreamInv, ~gaveUp, \A o \in Objects : o \notin fields
    PROVE  \A o \in Objects : refs[o] = 0
<1>t. CountInv
  BY DEF StreamInv
<1>1. refs["reader"] = 0
  BY <1>t DEF CountInv, One, Objects
<1>2. refs["byteStream"] = 0 /\ refs["attributes"] = 0
  BY <1>t, <1>1 DEF CountInv, One, Holds, Objects
<1>3. refs["cb"] = 0 /\ refs["istream"] = 0
  BY <1>t, <1>1, <1>2 DEF CountInv, One, Holds, Objects
<1> QED
  BY <1>1, <1>2, <1>3 DEF Objects

\* Whichever step of Open failed, and after every Close, nothing is left but a
\* reader that was given up on, with all it holds.
THEOREM ReleaseLeavesNothing == ProcessSpec => []NothingLeaks
<1>1. IInv => NothingLeaks
  <2> SUFFICES ASSUME IInv, step = "released" PROVE NothingLeaks
    BY DEF NothingLeaks
  <2>1. fields = {} /\ PinnedWhileReferenced /\ StreamInv
    BY DEF IInv, StreamInv, ReleasingInv
  <2>2. gaveUp => \A o \in Objects : refs[o] > 0
    BY <2>1, GivenUpIsWhole
  <2>3. ~gaveUp => \A o \in Objects : refs[o] = 0
    BY <2>1, UnreferencedIsGone
  <2>4. "cb" \in Objects /\ ~(0 > 0)
    BY DEF Objects
  <2>5. \A o \in Objects : refs[o] > 0 <=> gaveUp
    BY <2>2, <2>3, <2>4
  <2>6. pinned <=> gaveUp
    BY <2>1, <2>4, <2>5 DEF PinnedWhileReferenced
  <2> QED
    BY <2>1, <2>5, <2>6 DEF NothingLeaks
<1> QED
  BY <1>1, Invariance, PTL

\* The compressed audio outlives the memory stream that reads from it.
THEOREM BufferOutlivesStream == ProcessSpec => []BufferRetained
<1>1. IInv => BufferRetained
  <2> SUFFICES ASSUME IInv, ~gaveUp, refs["istream"] > 0 PROVE "compressed" \in fields
    BY DEF BufferRetained
  <2>1. StreamInv
    BY DEF IInv
  <2>2. step # "released"
    <3>1. SUFFICES ASSUME step = "released" PROVE FALSE
      OBVIOUS
    <3>2. fields = {}
      BY <2>1, <3>1 DEF StreamInv, ReleasingInv
    <3>3. refs["istream"] = 0
      BY <2>1, <3>2, UnreferencedIsGone DEF Objects
    <3> QED
      BY <3>3
  <2> QED
    BY <2>1, <2>2 DEF StreamInv, ReleasingInv
<1> QED
  BY <1>1, Invariance, PTL

\* The platform is up under every stream in use; only a reader that was given
\* up on outlives it, whole.
THEOREM PlatformIsUpUnderStreams == ProcessSpec => []PlatformOutlastsStreams
<1>1. IInv => PlatformOutlastsStreams
  <2> SUFFICES ASSUME IInv, platform = 0
               PROVE  /\ ~InUse
                      /\ \A o \in Objects : refs[o] > 0 => gaveUp
                      /\ refs["reader"] > 0
                            => pinned /\ \A o \in holds["reader"] : refs[o] > 0
    BY DEF PlatformOutlastsStreams
  <2>1. StreamInv /\ UserInv /\ Cardinality(started) = 0 /\ IsFiniteSet(started)
    <3>1. /\ IsFiniteSet(started) /\ platform = Cardinality(started) + refused
          /\ refused \in Nat
      BY DEF IInv, PlatformInv, PlatformPaired, TypeOK
    <3>2. Cardinality(started) \in Nat
      BY <3>1, FS_CardinalityType
    <3> QED
      BY <3>1, <3>2 DEF IInv
  <2>2. ~InUse
    <3>1. started = {}
      BY <2>1, FS_EmptySet
    <3> QED
      BY <2>1, <3>1 DEF UserInv
  <2>3. ASSUME ~gaveUp PROVE \A o \in Objects : refs[o] = 0
    <3>1. \A o \in Objects : o \notin fields
      <4>1. CASE user = NoCaller
        <5>1. step = "istream"
          BY <2>1, <4>1 DEF UserInv
        <5>2. step = "istream" => OpeningInv
          BY <2>1 DEF StreamInv
        <5> QED
          BY <5>1, <5>2 DEF OpeningInv, OpenPC, Objects
      <4>2. CASE step = "released"
        BY <2>1, <4>2 DEF StreamInv, ReleasingInv
      <4> QED
        BY <2>2, <4>1, <4>2 DEF InUse
    <3> QED
      BY <2>1, <2>3, <3>1, UnreferencedIsGone
  <2>4. ~(0 > 0) /\ "reader" \in Objects /\ "cb" \in Objects
    BY DEF Objects
  <2>5. \A o \in Objects : refs[o] > 0 => gaveUp
    BY <2>3, <2>4
  <2>6. ASSUME refs["reader"] > 0
        PROVE  pinned /\ \A o \in holds["reader"] : refs[o] > 0
    <3>1. \A o \in Objects : refs[o] > 0
      BY <2>1, <2>4, <2>5, <2>6, GivenUpIsWhole
    <3>2. holds["reader"] \subseteq Objects
      BY <2>1, <2>4 DEF StreamInv, StreamTypeOK
    <3> QED
      BY <2>1, <2>4, <3>1, <3>2 DEF StreamInv, PinnedWhileReferenced
  <2> QED
    BY <2>2, <2>5, <2>6
<1> QED
  BY <1>1, Invariance, PTL
=============================================================================
