---------------------------- MODULE StorageProofs ----------------------------
(***************************************************************************)
(* Proofs about the storage interception and the terrain phases over it,   *)
(* about the patcher of the executable and about the texture converters.   *)
(* An open passes its stages while another thread registers: the invariant *)
(* OpenInv says that the lists only grow at their ends, so that whoever    *)
(* came first in a list when the open began is still first when the stage  *)
(* looks at it, and that each stage left behind has settled its part of    *)
(* the answer.  For the phases, PhaseInv relates the two tables of tiles   *)
(* and the remembered base map.  For the patcher, PatchInv says what each  *)
(* of the three files may hold at each place of a run; that every image it *)
(* makes is sound needs no invariant, only what AddImport and the scripts  *)
(* do to the image of a build laid out as LayoutAssumption says.  For the  *)
(* converters, FilesInv says what every level written so far is (Written)  *)
(* and what each phase of a conversion may rely on, and PixelsInv that the *)
(* boxes of a palette (Boxed) part the colours of the block between them.  *)
(***************************************************************************)
EXTENDS Phasing, Patcher, TextureConverters, FiniteSetTheorems, SequenceTheorems,
        WellFoundedInduction, TLAPS

USE StorageAssumption DEF StorageAssumption

-----------------------------------------------------------------------------
(* Lemmas on the least of a set and on the first of a list.                *)

LEMMA LeastExists ==
    ASSUME NEW S, S \subseteq Nat, S # {}
    PROVE  \E x \in S : \A y \in S : x <= y
<1> DEFINE R == OpToRel(<, Nat)
<1>1. IsWellFoundedOn(R, Nat)
  BY NatLessThanWellFounded
<1>2. R = {ss \in Nat \X Nat : ss[1] < ss[2]}
  BY DEF OpToRel
<1> HIDE DEF R
<1>3. PICK x \in S : \A y \in S : ~(<<y, x>> \in R)
  BY <1>1, WFMin
<1>4. \A y \in S : ~(y < x)
  BY <1>2, <1>3
<1>5. QED
  BY <1>3, <1>4

LEMMA MinOfNaturals ==
    ASSUME NEW S, S \subseteq Nat, S # {}
    PROVE  Min(S) \in S /\ \A y \in S : Min(S) <= y
  BY LeastExists DEF Min

LEMMA MaxWithZero ==
    ASSUME NEW a \in Int
    PROVE  Max({a, 0}) \in Nat
<1>1. \E x \in {a, 0} : \A y \in {a, 0} : x >= y
  <2>1. CASE a >= 0
    BY <2>1
  <2>2. CASE 0 >= a
    BY <2>2
  <2>3. QED
    BY <2>1, <2>2
<1>2. Max({a, 0}) \in {a, 0} /\ \A y \in {a, 0} : Max({a, 0}) >= y
  BY <1>1 DEF Max
<1>3. QED
  BY <1>2

(* What a longer list begins with.                                         *)
Begins(a, b) == Len(a) <= Len(b) /\ \A i \in 1 .. Len(a) : a[i] = b[i]

LEMMA FirstStaysFirst ==
    ASSUME NEW X, NEW a \in Seq(X), NEW b \in Seq(X), Begins(a, b), NEW S, NEW c, IsFirst(a, S, c)
    PROVE  IsFirst(b, S, c)
<1>1. PICK i \in 1 .. Len(a) : a[i] = c /\ \A j \in 1 .. i - 1 : a[j] \notin S
  BY DEF IsFirst
<1>2. i \in DOMAIN b /\ b[i] = c
  BY <1>1 DEF Begins
<1>3. \A j \in 1 .. i - 1 : b[j] \notin S
  BY <1>1 DEF Begins
<1>4. QED
  BY <1>2, <1>3 DEF IsFirst

LEMMA OneIsFirst ==
    ASSUME NEW X, NEW list \in Seq(X), NEW S, NEW c, NEW d, IsFirst(list, S, c), IsFirst(list, S, d)
    PROVE  c = d
<1>1. PICK i \in 1 .. Len(list) : list[i] = c /\ \A j \in 1 .. i - 1 : list[j] \notin S
  BY DEF IsFirst
<1>2. PICK k \in 1 .. Len(list) : list[k] = d /\ \A j \in 1 .. k - 1 : list[j] \notin S
  BY DEF IsFirst
<1>3. ~(i < k) /\ ~(k < i)
  BY <1>1, <1>2 DEF IsFirst
<1>4. QED
  BY <1>1, <1>2, <1>3

LEMMA UnclaimedHasNoFirst ==
    ASSUME NEW X, NEW list \in Seq(X), NEW S, Unclaimed(list, S), NEW c
    PROVE  ~IsFirst(list, S, c)
  BY DEF IsFirst, Unclaimed

LEMMA AppendedBegins ==
    ASSUME NEW X, NEW a \in Seq(X), NEW b \in Seq(X), NEW x \in X, Begins(a, b)
    PROVE  Append(b, x) \in Seq(X) /\ Begins(a, Append(b, x))
  BY DEF Begins

LEMMA BeginsOnward ==
    ASSUME NEW X, NEW a \in Seq(X), NEW b \in Seq(X), NEW c \in Seq(X), Begins(a, b), Begins(b, c)
    PROVE  Begins(a, c)
  BY DEF Begins

-----------------------------------------------------------------------------
(* The invariant of an open.  What it found registered when it began still *)
(* stands at the head of the lists; and each stage it has left behind has  *)
(* settled who answers, as far as that list went.                          *)

Registrable == {SuffixOf[x] : x \in DOMAIN SuffixOf}
Known == [redirects : Seq(Redirects), providers : Seq(Providers),
          transforms : Seq(Transforms), offered : SUBSET Registrable]
Opens == [at : Stages, asked : Names \cup {None}, name : Names \cup {None},
          archive : BOOLEAN, failed : BOOLEAN, known : Known \cup {None}]
Handles == [from : Origins, size : Nat, room : Nat, position : Nat]

StorageTypes ==
    /\ redirects \in Seq(Redirects) /\ providers \in Seq(Providers)
    /\ transforms \in Seq(Transforms) /\ filters \in Seq(Filters)
    /\ offered \in SUBSET Registrable /\ adding \in Transforms \cup {None}
    /\ open \in [Threads -> Opens] /\ file \in [Threads -> Handles]
    /\ natives \in [Threads -> {0, 1}] /\ seen \in [Threads -> Nat]

Stands(k) ==
    /\ Begins(k.redirects, redirects) /\ Begins(k.providers, providers)
    /\ Begins(k.transforms, transforms) /\ k.offered \subseteq offered

Redirected(o) ==
    \A r \in Redirects : IsFirst(o.known.redirects, Claimants(o.asked), r) => o.name = TargetOf[r]
NotProvided(o) ==
    ~o.failed /\ o.name \notin Skipped /\ ~o.archive
        => \A p \in Providers : ~IsFirst(o.known.providers, Claimants(o.name), p)
NotTransformed(o) ==
    ~o.failed => \A x \in Transforms : ~IsFirst(o.known.transforms, Matching(o.name), x)
Answered(o, f) ==
    ~o.failed /\ o.name \notin Skipped =>
        /\ \A p \in Providers :
            ~o.archive /\ IsFirst(o.known.providers, Claimants(o.name), p) => f.from = p
        /\ \A x \in Transforms :
            /\ f.from \notin Providers
            /\ IsFirst(o.known.transforms, Matching(o.name), x)
            /\ SuffixOf[o.name] \in o.known.offered
            /\ o.name \in DOMAIN SizeOf /\ SizeOf[o.name] > 0
            => f.from = x

StageOK(o, f, s) ==
    /\ o.at # "idle" => o.known \in Known /\ o.name \in Names /\ o.asked \in Names
    /\ o.at = "redirect" => o.name = o.asked
    /\ o.at \in {"redirect", "serve"} => ~o.failed
    /\ o.at \notin {"idle", "redirect"} => Redirected(o)
    /\ o.at \in {"idle", "redirect", "serve", "native"} => f = NoFile
    /\ o.at \in {"native", "find", "offer", "rewind"} => NotProvided(o)
    /\ o.at \in {"find", "offer", "rewind"} =>
        /\ o.name \in DOMAIN SizeOf /\ o.name \notin Skipped
        /\ f.from = o.name /\ f.size = SizeOf[o.name]
    /\ o.at = "find" => f.position = 0
    /\ o.at = "rewind" => NotTransformed(o)
    /\ o.at = "held" => f.from # None /\ Answered(o, f)
    /\ s = IF o.at = "held" THEN f.position ELSE 0
    /\ f.position <= f.size /\ f.size <= f.room

OpenInv ==
    /\ StorageTypes /\ NoHandleLost
    /\ \A t \in Threads :
        /\ StageOK(open[t], file[t], seen[t])
        /\ open[t].at # "idle" => Stands(open[t].known)

LEMMA OpenInvServes == OpenInv => OpensServed
<1> SUFFICES ASSUME OpenInv PROVE OpensServed
  OBVIOUS
<1>1. TypeOK
  BY DEF OpenInv, StorageTypes, TypeOK, StageOK, Opens, Handles
<1>2. \A t \in Threads : open[t].at = "held" => file[t].position = seen[t]
  BY DEF OpenInv, StageOK
<1>3. FirstClaimantWins
  <2> SUFFICES ASSUME NEW t \in Threads, open[t].at = "held"
               PROVE  Redirected(open[t]) /\ Answered(open[t], file[t])
    BY DEF FirstClaimantWins, Redirected, Answered, Intercepted
  <2>1. QED
    BY DEF OpenInv, StageOK
<1>4. QED
  BY <1>1, <1>2, <1>3 DEF OpensServed, ReadsFromStart, OpenInv

LEMMA InitOpenInv == Init => OpenInv
<1> SUFFICES ASSUME Init PROVE OpenInv
  OBVIOUS
<1> USE DEF Init
<1>1. Idle \in Opens /\ NoFile \in Handles /\ NoFile.from \notin Names /\ StageOK(Idle, NoFile, 0) /\ Idle.at = "idle"
  BY DEF Idle, NoFile, Opens, Handles, Stages, Origins, StageOK
<1>2. StorageTypes
  BY <1>1 DEF StorageTypes
<1>3. NoHandleLost
  BY <1>1 DEF NoHandleLost
<1>4. QED
  BY <1>1, <1>2, <1>3 DEF OpenInv

(* The step of one thread, once its own part is shown.                     *)
LEMMA ThreadStep ==
    ASSUME OpenInv, UNCHANGED registries, NEW t \in Threads,
           NEW o \in Opens, NEW f \in Handles, NEW n \in {0, 1}, NEW s \in Nat,
           open' = [open EXCEPT ![t] = o], file' = [file EXCEPT ![t] = f],
           natives' = [natives EXCEPT ![t] = n], seen' = [seen EXCEPT ![t] = s],
           n = IF f.from \in Names THEN 1 ELSE 0,
           StageOK(o, f, s), o.at # "idle" => Stands(o.known)
    PROVE  OpenInv'
<1>1. StorageTypes'
  BY DEF OpenInv, StorageTypes, registries
<1>2. NoHandleLost'
  BY DEF OpenInv, StorageTypes, NoHandleLost
<1>3. ASSUME NEW u \in Threads
      PROVE  StageOK(open[u], file[u], seen[u])' /\ (open'[u].at # "idle" => Stands(open[u].known)')
  <2>1. CASE u = t
    <3>1. open'[u] = o /\ file'[u] = f /\ seen'[u] = s
      BY <2>1 DEF OpenInv, StorageTypes
    <3>2. QED
      BY <3>1 DEF Stands, registries
  <2>2. CASE u # t
    <3>1. open'[u] = open[u] /\ file'[u] = file[u] /\ seen'[u] = seen[u]
      BY <2>2 DEF OpenInv, StorageTypes
    <3>2. QED
      BY <3>1 DEF OpenInv, Stands, registries
  <2>3. QED
    BY <2>1, <2>2
<1>4. QED
  BY <1>1, <1>2, <1>3 DEF OpenInv

(* A registration, which only lengthens the lists.                         *)
LEMMA RegistryStep ==
    ASSUME OpenInv, UNCHANGED <<open, file, natives, seen>>,
           redirects' \in Seq(Redirects), Begins(redirects, redirects'),
           providers' \in Seq(Providers), Begins(providers, providers'),
           transforms' \in Seq(Transforms), Begins(transforms, transforms'),
           filters' \in Seq(Filters), adding' \in Transforms \cup {None},
           offered' \in SUBSET Registrable, offered \subseteq offered'
    PROVE  OpenInv'
<1>1. StorageTypes' /\ NoHandleLost'
  BY DEF OpenInv, StorageTypes, NoHandleLost
<1>2. ASSUME NEW u \in Threads, open[u].at # "idle"
      PROVE  Stands(open[u].known)'
  <2>1. open[u].known \in Known /\ Stands(open[u].known)
    BY <1>2 DEF OpenInv, StageOK
  <2>2. Begins(open[u].known.redirects, redirects') /\ Begins(open[u].known.providers, providers')
        /\ Begins(open[u].known.transforms, transforms')
    <3>1. /\ open[u].known.redirects \in Seq(Redirects) /\ open[u].known.providers \in Seq(Providers)
          /\ open[u].known.transforms \in Seq(Transforms)
      BY <2>1 DEF Known
    <3>2. /\ redirects \in Seq(Redirects) /\ providers \in Seq(Providers) /\ transforms \in Seq(Transforms)
      BY DEF OpenInv, StorageTypes
    <3>3. /\ Begins(open[u].known.redirects, redirects) /\ Begins(open[u].known.providers, providers)
          /\ Begins(open[u].known.transforms, transforms)
      BY <2>1 DEF Stands
    <3>4. Begins(open[u].known.redirects, redirects')
      BY <3>1, <3>2, <3>3, BeginsOnward
    <3>5. Begins(open[u].known.providers, providers')
      BY <3>1, <3>2, <3>3, BeginsOnward
    <3>6. Begins(open[u].known.transforms, transforms')
      BY <3>1, <3>2, <3>3, BeginsOnward
    <3>7. QED
      BY <3>4, <3>5, <3>6
  <2>3. QED
    BY <2>1, <2>2 DEF Stands
<1>3. QED
  BY <1>1, <1>2 DEF OpenInv

LEMMA RegisterInv == OpenInv /\ (Register \/ RegisterSuffix) => OpenInv'
<1> SUFFICES ASSUME OpenInv, Register \/ RegisterSuffix PROVE OpenInv'
  OBVIOUS
<1> USE DEF Added
<1>0. /\ StorageTypes
      /\ Begins(redirects, redirects) /\ Begins(providers, providers) /\ Begins(transforms, transforms)
  BY DEF OpenInv, Begins, StorageTypes
<1>1. ASSUME NEW r \in Redirects
      PROVE  Append(redirects, r) \in Seq(Redirects) /\ Begins(redirects, Append(redirects, r))
  BY <1>0, AppendedBegins DEF StorageTypes
<1>2. ASSUME NEW p \in Providers
      PROVE  Append(providers, p) \in Seq(Providers) /\ Begins(providers, Append(providers, p))
  BY <1>0, AppendedBegins DEF StorageTypes
<1>3. ASSUME NEW x \in Transforms
      PROVE  Append(transforms, x) \in Seq(Transforms) /\ Begins(transforms, Append(transforms, x))
  BY <1>0, AppendedBegins DEF StorageTypes
<1>4. ASSUME NEW f \in Filters PROVE Append(filters, f) \in Seq(Filters)
  BY <1>0 DEF StorageTypes
<1>5. CASE Register
  <2>1. UNCHANGED <<offered, open, file, natives, seen>>
    BY <1>5 DEF Register
  <2>2. CASE \E r \in Redirects : redirects' = Append(redirects, r) /\ UNCHANGED <<providers, transforms, filters, adding>>
    BY <2>1, <2>2, <1>0, <1>1, RegistryStep DEF StorageTypes
  <2>3. CASE \E p \in Providers : providers' = Append(providers, p) /\ UNCHANGED <<redirects, transforms, filters, adding>>
    BY <2>1, <2>3, <1>0, <1>2, RegistryStep DEF StorageTypes
  <2>4. CASE \E f \in Filters : filters' = Append(filters, f) /\ UNCHANGED <<redirects, providers, transforms, adding>>
    BY <2>1, <2>4, <1>0, <1>4, RegistryStep DEF StorageTypes
  <2>5. CASE \E x \in Transforms : transforms' = Append(transforms, x) /\ adding' = x /\ UNCHANGED <<redirects, providers, filters>>
    BY <2>1, <2>5, <1>0, <1>3, RegistryStep DEF StorageTypes
  <2>6. QED
    BY <1>5, <2>2, <2>3, <2>4, <2>5 DEF Register
<1>6. CASE RegisterSuffix
  <2>1. SuffixOf[adding] \in Registrable
    BY <1>6, <1>0 DEF StorageTypes, Registrable, RegisterSuffix
  <2>2. UNCHANGED <<redirects, providers, transforms, filters, open, file, natives, seen>>
        /\ offered' = offered \cup {SuffixOf[adding]} /\ adding' = None
    BY <1>6 DEF RegisterSuffix
  <2>3. QED
    BY <2>1, <2>2, <1>0, RegistryStep DEF StorageTypes
<1>7. QED
  BY <1>5, <1>6

-----------------------------------------------------------------------------
(* The stages of an open, one lemma each.                                  *)

(* The fields of an open that goes on to another stage.                    *)
LEMMA WentOn ==
    ASSUME NEW o \in Opens, NEW at \in Stages, NEW p, p = [o EXCEPT !.at = at]
    PROVE  /\ p \in Opens /\ p.at = at /\ p.asked = o.asked /\ p.name = o.name
           /\ p.archive = o.archive /\ p.failed = o.failed /\ p.known = o.known
<1>1. p \in Opens
  BY DEF Opens
<1>2. p.at = at /\ p.asked = o.asked /\ p.name = o.name /\ p.known = o.known
  BY DEF Opens
<1>3. p.archive = o.archive
  BY DEF Opens
<1>4. p.failed = o.failed
  BY DEF Opens
<1>5. QED
  BY <1>1, <1>2, <1>3, <1>4

(* What a thread inside an open starts its step from.                      *)
LEMMA InsideOpen ==
    ASSUME OpenInv, NEW t \in Threads
    PROVE  /\ open[t] \in Opens /\ file[t] \in Handles
           /\ natives[t] = IF file[t].from \in Names THEN 1 ELSE 0
           /\ natives[t] \in {0, 1} /\ seen[t] \in Nat
           /\ StageOK(open[t], file[t], seen[t])
           /\ open[t].at # "idle" => Stands(open[t].known)
           /\ open = [open EXCEPT ![t] = open[t]] /\ file = [file EXCEPT ![t] = file[t]]
           /\ natives = [natives EXCEPT ![t] = natives[t]] /\ seen = [seen EXCEPT ![t] = seen[t]]
           /\ redirects \in Seq(Redirects) /\ providers \in Seq(Providers) /\ transforms \in Seq(Transforms)
  BY DEF OpenInv, StorageTypes, NoHandleLost

LEMMA OpenDetourInv ==
    ASSUME OpenInv, NEW t \in Threads, NEW name \in Names, NEW archive \in BOOLEAN,
           OpenDetour(t, name, archive)
    PROVE  OpenInv'
<1> DEFINE k == [redirects |-> redirects, providers |-> providers,
                 transforms |-> transforms, offered |-> offered]
           o == [at |-> "redirect", asked |-> name, name |-> name,
                 archive |-> archive, failed |-> FALSE, known |-> k]
<1>1. k \in Known /\ Stands(k)
  BY DEF Known, Stands, Begins, OpenInv, StorageTypes
<1>2. o \in Opens
  BY <1>1 DEF Opens, Stages
<1>3. /\ UNCHANGED <<registries, file, natives, seen>> /\ open' = [open EXCEPT ![t] = o]
      /\ open[t].at = "idle"
  BY DEF OpenDetour
<1>4. StageOK(o, file[t], seen[t])
  BY <1>1, <1>3, InsideOpen DEF StageOK
<1> HIDE DEF o, k
<1>5. o.known = k
  BY DEF o
<1>6. QED
  BY <1>1, <1>2, <1>3, <1>4, <1>5, InsideOpen, ThreadStep

LEMMA RedirectInv ==
    ASSUME OpenInv, NEW t \in Threads, Redirect(t)
    PROVE  OpenInv'
<1>0. /\ open[t].at = "redirect" /\ UNCHANGED <<registries, file, natives, seen>>
      /\ open[t].known.redirects \in Seq(Redirects) /\ Begins(open[t].known.redirects, redirects)
      /\ Stands(open[t].known)
  BY InsideOpen DEF Redirect, StageOK, Known, Stands
<1>1. ASSUME NEW r \in Redirects, IsFirst(redirects, Claimants(open[t].name), r),
             open' = [open EXCEPT ![t].at = "serve", ![t].name = TargetOf[r]]
      PROVE  OpenInv'
  <2> DEFINE o == [open[t] EXCEPT !.at = "serve", !.name = TargetOf[r]]
  <2>0. /\ o \in Opens /\ o.at = "serve" /\ o.name = TargetOf[r] /\ TargetOf[r] \in Names
        /\ o.asked = open[t].asked /\ o.archive = open[t].archive
        /\ o.failed = open[t].failed /\ o.known = open[t].known
    <3>1. open[t] \in Opens /\ "serve" \in Stages /\ TargetOf[r] \in Names
      BY InsideOpen DEF Stages
    <3>2. o \in Opens
      BY <3>1 DEF Opens
    <3>3. o.at = "serve" /\ o.name = TargetOf[r] /\ o.asked = open[t].asked /\ o.known = open[t].known
      BY <3>1 DEF Opens
    <3>4. o.archive = open[t].archive
      BY <3>1 DEF Opens
    <3>5. o.failed = open[t].failed
      BY <3>1 DEF Opens
    <3>6. QED
      BY <3>1, <3>2, <3>3, <3>4, <3>5
  <2>1. open' = [open EXCEPT ![t] = o]
    BY <1>1 DEF OpenInv, StorageTypes
  <2>2. Redirected(o)
    <3> SUFFICES ASSUME NEW q \in Redirects, IsFirst(open[t].known.redirects, Claimants(open[t].name), q)
                 PROVE  q = r
      <4>1. open[t].name = open[t].asked
        BY <1>0, InsideOpen DEF StageOK
      <4>2. QED
        BY <2>0, <4>1 DEF Redirected
    <3>1. IsFirst(redirects, Claimants(open[t].name), q)
      BY <1>0, InsideOpen, FirstStaysFirst
    <3>2. QED
      BY <3>1, <1>1, InsideOpen, OneIsFirst
  <2>3. StageOK(o, file[t], seen[t])
    BY <1>0, <2>0, <2>2, InsideOpen DEF StageOK
  <2>4. /\ UNCHANGED registries /\ natives' = [natives EXCEPT ![t] = natives[t]]
        /\ seen' = [seen EXCEPT ![t] = seen[t]] /\ file' = [file EXCEPT ![t] = file[t]]
        /\ Stands(o.known)
    BY <1>0, <2>0, InsideOpen
  <2> HIDE DEF o
  <2>5. QED
    BY <2>0, <2>1, <2>3, <2>4, InsideOpen, ThreadStep
<1>2. ASSUME Unclaimed(redirects, Claimants(open[t].name)), open' = [open EXCEPT ![t].at = "serve"]
      PROVE  OpenInv'
  <2> DEFINE o == [open[t] EXCEPT !.at = "serve"]
  <2>0. /\ o \in Opens /\ o.at = "serve" /\ o.name = open[t].name
        /\ o.asked = open[t].asked /\ o.archive = open[t].archive
        /\ o.failed = open[t].failed /\ o.known = open[t].known
    <3>1. open[t] \in Opens /\ "serve" \in Stages
      BY InsideOpen DEF Stages
    <3>2. QED
      BY <3>1, WentOn
  <2>1. open' = [open EXCEPT ![t] = o]
    BY <1>2 DEF OpenInv, StorageTypes
  <2>2. Redirected(o)
    <3> SUFFICES ASSUME NEW q \in Redirects, IsFirst(open[t].known.redirects, Claimants(open[t].name), q)
                 PROVE  FALSE
      <4>1. open[t].name = open[t].asked
        BY <1>0, InsideOpen DEF StageOK
      <4>2. QED
        BY <2>0, <4>1 DEF Redirected
    <3>1. IsFirst(redirects, Claimants(open[t].name), q)
      BY <1>0, InsideOpen, FirstStaysFirst
    <3>2. QED
      BY <3>1, <1>2, InsideOpen, UnclaimedHasNoFirst
  <2>3. StageOK(o, file[t], seen[t])
    BY <1>0, <2>0, <2>2, InsideOpen DEF StageOK
  <2>4. /\ UNCHANGED registries /\ natives' = [natives EXCEPT ![t] = natives[t]]
        /\ seen' = [seen EXCEPT ![t] = seen[t]] /\ file' = [file EXCEPT ![t] = file[t]]
        /\ Stands(o.known)
    BY <1>0, <2>0, InsideOpen
  <2> HIDE DEF o
  <2>5. QED
    BY <2>0, <2>1, <2>3, <2>4, InsideOpen, ThreadStep
<1>3. QED
  BY <1>1, <1>2 DEF Redirect

(* A buffered handle stands at its start, inside its buffer.               *)
LEMMA BufferedFits ==
    ASSUME OpenInv, NEW c \in Providers \cup Transforms
    PROVE  /\ Buffered(c) \in Handles /\ Buffered(c).from = c
           /\ Buffered(c).position = 0
           /\ 0 <= Buffered(c).size /\ Buffered(c).size <= Buffered(c).room
           /\ c \notin Names /\ c # None
<1> DEFINE sizes == {SizeOf[c]} \cup {FilterSize[f] : f \in ToSet(filters)}
<1>1. sizes \subseteq Nat
  BY DEF OpenInv, StorageTypes, ToSet
<1>2. Filtered(SizeOf[c]) \in Nat /\ Filtered(SizeOf[c]) <= SizeOf[c]
  BY <1>1, MinOfNaturals DEF Filtered
<1>3. QED
  BY <1>2 DEF Buffered, Handles, Origins, Callbacks

LEMMA TryServeInv ==
    ASSUME OpenInv, NEW t \in Threads, TryServe(t)
    PROVE  OpenInv'
<1>0. /\ open[t].at = "serve" /\ UNCHANGED <<registries, natives, seen>>
      /\ open[t].known.providers \in Seq(Providers) /\ Begins(open[t].known.providers, providers)
      /\ Stands(open[t].known)
      /\ "held" \in Stages /\ "native" \in Stages
      /\ natives[t] = 0 /\ seen[t] = 0 /\ NoFile.from \notin Names
  BY InsideOpen DEF TryServe, StageOK, Known, Stands, Stages, NoFile
<1>1. ASSUME NEW p \in Providers, IsFirst(providers, Claimants(open[t].name), p),
             file' = [file EXCEPT ![t] = Buffered(p)], open' = [open EXCEPT ![t].at = "held"]
      PROVE  OpenInv'
  <2> DEFINE o == [open[t] EXCEPT !.at = "held"]
  <2>0. /\ o \in Opens /\ o.at = "held" /\ o.name = open[t].name
        /\ o.asked = open[t].asked /\ o.archive = open[t].archive
        /\ o.failed = open[t].failed /\ o.known = open[t].known
    BY <1>0, InsideOpen, WentOn
  <2>1. open' = [open EXCEPT ![t] = o]
    BY <1>1 DEF OpenInv, StorageTypes
  <2>2. Redirected(o)
    BY <1>0, <2>0, InsideOpen DEF StageOK, Redirected
  <2>3. ASSUME NEW q \in Providers, IsFirst(open[t].known.providers, Claimants(open[t].name), q) PROVE q = p
    <3>1. IsFirst(providers, Claimants(open[t].name), q)
      BY <1>0, <2>3, InsideOpen, FirstStaysFirst
    <3>2. QED
      BY <3>1, <1>1, InsideOpen, OneIsFirst
  <2>4. Answered(o, Buffered(p))
    BY <2>0, <2>3, BufferedFits DEF Answered
  <2>5. StageOK(o, Buffered(p), seen[t])
    <3>1. /\ Buffered(p).position = 0 /\ 0 <= Buffered(p).size /\ Buffered(p).size <= Buffered(p).room
          /\ Buffered(p).from # None /\ o.known \in Known /\ o.name \in Names /\ o.asked \in Names
      BY <1>0, <2>0, InsideOpen, BufferedFits DEF StageOK
    <3> HIDE DEF o
    <3>2. QED
      BY <1>0, <2>0, <2>2, <2>4, <3>1 DEF StageOK
  <2>6. /\ UNCHANGED registries /\ natives' = [natives EXCEPT ![t] = 0] /\ seen' = [seen EXCEPT ![t] = 0]
        /\ Buffered(p) \in Handles /\ Buffered(p).from \notin Names
    BY <1>0, InsideOpen, BufferedFits
  <2>7. StageOK(o, Buffered(p), 0) /\ Stands(o.known) /\ o \in Opens
    BY <1>0, <2>0, <2>5
  <2> HIDE DEF o
  <2>8. QED
    BY <1>1, <2>1, <2>6, <2>7, ThreadStep
<1>2. ASSUME open' = [open EXCEPT ![t].at = "native", ![t].failed = TRUE], UNCHANGED file
      PROVE  OpenInv'
  <2> DEFINE o == [open[t] EXCEPT !.at = "native", !.failed = TRUE]
  <2>0. /\ o \in Opens /\ o.at = "native" /\ o.name = open[t].name
        /\ o.asked = open[t].asked /\ o.archive = open[t].archive
        /\ o.failed /\ o.known = open[t].known
    <3>1. open[t] \in Opens /\ "native" \in Stages
      BY <1>0, InsideOpen
    <3>2. o \in Opens
      BY <3>1 DEF Opens
    <3>3. o.at = "native" /\ o.name = open[t].name /\ o.asked = open[t].asked /\ o.known = open[t].known
      BY <3>1 DEF Opens
    <3>4. o.archive = open[t].archive
      BY <3>1 DEF Opens
    <3>5. o.failed
      BY <3>1 DEF Opens
    <3>6. QED
      BY <3>1, <3>2, <3>3, <3>4, <3>5
  <2>1. open' = [open EXCEPT ![t] = o]
    BY <1>2 DEF OpenInv, StorageTypes
  <2>2. Redirected(o) /\ NotProvided(o)
    BY <1>0, <2>0, InsideOpen DEF StageOK, Redirected, NotProvided
  <2>3. StageOK(o, file[t], seen[t])
    BY <1>0, <2>0, <2>2, InsideOpen DEF StageOK
  <2>4. /\ UNCHANGED registries /\ natives' = [natives EXCEPT ![t] = natives[t]] /\ seen' = [seen EXCEPT ![t] = seen[t]]
        /\ file' = [file EXCEPT ![t] = file[t]] /\ Stands(o.known)
    BY <1>0, <1>2, <2>0, InsideOpen
  <2> HIDE DEF o
  <2>5. QED
    BY <2>0, <2>1, <2>3, <2>4, InsideOpen, ThreadStep
<1>3. ASSUME open[t].archive \/ ~Intercepted(t) \/ Unclaimed(providers, Claimants(open[t].name)),
             open' = [open EXCEPT ![t].at = "native"], UNCHANGED file
      PROVE  OpenInv'
  <2> DEFINE o == [open[t] EXCEPT !.at = "native"]
  <2>0. /\ o \in Opens /\ o.at = "native" /\ o.name = open[t].name
        /\ o.asked = open[t].asked /\ o.archive = open[t].archive
        /\ o.failed = open[t].failed /\ o.known = open[t].known
    BY <1>0, InsideOpen, WentOn
  <2>1. open' = [open EXCEPT ![t] = o]
    BY <1>3 DEF OpenInv, StorageTypes
  <2>2. Redirected(o)
    BY <1>0, <2>0, InsideOpen DEF StageOK, Redirected
  <2>3. NotProvided(o)
    <3> SUFFICES ASSUME NEW q \in Providers, ~open[t].archive, open[t].name \notin Skipped,
                        IsFirst(open[t].known.providers, Claimants(open[t].name), q)
                 PROVE  FALSE
      BY <2>0 DEF NotProvided
    <3>1. IsFirst(providers, Claimants(open[t].name), q)
      BY <1>0, InsideOpen, FirstStaysFirst
    <3>2. Unclaimed(providers, Claimants(open[t].name))
      BY <1>3 DEF Intercepted
    <3>3. QED
      BY <3>1, <3>2, InsideOpen, UnclaimedHasNoFirst
  <2>4. StageOK(o, file[t], seen[t])
    BY <1>0, <2>0, <2>2, <2>3, InsideOpen DEF StageOK
  <2>5. /\ UNCHANGED registries /\ natives' = [natives EXCEPT ![t] = natives[t]] /\ seen' = [seen EXCEPT ![t] = seen[t]]
        /\ file' = [file EXCEPT ![t] = file[t]] /\ Stands(o.known)
    BY <1>0, <1>3, <2>0, InsideOpen
  <2> HIDE DEF o
  <2>6. QED
    BY <2>0, <2>1, <2>4, <2>5, InsideOpen, ThreadStep
<1>4. QED
  BY <1>1, <1>2, <1>3 DEF TryServe

LEMMA NativeOpenInv ==
    ASSUME OpenInv, NEW t \in Threads, NativeOpen(t)
    PROVE  OpenInv'
<1>0. /\ open[t].at = "native" /\ UNCHANGED <<registries, seen>>
      /\ Stands(open[t].known) /\ open[t].name \in Names /\ natives[t] = 0 /\ seen[t] = 0
  BY InsideOpen DEF NativeOpen, StageOK, NoFile
<1>1. CASE open[t].name \in DOMAIN SizeOf
  <2> DEFINE f == [from |-> open[t].name, size |-> SizeOf[open[t].name],
                   room |-> SizeOf[open[t].name], position |-> 0]
             at == IF Intercepted(t) THEN "find" ELSE "held"
             o == [open[t] EXCEPT !.at = at]
  <2>1. /\ file' = [file EXCEPT ![t] = f] /\ natives' = [natives EXCEPT ![t] = 1]
        /\ open' = [open EXCEPT ![t].at = at]
    BY <1>0, <1>1 DEF NativeOpen, OpenInv, StorageTypes
  <2>2. f \in Handles /\ f.from = open[t].name /\ f.size = SizeOf[open[t].name] /\ f.position = 0 /\ f.size <= f.room
    BY <1>0, <1>1 DEF Handles, Origins
  <2>3. at \in Stages /\ at \in {"find", "held"} /\ (at = "find" <=> open[t].name \notin Skipped)
    BY DEF Stages, Intercepted
  <2> HIDE DEF f, at
  <2>4. /\ o \in Opens /\ o.at = at /\ o.name = open[t].name
        /\ o.asked = open[t].asked /\ o.archive = open[t].archive
        /\ o.failed = open[t].failed /\ o.known = open[t].known
    BY <2>3, InsideOpen, WentOn
  <2>5. open' = [open EXCEPT ![t] = o]
    BY <2>1 DEF OpenInv, StorageTypes
  <2>6. Redirected(o) /\ NotProvided(o)
    BY <1>0, <2>4, InsideOpen DEF StageOK, Redirected, NotProvided
  <2>7. at = "held" => Answered(o, f)
    BY <2>3, <2>4 DEF Answered
  <2>8. StageOK(o, f, seen[t])
    BY <1>0, <1>1, <2>2, <2>3, <2>4, <2>6, <2>7, InsideOpen DEF StageOK
  <2> HIDE DEF o
  <2>9. QED
    BY <1>0, <2>1, <2>2, <2>4, <2>5, <2>8, InsideOpen, ThreadStep
<1>2. CASE open[t].name \notin DOMAIN SizeOf
  <2>1. open' = [open EXCEPT ![t] = Idle] /\ UNCHANGED <<file, natives>> /\ file[t] = NoFile
    BY <1>0, <1>2, InsideOpen DEF NativeOpen, StageOK
  <2>2. Idle \in Opens /\ Idle.at = "idle" /\ StageOK(Idle, file[t], seen[t])
    BY <1>0, <2>1 DEF Idle, Opens, Stages, StageOK, NoFile
  <2>3. QED
    BY <1>0, <2>1, <2>2, InsideOpen, ThreadStep
<1>3. QED
  BY <1>1, <1>2

LEMMA FindTransformInv ==
    ASSUME OpenInv, NEW t \in Threads, FindTransform(t)
    PROVE  OpenInv'
<1>0. /\ open[t].at = "find" /\ UNCHANGED <<registries, natives, seen>>
      /\ open[t].known.offered \subseteq offered /\ Stands(open[t].known)
      /\ "offer" \in Stages /\ "rewind" \in Stages /\ "held" \in Stages
      /\ file[t].size \in Nat /\ file[t].from = open[t].name /\ open[t].name \in Names
      /\ file[t].size = SizeOf[open[t].name] /\ seen[t] = 0
  BY InsideOpen DEF FindTransform, StageOK, Stands, Stages, Handles
<1>1. ASSUME open' = [open EXCEPT ![t].at = "offer"],
             file' = [file EXCEPT ![t].position = file[t].size]
      PROVE  OpenInv'
  <2> DEFINE o == [open[t] EXCEPT !.at = "offer"]
             f == [file[t] EXCEPT !.position = file[t].size]
  <2>0. /\ o \in Opens /\ o.at = "offer" /\ o.name = open[t].name
        /\ o.asked = open[t].asked /\ o.archive = open[t].archive
        /\ o.failed = open[t].failed /\ o.known = open[t].known
    BY <1>0, InsideOpen, WentOn
  <2>1. open' = [open EXCEPT ![t] = o] /\ file' = [file EXCEPT ![t] = f]
    BY <1>1 DEF OpenInv, StorageTypes
  <2>2. /\ f \in Handles /\ f.from = file[t].from /\ f.size = file[t].size
        /\ f.position = file[t].size /\ f.position <= f.size /\ f.size <= f.room
    <3>1. file[t] \in Handles /\ file[t].size <= file[t].room
      BY InsideOpen DEF StageOK
    <3>2. QED
      BY <1>0, <3>1 DEF Handles
  <2>3. Redirected(o) /\ NotProvided(o)
    BY <1>0, <2>0, InsideOpen DEF StageOK, Redirected, NotProvided
  <2> HIDE DEF o, f
  <2>4. StageOK(o, f, seen[t]) /\ Stands(o.known)
    BY <1>0, <2>0, <2>2, <2>3, InsideOpen DEF StageOK
  <2>5. natives[t] = IF f.from \in Names THEN 1 ELSE 0
    BY <2>2, InsideOpen
  <2>6. QED
    <3>1. natives' = [natives EXCEPT ![t] = natives[t]] /\ seen' = [seen EXCEPT ![t] = seen[t]]
      BY <1>0, InsideOpen
    <3>2. UNCHANGED registries
      BY <1>0
    <3>3. QED
      BY <2>0, <2>1, <2>2, <2>4, <2>5, <3>1, <3>2, InsideOpen, ThreadStep
<1>2. ASSUME NEW got \in 0 .. file[t].size,
             open' = [open EXCEPT ![t].at = "rewind", ![t].failed = TRUE],
             file' = [file EXCEPT ![t].position = got]
      PROVE  OpenInv'
  <2> DEFINE o == [open[t] EXCEPT !.at = "rewind", !.failed = TRUE]
             f == [file[t] EXCEPT !.position = got]
  <2>0. /\ o \in Opens /\ o.at = "rewind" /\ o.name = open[t].name
        /\ o.asked = open[t].asked /\ o.archive = open[t].archive
        /\ o.failed /\ o.known = open[t].known
    <3>1. open[t] \in Opens /\ "rewind" \in Stages
      BY <1>0, InsideOpen
    <3>2. o \in Opens
      BY <3>1 DEF Opens
    <3>3. o.at = "rewind" /\ o.name = open[t].name /\ o.asked = open[t].asked /\ o.known = open[t].known
      BY <3>1 DEF Opens
    <3>4. o.archive = open[t].archive
      BY <3>1 DEF Opens
    <3>5. o.failed
      BY <3>1 DEF Opens
    <3>6. QED
      BY <3>1, <3>2, <3>3, <3>4, <3>5
  <2>1. open' = [open EXCEPT ![t] = o] /\ file' = [file EXCEPT ![t] = f]
    BY <1>2 DEF OpenInv, StorageTypes
  <2>2. /\ f \in Handles /\ f.from = file[t].from /\ f.size = file[t].size
        /\ f.position <= f.size /\ f.size <= f.room
    <3>1. file[t] \in Handles /\ file[t].size <= file[t].room
      BY InsideOpen DEF StageOK
    <3>2. QED
      BY <1>0, <3>1 DEF Handles
  <2>3. Redirected(o) /\ NotProvided(o) /\ NotTransformed(o)
    BY <1>0, <2>0, InsideOpen DEF StageOK, Redirected, NotProvided, NotTransformed
  <2> HIDE DEF o, f
  <2>4. StageOK(o, f, seen[t]) /\ Stands(o.known)
    BY <1>0, <2>0, <2>2, <2>3, InsideOpen DEF StageOK
  <2>5. natives[t] = IF f.from \in Names THEN 1 ELSE 0
    BY <2>2, InsideOpen
  <2>6. QED
    <3>1. natives' = [natives EXCEPT ![t] = natives[t]] /\ seen' = [seen EXCEPT ![t] = seen[t]]
      BY <1>0, InsideOpen
    <3>2. UNCHANGED registries
      BY <1>0
    <3>3. QED
      BY <2>0, <2>1, <2>2, <2>4, <2>5, <3>1, <3>2, InsideOpen, ThreadStep
<1>3. ASSUME ~Offered(t) \/ file[t].size = 0,
             open' = [open EXCEPT ![t].at = "held"], UNCHANGED file
      PROVE  OpenInv'
  <2> DEFINE o == [open[t] EXCEPT !.at = "held"]
  <2>0. /\ o \in Opens /\ o.at = "held" /\ o.name = open[t].name
        /\ o.asked = open[t].asked /\ o.archive = open[t].archive
        /\ o.failed = open[t].failed /\ o.known = open[t].known
    BY <1>0, InsideOpen, WentOn
  <2>1. open' = [open EXCEPT ![t] = o]
    BY <1>3 DEF OpenInv, StorageTypes
  <2>2. Redirected(o) /\ NotProvided(o)
    BY <1>0, <2>0, InsideOpen DEF StageOK, Redirected, NotProvided
  <2>3. Answered(o, file[t])
    BY <1>0, <1>3, <2>0, <2>2 DEF Answered, NotProvided, Offered
  <2>4. file[t].position = 0
    BY <1>0, InsideOpen DEF StageOK
  <2> HIDE DEF o
  <2>5. StageOK(o, file[t], seen[t]) /\ Stands(o.known)
    BY <1>0, <2>0, <2>2, <2>3, <2>4, InsideOpen DEF StageOK
  <2>6. QED
    BY <1>0, <1>3, <2>0, <2>1, <2>5, InsideOpen, ThreadStep
<1>4. QED
  BY <1>1, <1>2, <1>3 DEF FindTransform

LEMMA OfferTransformInv ==
    ASSUME OpenInv, NEW t \in Threads, OfferTransform(t)
    PROVE  OpenInv'
<1>0. /\ open[t].at = "offer" /\ UNCHANGED <<registries, seen>>
      /\ open[t].known.transforms \in Seq(Transforms)
      /\ Begins(open[t].known.transforms, transforms) /\ Stands(open[t].known)
      /\ "rewind" \in Stages /\ "held" \in Stages /\ seen[t] = 0
      /\ file[t].from = open[t].name /\ open[t].name \in Names /\ natives[t] = 1
  BY InsideOpen DEF OfferTransform, StageOK, Known, Stands, Stages
<1>1. ASSUME NEW x \in Transforms, IsFirst(transforms, Matching(open[t].name), x),
             Swap(t, x), open' = [open EXCEPT ![t].at = "held"]
      PROVE  OpenInv'
  <2> DEFINE o == [open[t] EXCEPT !.at = "held"]
  <2>0. /\ o \in Opens /\ o.at = "held" /\ o.name = open[t].name
        /\ o.asked = open[t].asked /\ o.archive = open[t].archive
        /\ o.failed = open[t].failed /\ o.known = open[t].known
    BY <1>0, InsideOpen, WentOn
  <2>1. /\ open' = [open EXCEPT ![t] = o] /\ file' = [file EXCEPT ![t] = Buffered(x)]
        /\ natives' = [natives EXCEPT ![t] = 0]
    BY <1>0, <1>1 DEF OpenInv, StorageTypes, Swap
  <2>2. Redirected(o) /\ NotProvided(o)
    BY <1>0, <2>0, InsideOpen DEF StageOK, Redirected, NotProvided
  <2>3. ASSUME NEW y \in Transforms, IsFirst(open[t].known.transforms, Matching(open[t].name), y) PROVE y = x
    <3>1. IsFirst(transforms, Matching(open[t].name), y)
      BY <1>0, <2>3, InsideOpen, FirstStaysFirst
    <3>2. QED
      BY <3>1, <1>1, InsideOpen, OneIsFirst
  <2>4. Buffered(x).from = x
    BY BufferedFits
  <2>5. Answered(o, Buffered(x))
    BY <2>0, <2>2, <2>3, <2>4 DEF Answered, NotProvided
  <2>6. /\ Buffered(x).position = 0 /\ 0 <= Buffered(x).size /\ Buffered(x).size <= Buffered(x).room
        /\ Buffered(x).from # None /\ o.known \in Known /\ o.name \in Names /\ o.asked \in Names
    BY <1>0, <2>0, InsideOpen, BufferedFits DEF StageOK
  <2> HIDE DEF o
  <2>7. StageOK(o, Buffered(x), 0) /\ Stands(o.known)
    BY <1>0, <2>0, <2>2, <2>5, <2>6 DEF StageOK
  <2>8. /\ UNCHANGED registries /\ seen' = [seen EXCEPT ![t] = 0]
        /\ Buffered(x) \in Handles /\ Buffered(x).from \notin Names
    BY <1>0, InsideOpen, BufferedFits
  <2>9. QED
    BY <2>0, <2>1, <2>7, <2>8, ThreadStep
<1>2. ASSUME open' = [open EXCEPT ![t].at = "rewind", ![t].failed = TRUE], UNCHANGED <<file, natives>>
      PROVE  OpenInv'
  <2> DEFINE o == [open[t] EXCEPT !.at = "rewind", !.failed = TRUE]
  <2>0. /\ o \in Opens /\ o.at = "rewind" /\ o.name = open[t].name
        /\ o.asked = open[t].asked /\ o.archive = open[t].archive
        /\ o.failed /\ o.known = open[t].known
    <3>1. open[t] \in Opens /\ "rewind" \in Stages
      BY <1>0, InsideOpen
    <3>2. o \in Opens
      BY <3>1 DEF Opens
    <3>3. o.at = "rewind" /\ o.name = open[t].name /\ o.asked = open[t].asked /\ o.known = open[t].known
      BY <3>1 DEF Opens
    <3>4. o.archive = open[t].archive
      BY <3>1 DEF Opens
    <3>5. o.failed
      BY <3>1 DEF Opens
    <3>6. QED
      BY <3>1, <3>2, <3>3, <3>4, <3>5
  <2>1. open' = [open EXCEPT ![t] = o]
    BY <1>2 DEF OpenInv, StorageTypes
  <2>2. Redirected(o) /\ NotProvided(o) /\ NotTransformed(o)
    BY <1>0, <2>0, InsideOpen DEF StageOK, Redirected, NotProvided, NotTransformed
  <2> HIDE DEF o
  <2>3. StageOK(o, file[t], seen[t]) /\ Stands(o.known)
    BY <1>0, <2>0, <2>2, InsideOpen DEF StageOK
  <2>4. /\ UNCHANGED registries /\ natives' = [natives EXCEPT ![t] = natives[t]]
        /\ seen' = [seen EXCEPT ![t] = seen[t]] /\ file' = [file EXCEPT ![t] = file[t]]
    BY <1>0, <1>2, InsideOpen
  <2>5. QED
    BY <2>0, <2>1, <2>3, <2>4, InsideOpen, ThreadStep
<1>3. ASSUME Unclaimed(transforms, Matching(open[t].name)),
             open' = [open EXCEPT ![t].at = "rewind"], UNCHANGED <<file, natives>>
      PROVE  OpenInv'
  <2> DEFINE o == [open[t] EXCEPT !.at = "rewind"]
  <2>0. /\ o \in Opens /\ o.at = "rewind" /\ o.name = open[t].name
        /\ o.asked = open[t].asked /\ o.archive = open[t].archive
        /\ o.failed = open[t].failed /\ o.known = open[t].known
    BY <1>0, InsideOpen, WentOn
  <2>1. open' = [open EXCEPT ![t] = o]
    BY <1>3 DEF OpenInv, StorageTypes
  <2>2. Redirected(o) /\ NotProvided(o)
    BY <1>0, <2>0, InsideOpen DEF StageOK, Redirected, NotProvided
  <2>3. NotTransformed(o)
    <3> SUFFICES ASSUME NEW y \in Transforms,
                        IsFirst(open[t].known.transforms, Matching(open[t].name), y)
                 PROVE  FALSE
      BY <2>0 DEF NotTransformed
    <3>1. IsFirst(transforms, Matching(open[t].name), y)
      BY <1>0, InsideOpen, FirstStaysFirst
    <3>2. QED
      BY <3>1, <1>3, InsideOpen, UnclaimedHasNoFirst
  <2> HIDE DEF o
  <2>4. StageOK(o, file[t], seen[t]) /\ Stands(o.known)
    BY <1>0, <2>0, <2>2, <2>3, InsideOpen DEF StageOK
  <2>5. /\ UNCHANGED registries /\ natives' = [natives EXCEPT ![t] = natives[t]]
        /\ seen' = [seen EXCEPT ![t] = seen[t]] /\ file' = [file EXCEPT ![t] = file[t]]
    BY <1>0, <1>3, InsideOpen
  <2>6. QED
    BY <2>0, <2>1, <2>4, <2>5, InsideOpen, ThreadStep
<1>4. QED
  BY <1>1, <1>2, <1>3 DEF OfferTransform

LEMMA RewindInv ==
    ASSUME OpenInv, NEW t \in Threads, Rewind(t)
    PROVE  OpenInv'
<1> DEFINE o == [open[t] EXCEPT !.at = "held"]
           f == [file[t] EXCEPT !.position = 0]
<1>0. /\ open[t].at = "rewind" /\ UNCHANGED <<registries, natives, seen>>
      /\ Stands(open[t].known) /\ "held" \in Stages /\ seen[t] = 0
      /\ file[t].from = open[t].name /\ open[t].name \in Names
  BY InsideOpen DEF Rewind, StageOK, Stages
<1>1. /\ o \in Opens /\ o.at = "held" /\ o.name = open[t].name
      /\ o.asked = open[t].asked /\ o.archive = open[t].archive
      /\ o.failed = open[t].failed /\ o.known = open[t].known
  BY <1>0, InsideOpen, WentOn
<1>2. open' = [open EXCEPT ![t] = o] /\ file' = [file EXCEPT ![t] = f]
  BY DEF Rewind, Rewound, OpenInv, StorageTypes
<1>3. file[t] \in Handles /\ file[t].size <= file[t].room
  BY InsideOpen DEF StageOK
<1>4. /\ f \in Handles /\ f.from = file[t].from /\ f.size = file[t].size
      /\ f.position = 0 /\ f.position <= f.size /\ f.size <= f.room
  BY <1>3 DEF Handles
<1>5. Redirected(o) /\ NotProvided(o) /\ NotTransformed(o)
  BY <1>0, <1>1, InsideOpen DEF StageOK, Redirected, NotProvided, NotTransformed
<1>6. Answered(o, f)
  BY <1>5 DEF Answered, NotProvided, NotTransformed
<1> HIDE DEF o, f
<1>7. StageOK(o, f, seen[t]) /\ Stands(o.known)
  BY <1>0, <1>1, <1>4, <1>5, <1>6, InsideOpen DEF StageOK
<1>8. /\ UNCHANGED registries /\ natives' = [natives EXCEPT ![t] = natives[t]]
      /\ seen' = [seen EXCEPT ![t] = seen[t]] /\ natives[t] = IF f.from \in Names THEN 1 ELSE 0
  BY <1>0, <1>4, InsideOpen
<1>9. QED
  BY <1>1, <1>2, <1>4, <1>7, <1>8, InsideOpen, ThreadStep

-----------------------------------------------------------------------------
(* What the caller does with its handle.                                   *)

(* A held handle at another place in its file.                             *)
LEMMA HeldMoves ==
    ASSUME OpenInv, NEW t \in Threads, open[t].at = "held", UNCHANGED registries,
           open' = [open EXCEPT ![t] = open[t]], natives' = [natives EXCEPT ![t] = natives[t]],
           NEW pos \in Nat, pos <= file[t].size,
           file' = [file EXCEPT ![t].position = pos], seen' = [seen EXCEPT ![t] = pos]
    PROVE  OpenInv'
<1> DEFINE f == [file[t] EXCEPT !.position = pos]
<1>1. file[t] \in Handles /\ file[t].size <= file[t].room /\ Stands(open[t].known)
  BY InsideOpen DEF StageOK
<1>2. /\ f \in Handles /\ f.from = file[t].from /\ f.size = file[t].size
      /\ f.position = pos /\ f.position <= f.size /\ f.size <= f.room
  BY <1>1 DEF Handles
<1>3. file' = [file EXCEPT ![t] = f]
  BY DEF OpenInv, StorageTypes
<1> HIDE DEF f
<1>4. Answered(open[t], f)
  BY <1>2, InsideOpen DEF StageOK, Answered
<1>5. StageOK(open[t], f, pos)
  BY <1>2, <1>4, InsideOpen DEF StageOK
<1>6. natives[t] = IF f.from \in Names THEN 1 ELSE 0
  BY <1>2, InsideOpen
<1>7. open[t] \in Opens /\ natives[t] \in {0, 1}
  BY InsideOpen
<1>8. QED
  BY <1>1, <1>2, <1>3, <1>5, <1>6, <1>7, ThreadStep

LEMMA ReadDetourInv ==
    ASSUME OpenInv, NEW t \in Threads, NEW len \in Nat, ReadDetour(t, len)
    PROVE  OpenInv'
<1> DEFINE want == Min({len, Avail(t)})
<1>0. /\ file[t] \in Handles /\ file[t].position <= file[t].size /\ seen[t] = file[t].position
      /\ open[t].at = "held"
  BY InsideOpen DEF ReadDetour, StageOK
<1>1. Avail(t) \in Nat /\ file[t].position \in Nat /\ file[t].size \in Nat
  BY <1>0 DEF Avail, Handles
<1>2. {len, Avail(t)} \subseteq Nat
  BY <1>1
<1>3. want \in Nat /\ want <= Avail(t)
  BY <1>1, <1>2, MinOfNaturals
<1>4. /\ file' = [file EXCEPT ![t].position = @ + want] /\ seen' = [seen EXCEPT ![t] = @ + want]
      /\ UNCHANGED <<registries, open, natives>>
  BY DEF ReadDetour
<1> HIDE DEF want
<1>5. /\ file[t].position + want \in Nat /\ file[t].position + want <= file[t].size
      /\ file' = [file EXCEPT ![t].position = file[t].position + want]
      /\ seen' = [seen EXCEPT ![t] = file[t].position + want]
  BY <1>0, <1>1, <1>3, <1>4 DEF Avail, OpenInv, StorageTypes
<1>6. QED
  BY <1>0, <1>4, <1>5, InsideOpen, HeldMoves

LEMMA SeekDetourInv ==
    ASSUME OpenInv, NEW t \in Threads, NEW base, NEW dist \in Int, SeekDetour(t, base, dist)
    PROVE  OpenInv'
<1> DEFINE pos == Min({Max({base + dist, 0}), file[t].size})
<1>0. file[t] \in Handles /\ open[t].at = "held"
  BY InsideOpen DEF SeekDetour
<1>1. base + dist \in Int /\ file[t].size \in Nat
  BY <1>0 DEF SeekDetour, Handles
<1>3. Max({base + dist, 0}) \in Nat
  BY <1>1, MaxWithZero
<1>4. pos \in Nat /\ pos <= file[t].size
  <2> DEFINE ends == {Max({base + dist, 0}), file[t].size}
  <2>1. ends \subseteq Nat /\ ends # {} /\ file[t].size \in ends
    BY <1>1, <1>3
  <2> HIDE DEF ends
  <2>2. Min(ends) \in Nat /\ Min(ends) <= file[t].size
    BY <2>1, MinOfNaturals
  <2>3. QED
    BY <2>2 DEF ends
<1>5. /\ file' = [file EXCEPT ![t].position = pos] /\ seen' = [seen EXCEPT ![t] = pos]
      /\ UNCHANGED <<registries, open, natives>>
  BY DEF SeekDetour
<1> HIDE DEF pos
<1>6. QED
  BY <1>0, <1>4, <1>5, InsideOpen, HeldMoves

LEMMA CloseDetourInv ==
    ASSUME OpenInv, NEW t \in Threads, CloseDetour(t)
    PROVE  OpenInv'
<1>1. /\ Idle \in Opens /\ Idle.at = "idle" /\ StageOK(Idle, NoFile, 0)
      /\ NoFile \in Handles /\ NoFile.from \notin Names
  BY DEF Idle, Opens, Stages, StageOK, NoFile, Handles, Origins
<1>2. natives' = [natives EXCEPT ![t] = 0]
  <2>1. file[t].from \in Origins /\ open[t].at = "held"
    BY InsideOpen DEF CloseDetour, Handles
  <2>2. natives' = [natives EXCEPT ![t] = IF IsOurs(t) THEN natives[t] ELSE natives[t] - 1]
    BY DEF CloseDetour
  <2>3. (IF IsOurs(t) THEN natives[t] ELSE natives[t] - 1) = 0
    <3>1. file[t].from # None
      BY InsideOpen, <2>1 DEF StageOK
    <3>2. CASE file[t].from \in Names
      <4>1. ~IsOurs(t) /\ natives[t] = 1
        BY <3>2, InsideOpen DEF IsOurs
      <4>2. QED
        BY <4>1
    <3>3. CASE file[t].from \notin Names
      <4>1. IsOurs(t) /\ natives[t] = 0
        BY <2>1, <3>1, <3>3, InsideOpen DEF IsOurs, Callbacks, Origins
      <4>2. QED
        BY <4>1
    <3>4. QED
      BY <3>2, <3>3
  <2>4. QED
    BY <2>2, <2>3
<1>3. /\ file' = [file EXCEPT ![t] = NoFile] /\ open' = [open EXCEPT ![t] = Idle]
      /\ seen' = [seen EXCEPT ![t] = 0] /\ UNCHANGED registries
  BY DEF CloseDetour
<1>4. QED
  BY <1>1, <1>2, <1>3, ThreadStep

LEMMA NextOpenInv == OpenInv /\ [Next]_vars => OpenInv'
<1> SUFFICES ASSUME OpenInv, [Next]_vars PROVE OpenInv'
  OBVIOUS
<1>1. CASE Register \/ RegisterSuffix
  BY <1>1, RegisterInv
<1>2. ASSUME NEW t \in Threads, Opening(t) PROVE OpenInv'
  BY <1>2, OpenDetourInv, RedirectInv, TryServeInv, NativeOpenInv, FindTransformInv,
     OfferTransformInv, RewindInv DEF Opening
<1>3. ASSUME NEW t \in Threads, Using(t) PROVE OpenInv'
  BY <1>3, ReadDetourInv, SeekDetourInv, CloseDetourInv DEF Using
<1>4. CASE UNCHANGED vars
  BY <1>4 DEF vars, registries, OpenInv, StorageTypes, NoHandleLost, Stands
<1>5. QED
  BY <1>1, <1>2, <1>3, <1>4 DEF Next

(* Whoever had registered first for a name before an open began answers    *)
(* it, with a file that reads from its start and a native handle that is   *)
(* neither leaked nor closed twice.                                        *)
THEOREM OpensServedAlways == Spec => []OpensServed
<1>1. QED
  BY InitOpenInv, NextOpenInv, OpenInvServes, PTL DEF Spec

(* The phases use the interception as any other caller does.               *)
THEOREM PhasedIsStorage == PhasedSpec => Spec
<1> USE PhasingAssumption DEF PhasingAssumption
<1>1. PhasedInit => Init
  BY DEF PhasedInit
<1>2. [PhasedNext]_allVars => [Next]_vars
  <2> SUFFICES ASSUME [PhasedNext]_allVars PROVE [Next]_vars
    OBVIOUS
  <2>1. ASSUME NEW p \in Phases, OpenPhaseWdt(p) PROVE Next
    BY <2>1 DEF OpenPhaseWdt, Next, Opening
  <2>2. CASE ReadPhaseWdt
    BY <2>2 DEF ReadPhaseWdt, Next, Using
  <2>3. CASE Files
    BY <2>3 DEF Files, Next
  <2>4. CASE WdtNotFound \/ ClearTerrainPhase \/ (\E tile \in Tiles : Stream(tile)) \/ (\E map \in Maps : Travel(map))
    BY <2>4 DEF WdtNotFound, ClearTerrainPhase, Stream, Travel
  <2>5. CASE UNCHANGED allVars
    BY <2>5 DEF allVars
  <2>6. QED
    BY <2>1, <2>2, <2>3, <2>4, <2>5 DEF PhasedNext
<1>3. QED
  BY <1>1, <1>2, PTL DEF PhasedSpec, Spec

-----------------------------------------------------------------------------
(* The terrain phases.                                                     *)

HIDE StorageAssumption DEF StorageAssumption
USE PhasingAssumption DEF PhasingAssumption

(* Of the tiles of the active phase the detour sees all or, while another  *)
(* WDT is read and after it was not found, none; and the map it goes back  *)
(* to is the player's until he leaves it with a phase active.              *)
PhaseInv ==
    /\ PhaseShown
    /\ phaseMain \in {{}, known}
    /\ ~outlived => mapDir = mapId /\ baseMap \in {None, mapId}

LEMMA PhasedInitInv == PhasedInit => PhaseInv
  BY DEF PhasedInit, PhaseInv, PhaseShown, PhasedTypeOK

(* The terrain after all tiles were loaded anew.                           *)
LEMMA EnteredTerrain ==
    ASSUME NEW dir \in Maps, EnterMap(dir),
           childMap' \in Phases \cup {None}, phaseMain' \in {{}, known'}
    PROVE  /\ mapDir' = dir /\ loaded' \in [Tiles -> Maps \cup Phases]
           /\ \A tile \in Tiles :
                /\ loaded'[tile] \in {mapDir', childMap'}
                /\ loaded'[tile] # mapDir' => tile \in known'
                /\ childMap' # None /\ phaseMain' = known' /\ tile \in known' => loaded'[tile] = childMap'
<1>1. /\ mapDir' = dir
      /\ loaded' = [tile \in Tiles |-> IF childMap' # None /\ tile \in phaseMain' THEN childMap' ELSE dir]
  BY DEF EnterMap, TileLoad
<1>2. QED
  BY <1>1

LEMMA PhasedNextInv == PhaseInv /\ [PhasedNext]_allVars => PhaseInv'
<1> SUFFICES ASSUME PhaseInv, [PhasedNext]_allVars PROVE PhaseInv'
  OBVIOUS
<1> USE DEF PhaseInv, PhaseShown, PhasedTypeOK
<1>1. ASSUME NEW p \in Phases, OpenPhaseWdt(p) PROVE PhaseInv'
  BY <1>1 DEF OpenPhaseWdt
<1>2. CASE WdtNotFound
  BY <1>2 DEF WdtNotFound
<1>3. CASE ReadPhaseWdt
  <2> DEFINE origin == file[Main].from
  <2>1. CASE file[Main].size > 0 /\ origin \in DOMAIN TilesOf
    <3>1. /\ phaseMain' = TilesOf[origin] /\ known' = TilesOf[origin] /\ TilesOf[origin] \subseteq Tiles
          /\ baseMap' = IF baseMap = None THEN mapDir ELSE baseMap
          /\ childMap' = changing /\ changing \in Phases /\ changing' = None
          /\ EnterMap(baseMap') /\ UNCHANGED <<mapId, outlived>>
      BY <1>3, <2>1 DEF ReadPhaseWdt, MainChunk
    <3>2. baseMap' \in Maps /\ phaseMain' \in {{}, known'} /\ childMap' \in Phases \cup {None}
      BY <3>1
    <3>3. /\ mapDir' = baseMap' /\ loaded' \in [Tiles -> Maps \cup Phases]
          /\ \A tile \in Tiles :
               /\ loaded'[tile] \in {mapDir', childMap'}
               /\ loaded'[tile] # mapDir' => tile \in known'
               /\ childMap' # None /\ phaseMain' = known' /\ tile \in known' => loaded'[tile] = childMap'
      BY <3>1, <3>2, EnteredTerrain
    <3>4. QED
      BY <3>1, <3>2, <3>3
  <2>2. CASE ~(file[Main].size > 0 /\ origin \in DOMAIN TilesOf)
    BY <1>3, <2>2 DEF ReadPhaseWdt
  <2>3. QED
    BY <2>1, <2>2
<1>4. CASE ClearTerrainPhase
  <2>1. /\ childMap' = None /\ EnterMap(baseMap) /\ baseMap \in Maps /\ baseMap' = None
        /\ UNCHANGED <<phaseMain, changing, mapId, known, outlived>>
    BY <1>4 DEF ClearTerrainPhase
  <2>2. /\ mapDir' = baseMap /\ loaded' \in [Tiles -> Maps \cup Phases]
        /\ \A tile \in Tiles :
             /\ loaded'[tile] \in {mapDir', childMap'}
             /\ loaded'[tile] # mapDir' => tile \in known'
             /\ childMap' # None /\ phaseMain' = known' /\ tile \in known' => loaded'[tile] = childMap'
    BY <2>1, EnteredTerrain
  <2>3. QED
    BY <2>1, <2>2
<1>5. ASSUME NEW tile \in Tiles, Stream(tile) PROVE PhaseInv'
  BY <1>5 DEF Stream, TileLoad
<1>6. ASSUME NEW map \in Maps, Travel(map) PROVE PhaseInv'
  <2>1. /\ EnterMap(map) /\ mapId' = map /\ outlived' = (outlived \/ baseMap # None)
        /\ UNCHANGED <<childMap, baseMap, phaseMain, changing, known>>
    BY <1>6 DEF Travel
  <2>2. /\ mapDir' = map /\ loaded' \in [Tiles -> Maps \cup Phases]
        /\ \A tile \in Tiles :
             /\ loaded'[tile] \in {mapDir', childMap'}
             /\ loaded'[tile] # mapDir' => tile \in known'
             /\ childMap' # None /\ phaseMain' = known' /\ tile \in known' => loaded'[tile] = childMap'
    BY <2>1, EnteredTerrain
  <2>3. outlived' \in BOOLEAN /\ (~outlived' => baseMap' = None)
    BY <2>1
  <2>4. QED
    BY <2>1, <2>2, <2>3
<1>7. CASE UNCHANGED phase
  BY <1>7 DEF phase
<1>8. QED
  BY <1>1, <1>2, <1>3, <1>4, <1>5, <1>6, <1>7 DEF PhasedNext, Files, allVars

(* Whatever change of phase fails half way: every tile is of the map or of *)
(* the active phase, of the phase only where its WDT has it, and the map   *)
(* is the player's own unless he left one with a phase active.             *)
THEOREM PhaseShownAlways == PhasedSpec => []PhaseShown
<1>1. PhaseInv => PhaseShown
  BY DEF PhaseInv
<1>2. QED
  BY PhasedInitInv, PhasedNextInv, <1>1, PTL DEF PhasedSpec
-----------------------------------------------------------------------------
(* The patcher (Patcher.tla): what an edited image keeps of the stock one, *)
(* and the files of its runs.                                              *)

HIDE PhasingAssumption DEF PhasingAssumption

LEMMA GreatestExists ==
    ASSUME NEW top \in Nat, NEW S, S \subseteq 1 .. top, S # {}
    PROVE  \E x \in S : \A y \in S : y <= x
<1> DEFINE T == {top - y : y \in S}
<1>1. T \subseteq Nat /\ T # {}
  <2>1. \A y \in S : top - y \in Nat
    OBVIOUS
  <2>2. QED
    BY <2>1
<1>2. PICK z \in T : \A y \in T : z <= y
  BY <1>1, LeastExists
<1>3. PICK x \in S : z = top - x
  BY <1>2
<1>4. \A y \in S : top - x <= top - y
  BY <1>2, <1>3
<1>5. \A y \in S : y <= x
  BY <1>4
<1>6. QED
  BY <1>5

(* Images that agree in every field are one.                               *)
LEMMA SameImage ==
    ASSUME NEW i \in Images, NEW j \in Images,
           i.build = j.build, i.large = j.large, i.sections = j.sections, i.room = j.room,
           i.imports = j.imports, i.top = j.top, i.bytes = j.bytes
    PROVE  i = j
BY DEF Images

LEMMA ElementOf ==
    ASSUME NEW S, NEW s \in Seq(S), NEW k \in DOMAIN s
    PROVE  s[k] \in S
  OBVIOUS

LEMMA LargeIsSet ==
    ASSUME NEW i \in Images
    PROVE  /\ LargeSet(i) \in Images /\ LargeSet(i).large = TRUE
           /\ LargeSet(i).build = i.build /\ LargeSet(i).sections = i.sections /\ LargeSet(i).room = i.room
           /\ LargeSet(i).imports = i.imports /\ LargeSet(i).top = i.top /\ LargeSet(i).bytes = i.bytes
<1> DEFINE j == LargeSet(i)
<1>1. j = [i EXCEPT !.large = TRUE]
  BY DEF LargeSet
<1> HIDE DEF j
<1>2. /\ j.build = i.build /\ j.large = TRUE /\ j.sections = i.sections /\ j.room = i.room
      /\ j.imports = i.imports /\ j.top = i.top /\ j.bytes = i.bytes /\ DOMAIN j = DOMAIN i
  BY <1>1 DEF Images
<1>3. j \in Images
  BY <1>1, <1>2 DEF Images
<1>4. QED
  BY <1>2, <1>3 DEF j

LEMMA LargeStays ==
    ASSUME NEW i \in Images, i.large = TRUE
    PROVE  LargeSet(i) = i
BY LargeIsSet, SameImage

LEMMA StockImages ==
    ASSUME FileAssumption, NEW b \in Builds
    PROVE  Stock(b) \in Images /\ Stock(b).build = b /\ ~AlreadyPatched(Stock(b))
BY DEF Stock, AlreadyPatched, FileAssumption

LEMMA HolderChosen ==
    ASSUME NEW i \in Images, NEW va \in Nat, HoldersOf(i, va) # {}
    PROVE  \E n \in HoldersOf(i, va) :
             /\ \A m \in HoldersOf(i, va) : n <= m
             /\ VaToOffset(i, va) = va - i.sections[n].va + i.sections[n].raw
<1>1. HoldersOf(i, va) \subseteq Nat
  BY DEF HoldersOf, Images
<1>2. \E n \in HoldersOf(i, va) : \A m \in HoldersOf(i, va) : n <= m
  BY <1>1, LeastExists
<1> DEFINE h == CHOOSE n \in HoldersOf(i, va) : \A m \in HoldersOf(i, va) : n <= m
<1>3. h \in HoldersOf(i, va) /\ \A m \in HoldersOf(i, va) : h <= m
  BY <1>2
<1>4. VaToOffset(i, va) = va - i.sections[h].va + i.sections[h].raw
  BY DEF VaToOffset
<1>5. QED
  BY <1>3, <1>4

LEMMA OffsetInFile ==
    ASSUME NEW i \in Images, NEW va \in Nat
    PROVE  /\ VaToOffset(i, va) \in Nat
           /\ VaToOffset(i, va) # 0 => i.sections # << >>
<1>1. CASE HoldersOf(i, va) = {}
  BY <1>1 DEF VaToOffset
<1>2. CASE HoldersOf(i, va) # {}
  <2>1. PICK n \in HoldersOf(i, va) : VaToOffset(i, va) = va - i.sections[n].va + i.sections[n].raw
    BY <1>2, HolderChosen
  <2>2. n \in DOMAIN i.sections /\ i.sections[n] \in Headers /\ Covers(i.sections[n], va)
    BY <2>1 DEF HoldersOf, Images
  <2>3. i.sections[n].va \in Nat /\ i.sections[n].raw \in Nat /\ i.sections[n].va <= va
    BY <2>2 DEF Covers, Headers
  <2>4. i.sections # << >>
    BY <2>2
  <2>5. QED
    BY <2>1, <2>3, <2>4
<1>3. QED
  BY <1>1, <1>2

LEMMA OffsetByLayout ==
    ASSUME NEW i, NEW j, i.sections = j.sections, NEW va
    PROVE  VaToOffset(i, va) = VaToOffset(j, va)
BY DEF VaToOffset, HoldersOf

LEMMA LandsByLayout ==
    ASSUME NEW i, NEW j, i.sections = j.sections, i.bytes = j.bytes, NEW edit
    PROVE  Lands(i, edit) = Lands(j, edit) /\ WrittenTo(i, edit) = WrittenTo(j, edit)
BY OffsetByLayout DEF Lands, WrittenTo

(* The bytes the scripts leave, by layout.                                 *)
Hits(image, at) == {n \in DOMAIN Edits : at \in WrittenTo(image, Edits[n])}
LastHit(image, at) == CHOOSE n \in Hits(image, at) : \A m \in Hits(image, at) : m <= n
UnitAt(image, at) ==
    IF Hits(image, at) = {} THEN image.bytes[at]
    ELSE Edits[LastHit(image, at)].units[at - VaToOffset(image, Edits[LastHit(image, at)].va)]
Rewritten(image) == [at \in DOMAIN image.bytes |-> UnitAt(image, at)]

LEMMA RewrittenUnits ==
    ASSUME FileAssumption, NEW i \in Images
    PROVE  Rewritten(i) \in Seq(Units) /\ Len(Rewritten(i)) = Len(i.bytes)
<1>1. i.bytes \in Seq(Units) /\ Edits \in Seq([va : Nat, units : Seq(Units)])
  BY DEF Images, FileAssumption
<1>2. ASSUME NEW at \in DOMAIN i.bytes
      PROVE  UnitAt(i, at) \in Units
  <2>1. CASE Hits(i, at) = {}
    BY <1>1, <2>1 DEF UnitAt
  <2>2. CASE Hits(i, at) # {}
    <3>1. Len(Edits) \in Nat /\ Hits(i, at) \subseteq 1 .. Len(Edits)
      BY <1>1 DEF Hits
    <3>2. \E n \in Hits(i, at) : \A m \in Hits(i, at) : m <= n
      BY ONLY <2>2, <3>1, GreatestExists
    <3>3. LastHit(i, at) \in Hits(i, at)
      BY <3>2 DEF LastHit
    <3> DEFINE e == Edits[LastHit(i, at)]
    <3>4. LastHit(i, at) \in DOMAIN Edits /\ at \in WrittenTo(i, Edits[LastHit(i, at)])
      BY <3>3 DEF Hits
    <3>4a. e \in [va : Nat, units : Seq(Units)]
      BY ONLY <1>1, <3>4, ElementOf
    <3>4b. at \in WrittenTo(i, e)
      BY <3>4
    <3>5. e.va \in Nat /\ e.units \in Seq(Units)
      BY <3>4a
    <3> HIDE DEF e
    <3>6. VaToOffset(i, e.va) \in Nat
      BY <3>5, OffsetInFile
    <3>6a. at \in Nat
      BY <1>1
    <3>7. at - VaToOffset(i, e.va) \in 1 .. Len(e.units)
      BY ONLY <3>4b, <3>5, <3>6, <3>6a DEF WrittenTo
    <3>8. e.units[at - VaToOffset(i, e.va)] \in Units
      BY <3>5, <3>7
    <3>9. QED
      BY <2>2, <3>8 DEF e, UnitAt
  <2>3. QED
    BY <2>1, <2>2
<1>3. Rewritten(i) = [at \in DOMAIN i.bytes |-> UnitAt(i, at)]
  BY DEF Rewritten
<1>4. DOMAIN i.bytes = 1 .. Len(i.bytes) /\ Len(i.bytes) \in Nat
  BY <1>1
<1>5. QED
  BY <1>2, <1>3, <1>4

LEMMA ScriptsApplied ==
    ASSUME FileAssumption, NEW i \in Images, NEW j, j = ApplyScripts(i, Edits)
    PROVE  /\ (\A n \in DOMAIN Edits : Lands(i, Edits[n]))
              => /\ j \in Images /\ j.bytes = Rewritten(i)
                 /\ j.build = i.build /\ j.large = i.large /\ j.sections = i.sections
                 /\ j.room = i.room /\ j.imports = i.imports /\ j.top = i.top
           /\ ~(\A n \in DOMAIN Edits : Lands(i, Edits[n])) => j = Failed
<1>1. CASE \A n \in DOMAIN Edits : Lands(i, Edits[n])
  <2>1. j = [i EXCEPT !.bytes = Rewritten(i)]
    BY <1>1, Zenon DEF ApplyScripts, Rewritten, UnitAt, LastHit, Hits
  <2>2. /\ j.build = i.build /\ j.large = i.large /\ j.sections = i.sections /\ j.room = i.room
        /\ j.imports = i.imports /\ j.top = i.top /\ j.bytes = Rewritten(i) /\ DOMAIN j = DOMAIN i
    BY <2>1 DEF Images
  <2>3. j \in Images
    BY <2>1, <2>2, RewrittenUnits DEF Images
  <2>4. QED
    BY <1>1, <2>2, <2>3
<1>2. CASE ~(\A n \in DOMAIN Edits : Lands(i, Edits[n]))
  BY <1>2 DEF ApplyScripts
<1>3. QED
  BY <1>1, <1>2

(* AddImport, on an image that is not marked.                              *)
LEMMA AlignUpNatural ==
    ASSUME NEW v \in Nat, NEW a \in Nat \ {0}
    PROVE  AlignUp(v, a) \in Nat
BY DEF AlignUp

LEMMA KnownUnits == {NewImport, Zero} \subseteq Units
<1>1. \A A, B, C : {NewImport, Zero} \subseteq A \cup B \cup C \cup {NewImport, Zero}
  OBVIOUS
<1>2. QED
  BY ONLY <1>1, Zenon DEF Units

LEMMA PaddedUnits ==
    ASSUME NEW s \in Seq(Units), NEW n \in Int
    PROVE  Padded(s, n) \in Seq(Units)
<1> DEFINE pad == [k \in 1 .. n - Len(s) |-> Zero]
<1>1. Zero \in Units
  BY KnownUnits
<1>2. pad \in Seq(Units)
  <2> DEFINE m == IF n - Len(s) >= 0 THEN n - Len(s) ELSE 0
  <2>1. m \in Nat /\ 1 .. n - Len(s) = 1 .. m
    OBVIOUS
  <2> HIDE DEF m
  <2>2. pad \in [1 .. m -> Units]
    BY <1>1, <2>1
  <2>3. QED
    BY <2>1, <2>2
<1> HIDE DEF pad
<1>3. s \o pad \in Seq(Units)
  BY <1>2, ConcatProperties
<1>4. QED
  BY <1>3 DEF Padded, pad

LEMMA SubSeqUnits ==
    ASSUME NEW S, NEW s \in Seq(S), NEW m \in Nat \ {0}, NEW n \in Int, n <= Len(s)
    PROVE  SubSeq(s, m, n) \in Seq(S)
  OBVIOUS

LEMMA DescriptorsUnits ==
    ASSUME NEW i \in Images, NEW offset \in Nat
    PROVE  Descriptors(i, offset) \in Seq(Units)
<1> DEFINE ends == {n \in offset + 1 .. Len(i.bytes) : i.bytes[n] = Zero} \cup {Len(i.bytes) + 1}
           end == CHOOSE n \in ends : \A m \in ends : n <= m
<1>1. i.bytes \in Seq(Units) /\ Len(i.bytes) \in Nat
  BY DEF Images
<1>2. ends \subseteq Nat /\ ends # {} /\ \A n \in ends : n <= Len(i.bytes) + 1
  BY <1>1
<1>3. \E n \in ends : \A m \in ends : n <= m
  BY ONLY <1>2, LeastExists
<1>4. end \in ends
  BY <1>3
<1>5. end \in Nat /\ end <= Len(i.bytes) + 1
  BY <1>2, <1>4
<1>6. Descriptors(i, offset) = SubSeq(i.bytes, offset + 1, end - 1)
  BY DEF Descriptors
<1> HIDE DEF end, ends
<1>7. QED
  BY <1>1, <1>5, <1>6, SubSeqUnits

Blob(i) == Descriptors(i, VaToOffset(i, i.imports)) \o <<NewImport, Zero>> \o Thunks
ImportSection(i) ==
    [name |-> Tag, va |-> SectionVa(i), vsize |-> Len(Blob(i)), raw |-> SectionRaw(i),
     rsize |-> AlignUp(Len(Blob(i)), FileAlignment)]
ImportBytes(i) ==
    Padded(Padded(i.bytes, SectionRaw(i)) \o Blob(i), SectionRaw(i) + AlignUp(Len(Blob(i)), FileAlignment))
Importable(i) ==
    LET offset == VaToOffset(i, i.imports)
    IN  ~(offset = 0 \/ offset + 1 > Len(i.bytes)) /\ Len(i.sections) # i.room

LEMMA BlobUnits ==
    ASSUME FileAssumption, NEW i \in Images
    PROVE  Blob(i) \in Seq(Units)
<1>1. i.imports \in Nat
  BY DEF Images
<1>2. VaToOffset(i, i.imports) \in Nat
  BY <1>1, OffsetInFile
<1>3. Descriptors(i, VaToOffset(i, i.imports)) \in Seq(Units)
  BY <1>2, DescriptorsUnits
<1>4. {NewImport, Zero} \subseteq Units
  BY KnownUnits
<1>5. <<NewImport, Zero>> \in Seq(Units)
  BY <1>4
<1>6. Thunks \in Seq(Units)
  BY DEF FileAssumption
<1> DEFINE d == Descriptors(i, VaToOffset(i, i.imports))
           z == <<NewImport, Zero>>
<1>7. d \in Seq(Units) /\ z \in Seq(Units)
  BY <1>3, <1>5
<1> HIDE DEF d, z
<1>8. d \o z \in Seq(Units)
  BY ONLY <1>7, ConcatProperties
<1>9. d \o z \o Thunks \in Seq(Units)
  BY ONLY <1>6, <1>8, ConcatProperties
<1>10. QED
  BY <1>9 DEF Blob, d, z

LEMMA SectionFits ==
    ASSUME FileAssumption, AlignmentAssumption, NEW i \in Images, i.sections # << >>
    PROVE  /\ ImportSection(i) \in Headers /\ ImportSection(i).name = Tag
           /\ AlignUp(ImportSection(i).va + ImportSection(i).vsize, SectionAlignment) \in Nat
           /\ ImportBytes(i) \in Seq(Units)
<1>1. i.bytes \in Seq(Units) /\ Len(i.bytes) \in Nat /\ i.sections \in Seq(Headers)
  BY DEF Images
<1>2. Last(i.sections) \in Headers
  BY <1>1 DEF Last
<1>3. Last(i.sections).va + Last(i.sections).vsize \in Nat
  BY <1>2 DEF Headers
<1>4. SectionVa(i) \in Nat
  BY <1>3, AlignUpNatural DEF SectionVa, AlignmentAssumption
<1>5. SectionRaw(i) \in Nat
  BY <1>1, AlignUpNatural DEF SectionRaw, AlignmentAssumption
<1>6. Blob(i) \in Seq(Units) /\ Len(Blob(i)) \in Nat
  BY BlobUnits
<1>7. AlignUp(Len(Blob(i)), FileAlignment) \in Nat
  BY <1>6, AlignUpNatural DEF AlignmentAssumption
<1>8. Tag \in STRING
  BY DEF FileAssumption
<1>9. /\ ImportSection(i) \in Headers /\ ImportSection(i).name = Tag
      /\ ImportSection(i).va = SectionVa(i) /\ ImportSection(i).vsize = Len(Blob(i))
  BY <1>4, <1>5, <1>6, <1>7, <1>8 DEF ImportSection, Headers
<1>10. SectionVa(i) + Len(Blob(i)) \in Nat
  BY <1>4, <1>6
<1>11. AlignUp(SectionVa(i) + Len(Blob(i)), SectionAlignment) \in Nat
  BY <1>10, AlignUpNatural DEF AlignmentAssumption
<1>12. Padded(i.bytes, SectionRaw(i)) \in Seq(Units)
  BY ONLY <1>1, <1>5, SectionRaw(i) \in Int, PaddedUnits
<1>13. Padded(i.bytes, SectionRaw(i)) \o Blob(i) \in Seq(Units)
  BY <1>6, <1>12, ConcatProperties
<1>14. SectionRaw(i) + AlignUp(Len(Blob(i)), FileAlignment) \in Int
  BY <1>5, <1>7
<1>15. ImportBytes(i) \in Seq(Units)
  BY <1>13, <1>14, PaddedUnits DEF ImportBytes
<1>16. QED
  BY <1>9, <1>11, <1>15

LEMMA ImportAdded ==
    ASSUME FileAssumption, AlignmentAssumption, NEW i \in Images, ~HasSection(i, Tag), NEW j, j = AddImport(i)
    PROVE  /\ Importable(i)
              => /\ j \in Images /\ HasSection(j, Tag)
                 /\ j.build = i.build /\ j.large = i.large /\ j.room = i.room
                 /\ j.sections = Append(i.sections, ImportSection(i)) /\ j.imports = SectionVa(i)
                 /\ j.top = AlignUp(ImportSection(i).va + ImportSection(i).vsize, SectionAlignment)
                 /\ j.bytes = ImportBytes(i)
           /\ ~Importable(i) => j = Failed
<1>1. CASE Importable(i)
  <2> DEFINE new == ImportSection(i)
             top == AlignUp(new.va + new.vsize, SectionAlignment)
  <2>1. j = [i EXCEPT !.sections = Append(i.sections, new), !.imports = new.va, !.top = top,
                      !.bytes = ImportBytes(i)]
    BY <1>1, Zenon DEF AddImport, Importable, ImportSection, ImportBytes, Blob
  <2>2. i.sections # << >>
    BY <1>1, OffsetInFile DEF Importable, Images
  <2>3. new \in Headers /\ new.name = Tag /\ top \in Nat /\ ImportBytes(i) \in Seq(Units)
    BY <2>2, SectionFits
  <2>4. new.va = SectionVa(i) /\ new.va \in Nat
    BY <2>3 DEF ImportSection, Headers
  <2> HIDE DEF new, top
  <2>5. /\ j.build = i.build /\ j.large = i.large /\ j.sections = Append(i.sections, new) /\ j.room = i.room
        /\ j.imports = new.va /\ j.top = top /\ j.bytes = ImportBytes(i) /\ DOMAIN j = DOMAIN i
    BY ONLY <2>1, i \in Images DEF Images
  <2>6. i.sections \in Seq(Headers)
    BY DEF Images
  <2>7. Append(i.sections, new) \in Seq(Headers)
    BY ONLY <2>3, <2>6
  <2>8. j \in Images
    BY ONLY <2>1, <2>3, <2>4, <2>5, <2>7, i \in Images DEF Images
  <2>9. HasSection(j, Tag)
    <3>1. Len(i.sections) + 1 \in DOMAIN j.sections /\ j.sections[Len(i.sections) + 1] = new
      BY ONLY <2>3, <2>5, <2>6
    <3>2. QED
      BY <2>3, <3>1 DEF HasSection
  <2>10. QED
    BY <1>1, <2>4, <2>5, <2>8, <2>9 DEF new, top
<1>2. CASE ~Importable(i)
  BY <1>2, Zenon DEF AddImport, Importable
<1>3. QED
  BY <1>1, <1>2

(* Setting the flag before or after the edits is the same.                 *)
LEMMA LargeKeepsLayout ==
    ASSUME NEW i, NEW j, i.sections = j.sections, i.bytes = j.bytes, i.imports = j.imports, i.room = j.room
    PROVE  /\ Rewritten(i) = Rewritten(j)
           /\ \A n \in DOMAIN Edits : Lands(i, Edits[n]) = Lands(j, Edits[n])
           /\ Importable(i) = Importable(j)
           /\ ImportSection(i) = ImportSection(j) /\ SectionVa(i) = SectionVa(j) /\ ImportBytes(i) = ImportBytes(j)
<1>1. \A va : VaToOffset(i, va) = VaToOffset(j, va)
  BY OffsetByLayout
<1>2. \A edit : Lands(i, edit) = Lands(j, edit) /\ WrittenTo(i, edit) = WrittenTo(j, edit)
  BY LandsByLayout
<1>3. Rewritten(i) = Rewritten(j)
  <2>1. \A at : Hits(i, at) = Hits(j, at)
    <3>1. \A edit : WrittenTo(i, edit) = WrittenTo(j, edit)
      BY <1>2
    <3>2. QED
      BY ONLY <3>1 DEF Hits
  <2>2. \A at : LastHit(i, at) = LastHit(j, at)
    <3>1. ASSUME NEW at PROVE LastHit(i, at) = LastHit(j, at)
      <4>1. Hits(i, at) = Hits(j, at)
        BY <2>1
      <4>2. QED
        BY ONLY <4>1 DEF LastHit
    <3>2. QED
      BY <3>1
  <2>3. \A at : UnitAt(i, at) = UnitAt(j, at)
    BY <1>1, <2>1, <2>2, Zenon DEF UnitAt
  <2>4. QED
    BY <2>3, Zenon DEF Rewritten
<1>4. Importable(i) = Importable(j)
  BY <1>1, Zenon DEF Importable
<1>5. \A offset : Descriptors(i, offset) = Descriptors(j, offset)
  BY Zenon DEF Descriptors
<1>6. Blob(i) = Blob(j)
  BY <1>1, <1>5, Zenon DEF Blob
<1>7. SectionVa(i) = SectionVa(j) /\ SectionRaw(i) = SectionRaw(j)
  BY Zenon DEF SectionVa, SectionRaw
<1>8. ImportSection(i) = ImportSection(j) /\ ImportBytes(i) = ImportBytes(j)
  BY <1>6, <1>7, Zenon DEF ImportSection, ImportBytes
<1>9. QED
  BY <1>2, <1>3, <1>4, <1>7, <1>8

LEMMA EditedKnown ==
    ASSUME FileAssumption, AlignmentAssumption, NEW i \in Images, ~AlreadyPatched(i), Edited(i) # Failed
    PROVE  /\ Edited(i) \in Images /\ AlreadyPatched(Edited(i))
           /\ Edited(i).build = i.build /\ Edited(i).large = i.large
           /\ Edited(LargeSet(i)) = LargeSet(Edited(i))
<1> DEFINE k == ApplyScripts(i, Edits)
           m == LargeSet(i)
           l == ApplyScripts(m, Edits)
<1>1. k # Failed /\ Edited(i) = AddImport(k)
  BY DEF Edited
<1>2. /\ k \in Images /\ k.bytes = Rewritten(i) /\ k.build = i.build /\ k.large = i.large
      /\ k.sections = i.sections /\ k.room = i.room /\ k.imports = i.imports /\ k.top = i.top
      /\ \A n \in DOMAIN Edits : Lands(i, Edits[n])
  BY <1>1, ScriptsApplied
<1>3. ~HasSection(k, Tag)
  BY <1>2 DEF AlreadyPatched, HasSection
<1> DEFINE e == AddImport(k)
<1>4. /\ Importable(k) /\ e \in Images /\ HasSection(e, Tag) /\ e.build = k.build /\ e.large = k.large
      /\ e.room = k.room /\ e.sections = Append(k.sections, ImportSection(k)) /\ e.imports = SectionVa(k)
      /\ e.top = AlignUp(ImportSection(k).va + ImportSection(k).vsize, SectionAlignment)
      /\ e.bytes = ImportBytes(k)
  BY <1>1, <1>2, <1>3, ImportAdded
<1>5. /\ m \in Images /\ m.large = TRUE /\ m.build = i.build /\ m.sections = i.sections /\ m.room = i.room
      /\ m.imports = i.imports /\ m.top = i.top /\ m.bytes = i.bytes
  BY LargeIsSet
<1>6. Rewritten(m) = Rewritten(i) /\ \A n \in DOMAIN Edits : Lands(m, Edits[n])
  BY <1>2, <1>5, LargeKeepsLayout
<1> HIDE DEF k, m
<1>7. /\ l \in Images /\ l.bytes = Rewritten(m) /\ l.build = m.build /\ l.large = m.large
      /\ l.sections = m.sections /\ l.room = m.room /\ l.imports = m.imports /\ l.top = m.top
  BY <1>5, <1>6, ScriptsApplied
<1>8. l # Failed
  BY <1>7 DEF FileAssumption
<1>9. Edited(m) = AddImport(l)
  BY <1>8 DEF Edited
<1> HIDE DEF l, e
<1>10. l.sections = k.sections /\ l.bytes = k.bytes /\ l.imports = k.imports /\ l.room = k.room
  BY <1>2, <1>5, <1>6, <1>7
<1>11. /\ Importable(l) = Importable(k) /\ ImportSection(l) = ImportSection(k)
       /\ SectionVa(l) = SectionVa(k) /\ ImportBytes(l) = ImportBytes(k)
  BY ONLY <1>10, LargeKeepsLayout
<1>12. ~HasSection(l, Tag)
  BY <1>3, <1>10 DEF HasSection
<1> DEFINE f == AddImport(l)
<1>13. l \in Images /\ Importable(l) /\ ~HasSection(l, Tag)
  BY <1>4, <1>7, <1>11, <1>12
<1>14. /\ f \in Images /\ f.build = l.build /\ f.large = l.large
       /\ f.room = l.room /\ f.sections = Append(l.sections, ImportSection(l)) /\ f.imports = SectionVa(l)
       /\ f.top = AlignUp(ImportSection(l).va + ImportSection(l).vsize, SectionAlignment)
       /\ f.bytes = ImportBytes(l)
  BY ONLY <1>13, FileAssumption, AlignmentAssumption, ImportAdded
<1> HIDE DEF f
<1>15. /\ LargeSet(e) \in Images /\ LargeSet(e).large = TRUE
       /\ LargeSet(e).build = e.build /\ LargeSet(e).sections = e.sections /\ LargeSet(e).room = e.room
       /\ LargeSet(e).imports = e.imports /\ LargeSet(e).top = e.top /\ LargeSet(e).bytes = e.bytes
  BY <1>4, LargeIsSet
<1>16. /\ f.build = LargeSet(e).build /\ f.large = LargeSet(e).large /\ f.room = LargeSet(e).room
       /\ f.sections = LargeSet(e).sections /\ f.imports = LargeSet(e).imports
       /\ f.top = LargeSet(e).top /\ f.bytes = LargeSet(e).bytes
  BY ONLY <1>2, <1>4, <1>5, <1>7, <1>10, <1>11, <1>14, <1>15
<1>17. f = LargeSet(e)
  BY <1>14, <1>15, <1>16, SameImage
<1>18. Edited(m) = f /\ Edited(i) = e
  BY <1>1, <1>9 DEF e, f
<1>19. QED
  BY <1>2, <1>4, <1>17, <1>18 DEF AlreadyPatched, m

LEMMA FailsAlike ==
    ASSUME FileAssumption, AlignmentAssumption, NEW i \in Images, ~AlreadyPatched(i), Edited(i) = Failed
    PROVE  Edited(LargeSet(i)) = Failed
<1> DEFINE m == LargeSet(i)
           k == ApplyScripts(i, Edits)
           l == ApplyScripts(m, Edits)
<1>1. /\ m \in Images /\ m.sections = i.sections /\ m.room = i.room
      /\ m.imports = i.imports /\ m.bytes = i.bytes
  BY LargeIsSet
<1> HIDE DEF m
<1>2. Rewritten(m) = Rewritten(i) /\ \A n \in DOMAIN Edits : Lands(m, Edits[n]) = Lands(i, Edits[n])
  BY ONLY <1>1, LargeKeepsLayout
<1>3. CASE ~(\A n \in DOMAIN Edits : Lands(i, Edits[n]))
  <2>1. l = Failed
    BY <1>1, <1>2, <1>3, ScriptsApplied
  <2>2. QED
    BY <2>1 DEF Edited, m
<1>4. CASE \A n \in DOMAIN Edits : Lands(i, Edits[n])
  <2>1. /\ k \in Images /\ k.bytes = Rewritten(i) /\ k.sections = i.sections /\ k.room = i.room /\ k.imports = i.imports
    BY <1>4, ScriptsApplied
  <2>2. /\ l \in Images /\ l.bytes = Rewritten(m) /\ l.sections = m.sections /\ l.room = m.room /\ l.imports = m.imports
    BY <1>1, <1>2, <1>4, ScriptsApplied
  <2>3. k # Failed /\ l # Failed
    BY <2>1, <2>2 DEF FileAssumption
  <2>4. Edited(i) = AddImport(k) /\ Edited(m) = AddImport(l)
    BY <2>3 DEF Edited
  <2> HIDE DEF k, l
  <2>5. l.sections = k.sections /\ l.bytes = k.bytes /\ l.imports = k.imports /\ l.room = k.room
    BY <1>1, <1>2, <2>1, <2>2
  <2>6. ~HasSection(k, Tag) /\ ~HasSection(l, Tag)
    BY <2>1, <2>5 DEF AlreadyPatched, HasSection
  <2>7. ~Importable(k)
    <3>1. Importable(k) => AddImport(k) \in Images
      BY <2>1, <2>6, ImportAdded
    <3>2. QED
      BY <2>4, <3>1 DEF FileAssumption
  <2>8. ~Importable(l)
    BY ONLY <2>5, <2>7, LargeKeepsLayout
  <2>9. AddImport(l) = Failed
    BY <2>2, <2>6, <2>8, ImportAdded
  <2>10. QED
    BY <2>4, <2>9 DEF m
<1>5. QED
  BY <1>3, <1>4

Stocks == {Stock(b) : b \in Builds}

LEMMA EarlierKnown ==
    ASSUME FileAssumption, AlignmentAssumption, NEW b \in Builds, EarlierPatch(b) # Failed
    PROVE  /\ EarlierPatch(b) \in Images /\ AlreadyPatched(EarlierPatch(b)) /\ EarlierPatch(b).build = b
           /\ EarlierPatch(b) \in Executables
<1>1. Stock(b) \in Images /\ Stock(b).build = b /\ ~HasSection(Stock(b), Tag)
  BY StockImages DEF AlreadyPatched
<1> DEFINE e == AddImport(Stock(b))
<1>2. e # Failed
  BY DEF EarlierPatch
<1>3. e \in Images /\ HasSection(e, Tag) /\ e.build = b
  BY <1>1, <1>2, ImportAdded
<1>4. EarlierPatch(b) \in Executables
  BY DEF Executables
<1>5. QED
  BY <1>3, <1>4 DEF EarlierPatch, AlreadyPatched

LEMMA ExecutablesKnown ==
    ASSUME FileAssumption, AlignmentAssumption
    PROVE  /\ Executables \subseteq Images /\ Stocks \subseteq Executables
           /\ \A x \in Executables : LargeSet(x) \in Executables
           /\ \A x \in Stocks : Edited(x) # Failed => LargeSet(Edited(x)) \in Executables
           /\ {Absent, Torn, Failed} \cap Executables = {}
<1> DEFINE patched == {Edited(x) : x \in Stocks} \cup {EarlierPatch(b) : b \in Builds}
           either == Stocks \cup (patched \ {Failed})
<1>1. Executables = either \cup {LargeSet(x) : x \in either}
  BY DEF Executables, Stocks
<1>2. Stocks \subseteq Images
  BY StockImages DEF Stocks
<1>3. \A x \in Stocks : Edited(x) # Failed => Edited(x) \in Images
  BY StockImages, EditedKnown DEF Stocks
<1>4. \A b \in Builds : EarlierPatch(b) # Failed => EarlierPatch(b) \in Images
  BY EarlierKnown
<1>5. patched \ {Failed} \subseteq Images
  BY <1>3, <1>4
<1>6. either \subseteq Images
  BY <1>2, <1>5
<1>7. \A x \in Stocks : Edited(x) # Failed => Edited(x) \in either
  OBVIOUS
<1>8. Stocks \subseteq either
  OBVIOUS
<1> HIDE DEF either
<1>9. \A x \in Images : LargeSet(x) \in Images /\ LargeSet(LargeSet(x)) = LargeSet(x)
  BY LargeIsSet, LargeStays
<1>10. Executables \subseteq Images
  BY <1>1, <1>6, <1>9
<1>11. \A x \in Executables : LargeSet(x) \in Executables
  <2>1. ASSUME NEW x \in Executables PROVE LargeSet(x) \in Executables
    <3>1. CASE x \in either
      BY <1>1, <3>1
    <3>2. CASE x \notin either
      <4>1. PICK y \in either : x = LargeSet(y)
        BY <1>1, <3>2
      <4>2. LargeSet(x) = x
        BY <1>6, <1>9, <4>1
      <4>3. QED
        BY <4>2
    <3>3. QED
      BY <3>1, <3>2
  <2>2. QED
    BY <2>1
<1>12. {Absent, Torn, Failed} \cap Executables = {}
  BY <1>10 DEF FileAssumption
<1>13. QED
  BY <1>1, <1>7, <1>8, <1>10, <1>11, <1>12

LEMMA UnpatchedEdited ==
    ASSUME FileAssumption, AlignmentAssumption, NEW x \in Stocks, Edited(LargeSet(x)) # Failed
    PROVE  /\ Edited(LargeSet(x)) \in Executables /\ Edited(LargeSet(x)).large = TRUE
           /\ AlreadyPatched(Edited(LargeSet(x))) /\ Edited(LargeSet(x)).build = x.build
<1>1. x \in Images /\ ~AlreadyPatched(x)
  BY StockImages DEF Stocks
<1>2. LargeSet(x) \in Images /\ LargeSet(x).large = TRUE /\ LargeSet(x).build = x.build /\ ~AlreadyPatched(LargeSet(x))
  BY <1>1, LargeIsSet DEF AlreadyPatched, HasSection
<1> DEFINE m == LargeSet(x)
<1> HIDE DEF m
<1>3. Edited(m) \in Images /\ AlreadyPatched(Edited(m)) /\ Edited(m).build = m.build /\ Edited(m).large = m.large
  BY <1>2, EditedKnown DEF m
<1>4. Edited(x) # Failed
  <2>1. SUFFICES ASSUME Edited(x) = Failed PROVE FALSE
    OBVIOUS
  <2>2. QED
    BY <1>1, <1>2, <2>1, FailsAlike
<1>5. Edited(m) = LargeSet(Edited(x)) /\ LargeSet(Edited(x)) \in Executables
  BY <1>1, <1>4, EditedKnown, ExecutablesKnown DEF m
<1>6. QED
  BY <1>2, <1>3, <1>5 DEF m

(* Target and backup are of one build, which holds until an update.        *)
OneBuild(t, b) ==
    \E build \in Builds :
        /\ t \in Executables => t.build = build
        /\ b \in Executables => b = Stock(build)

(* What a run finds in the files and in memory at each of its places.      *)
PatchInv ==
    /\ PatcherTypeOK /\ "target" \notin unflushed
    /\ target \in Executables /\ ~AlreadyPatched(target) => target \in Stocks
    /\ backup \in Executables => backup \in Stocks
    /\ pc = "edit" => target \in Executables /\ pe = LargeSet(target)
    /\ pc \in {"backup", "copy"} =>
          target \in Executables /\ ~AlreadyPatched(target) /\ pe = Edited(LargeSet(target))
    /\ pc \in {"open", "write", "move"} =>
          /\ target \in Executables /\ Whole(target, pe)
          /\ ~AlreadyPatched(target) => backup # Absent
    /\ pc = "move" => tmp = pe /\ "tmp" \notin unflushed
    /\ updates = 0 => OneBuild(target, backup)

LEMMA StocksKnown ==
    ASSUME FileAssumption, AlignmentAssumption
    PROVE  /\ Absent \notin Executables /\ Torn \notin Executables /\ Failed \notin Executables
           /\ Stocks \subseteq Executables
           /\ \A x \in Stocks : ~AlreadyPatched(x) /\ x = Stock(x.build) /\ x.build \in Builds
           /\ \A x \in Executables : x.build \in Builds
<1>1. \A x \in Stocks : ~AlreadyPatched(x) /\ x = Stock(x.build) /\ x.build \in Builds
  BY StockImages DEF Stocks
<1>2. \A x \in Images : x.build \in Builds
  BY DEF Images
<1>3. QED
  BY <1>1, <1>2, ExecutablesKnown

LEMMA PatcherInitInv ==
    ASSUME FileAssumption, AlignmentAssumption, PatcherAssumption, PatcherInit
    PROVE  PatchInv
<1>1. target \in Stocks \/ \E b \in Builds : target = EarlierPatch(b) /\ EarlierPatch(b) # Failed
  BY DEF PatcherInit, Stocks
<1>2. target \in Executables /\ target.build \in Builds /\ (~AlreadyPatched(target) => target \in Stocks)
  BY <1>1, EarlierKnown, StocksKnown
<1>3. backup = IF AlreadyPatched(target) THEN Stock(target.build) ELSE Absent
  BY DEF PatcherInit
<1>4. backup \in Stocks \cup {Absent} /\ (backup \in Executables => backup = Stock(target.build))
  BY <1>2, <1>3, StocksKnown DEF Stocks
<1>5. PatcherTypeOK
  BY <1>2, <1>4, StocksKnown DEF PatcherInit, PatcherTypeOK, PatcherAssumption
<1>6. OneBuild(target, backup)
  BY <1>2, <1>4 DEF OneBuild
<1>7. QED
  BY <1>2, <1>4, <1>5, <1>6, StocksKnown DEF PatcherInit, PatchInv

LEMMA StartStep ==
    ASSUME FileAssumption, AlignmentAssumption, PatcherAssumption, PatchInv, Start
    PROVE  PatchInv'
<1>1. UNCHANGED <<target, backup, tmp, unflushed, changes, updates>> /\ runs' = runs + 1 /\ pc = "off" /\ runs < MaxRuns
  BY DEF Start, files
<1>2. runs' \in 0 .. MaxRuns
  BY <1>1 DEF PatchInv, PatcherTypeOK, PatcherAssumption
<1>3. CASE target \in Executables /\ pe' = LargeSet(target) /\ pc' = "edit" /\ result' = "running"
  <2>1. pe' \in Executables /\ pe'.large = TRUE
    BY <1>3, ExecutablesKnown, LargeIsSet
  <2>2. PatcherTypeOK'
    BY <1>1, <1>2, <1>3, <2>1 DEF PatchInv, PatcherTypeOK
  <2>3. QED
    BY <1>1, <1>3, <2>2 DEF PatchInv
<1>4. CASE pc' = "off" /\ result' = "failed" /\ UNCHANGED pe
  <2>1. PatcherTypeOK'
    BY <1>1, <1>2, <1>4 DEF PatchInv, PatcherTypeOK
  <2>2. QED
    BY <1>1, <1>4, <2>1 DEF PatchInv
<1>5. QED
  BY <1>3, <1>4 DEF Start

LEMMA EditStep ==
    ASSUME FileAssumption, AlignmentAssumption, PatchInv, Edit
    PROVE  PatchInv'
<1>1. pc = "edit" /\ UNCHANGED <<target, backup, tmp, unflushed, runs, changes, updates>>
  BY DEF Edit, files, counters, Goto, Exit
<1>2. target \in Executables /\ pe = LargeSet(target) /\ target \in Images
  BY <1>1, ExecutablesKnown DEF PatchInv
<1>3. AlreadyPatched(pe) <=> AlreadyPatched(target)
  BY <1>2, LargeIsSet DEF AlreadyPatched, HasSection
<1>4. CASE AlreadyPatched(pe) /\ pc' = "open" /\ UNCHANGED <<pe, result>>
  <2>1. PatcherTypeOK'
    BY <1>1, <1>4 DEF PatchInv, PatcherTypeOK
  <2>2. Whole(target, pe)
    BY <1>2, <1>3, <1>4 DEF Whole
  <2>3. QED
    BY <1>1, <1>2, <1>3, <1>4, <2>1, <2>2 DEF PatchInv, Whole
<1>5. CASE ~AlreadyPatched(pe) /\ Edited(pe) # Failed /\ pe' = Edited(pe) /\ pc' = "backup" /\ UNCHANGED result
  <2>1. target \in Stocks
    BY <1>2, <1>3, <1>5 DEF PatchInv
  <2>2. pe' \in Executables /\ pe'.large = TRUE /\ AlreadyPatched(pe')
    BY <1>2, <1>5, <2>1, UnpatchedEdited
  <2>3. PatcherTypeOK'
    BY <1>1, <1>5, <2>2 DEF PatchInv, PatcherTypeOK
  <2>4. QED
    BY <1>1, <1>2, <1>3, <1>5, <2>3 DEF PatchInv
<1>6. CASE pc' = "off" /\ result' = "failed" /\ UNCHANGED pe
  <2>1. PatcherTypeOK'
    BY <1>1, <1>6 DEF PatchInv, PatcherTypeOK
  <2>2. QED
    BY <1>1, <1>6, <2>1 DEF PatchInv
<1>7. QED
  BY <1>4, <1>5, <1>6 DEF Edit, Goto, Exit

LEMMA BackupStep ==
    ASSUME FileAssumption, AlignmentAssumption, PatchInv, StartBackup \/ FinishBackup
    PROVE  PatchInv'
<1>1. pc \in {"backup", "copy"} /\ UNCHANGED <<target, tmp, pe, runs, changes, updates>>
  BY DEF StartBackup, FinishBackup, Goto, Exit, counters
<1>2. target \in Executables /\ ~AlreadyPatched(target) /\ pe = Edited(LargeSet(target)) /\ target \in Stocks
  BY <1>1 DEF PatchInv
<1>3. Whole(target, pe)
  BY <1>2 DEF Whole
<1>4. CASE StartBackup /\ NeedsBackup
  <2>1. pc' = "copy" /\ backup' = Torn /\ unflushed' = unflushed \cup {"backup"} /\ UNCHANGED result
    BY <1>4 DEF StartBackup, Goto
  <2>2. PatcherTypeOK'
    BY <1>1, <2>1 DEF PatchInv, PatcherTypeOK
  <2>3. updates' = 0 => OneBuild(target', backup')
    BY <1>1, <2>1, StocksKnown DEF PatchInv, OneBuild
  <2>4. QED
    BY <1>1, <1>2, <2>1, <2>2, <2>3, StocksKnown DEF PatchInv
<1>5. CASE StartBackup /\ ~NeedsBackup
  <2>1. pc' = "open" /\ UNCHANGED <<backup, unflushed, result>> /\ backup # Absent
    BY <1>5 DEF StartBackup, Goto, NeedsBackup
  <2>2. PatcherTypeOK'
    BY <1>1, <2>1 DEF PatchInv, PatcherTypeOK
  <2>3. QED
    BY <1>1, <1>2, <1>3, <2>1, <2>2 DEF PatchInv
<1>6. CASE FinishBackup /\ backup' = target /\ Goto("open")
  <2>1. pc' = "open" /\ UNCHANGED <<unflushed, result>>
    BY <1>6 DEF FinishBackup, Goto
  <2>2. PatcherTypeOK'
    BY <1>1, <1>2, <1>6, <2>1 DEF PatchInv, PatcherTypeOK
  <2>3. backup' # Absent
    BY <1>2, <1>6, StocksKnown
  <2>4. updates' = 0 => OneBuild(target', backup')
    BY <1>1, <1>2, <1>6, StocksKnown DEF OneBuild
  <2>5. QED
    BY <1>1, <1>2, <1>3, <1>6, <2>1, <2>2, <2>3, <2>4 DEF PatchInv
<1>7. CASE FinishBackup /\ backup' = Absent /\ Exit("failed")
  <2>1. pc' = "off" /\ result' = "failed" /\ UNCHANGED unflushed
    BY <1>7 DEF FinishBackup, Exit
  <2>2. PatcherTypeOK'
    BY <1>1, <1>7, <2>1 DEF PatchInv, PatcherTypeOK
  <2>3. updates' = 0 => OneBuild(target', backup')
    BY <1>1, <1>7, StocksKnown DEF PatchInv, OneBuild
  <2>4. QED
    BY <1>1, <1>2, <1>7, <2>1, <2>2, <2>3, StocksKnown DEF PatchInv
<1>8. QED
  BY <1>4, <1>5, <1>6, <1>7 DEF FinishBackup

LEMMA WriteAllStep ==
    ASSUME FileAssumption, AlignmentAssumption, PatchInv, OpenTmp \/ WriteTmp
    PROVE  PatchInv'
<1>1. pc \in {"open", "write"} /\ UNCHANGED <<target, backup, pe, runs, changes, updates>>
  BY DEF OpenTmp, WriteTmp, OpenSibling, Goto, Exit, counters
<1>2. /\ tmp' \in {tmp, Torn, Absent, pe} /\ unflushed' \subseteq unflushed \cup {"tmp"}
      /\ pc' \in {"write", "move", "off"} /\ result' \in {result, "failed"}
      /\ pc' = "move" => tmp' = pe /\ unflushed' = unflushed \ {"tmp"}
  BY DEF OpenTmp, WriteTmp, OpenSibling, RemoveTmp, Commit, Goto, Exit
<1>3. target \in Executables /\ Whole(target, pe) /\ (~AlreadyPatched(target) => backup # Absent) /\ pe \in Executables
  BY <1>1 DEF PatchInv, PatcherTypeOK
<1>4. PatcherTypeOK'
  <2>1. {target', backup', tmp'} \subseteq Executables \cup {Absent, Torn}
    BY <1>1, <1>2, <1>3 DEF PatchInv, PatcherTypeOK
  <2>2. QED
    BY <1>1, <1>2, <2>1 DEF PatchInv, PatcherTypeOK
<1>5. QED
  BY <1>1, <1>2, <1>3, <1>4 DEF PatchInv

LEMMA MoveStep ==
    ASSUME FileAssumption, AlignmentAssumption, PatchInv, MoveTmp
    PROVE  /\ PatchInv'
           /\ target' # target => target \in Executables /\ Whole(target, target')
<1>1. /\ pc = "move" /\ pc' = "off" /\ tmp' = Absent /\ UNCHANGED <<backup, pe, runs, changes, updates>>
      /\ target' \in {target, tmp} /\ result' \in {"done", "failed"}
      /\ unflushed' = (unflushed \ {"tmp"}) \cup {f \in {"target"} : "tmp" \in unflushed} \/ unflushed' = unflushed \ {"tmp"}
  BY DEF MoveTmp, Exit, counters
<1>2. /\ target \in Executables /\ Whole(target, pe) /\ tmp = pe /\ "tmp" \notin unflushed
      /\ pe \in Executables /\ AlreadyPatched(pe) /\ "target" \notin unflushed /\ unflushed \subseteq {"target", "backup", "tmp"}
  BY <1>1 DEF PatchInv, PatcherTypeOK
<1>3. unflushed' \subseteq unflushed
  BY <1>1, <1>2
<1>4. PatcherTypeOK'
  <2>1. {target', backup', tmp'} \subseteq Executables \cup {Absent, Torn}
    BY <1>1, <1>2 DEF PatchInv, PatcherTypeOK
  <2>2. QED
    BY <1>1, <1>3, <2>1 DEF PatchInv, PatcherTypeOK
<1>5. pe.build = target.build
  <2>1. target \in Images
    BY <1>2, ExecutablesKnown
  <2>2. CASE AlreadyPatched(target)
    BY <1>2, <2>1, <2>2, LargeIsSet DEF Whole
  <2>3. CASE ~AlreadyPatched(target)
    <3>1. target \in Stocks /\ pe = Edited(LargeSet(target)) /\ pe # Failed
      BY <1>2, <2>3, StocksKnown DEF Whole, PatchInv
    <3>2. QED
      BY <3>1, UnpatchedEdited
  <2>4. QED
    BY <2>2, <2>3
<1>6. updates' = 0 => OneBuild(target', backup')
  BY <1>1, <1>2, <1>5 DEF PatchInv, OneBuild
<1>7. PatchInv'
  BY <1>1, <1>2, <1>3, <1>4, <1>6 DEF PatchInv
<1>8. QED
  BY <1>1, <1>2, <1>7

LEMMA CutOffStep ==
    ASSUME FileAssumption, AlignmentAssumption, PatchInv, Kill \/ PowerLoss
    PROVE  PatchInv' /\ target' = target
<1>1. UNCHANGED <<pe, runs, changes, updates>> /\ pc' = "off" /\ result' = "killed"
  BY DEF Kill, PowerLoss, Exit, counters
<1>2. target' = target
  BY DEF Kill, PowerLoss, AfterLoss, PatchInv
<1>3. unflushed' \subseteq unflushed /\ tmp' \in {tmp, Torn} /\ backup' \in {backup, Absent, Torn}
  BY DEF Kill, PowerLoss, AfterLoss
<1>4. PatcherTypeOK'
  BY <1>1, <1>2, <1>3 DEF PatchInv, PatcherTypeOK
<1>5. updates' = 0 => OneBuild(target', backup')
  BY <1>1, <1>2, <1>3, StocksKnown DEF PatchInv, OneBuild
<1>6. QED
  BY <1>1, <1>2, <1>3, <1>4, <1>5, StocksKnown DEF PatchInv

LEMMA UserStep ==
    ASSUME FileAssumption, AlignmentAssumption, PatcherAssumption, PatchInv, User
    PROVE  PatchInv' /\ <<changes, updates>>' # <<changes, updates>>
<1>0. changes \in Nat /\ updates \in Nat /\ MaxChanges \in Nat /\ MaxUpdates \in Nat
  BY DEF PatchInv, PatcherTypeOK, PatcherAssumption
<1>1. ASSUME Restore \/ DeleteBackup PROVE PatchInv' /\ <<changes, updates>>' # <<changes, updates>>
  <2>1. /\ pc = "off" /\ changes < MaxChanges /\ changes' = changes + 1 /\ unflushed' \subseteq unflushed
        /\ UNCHANGED <<tmp, pc, pe, result, runs, updates>>
        /\ target' \in {target, backup} /\ backup' \in {backup, Absent}
    BY <1>1 DEF Restore, DeleteBackup
  <2>2. changes' \in 0 .. MaxChanges /\ changes' # changes
    BY <1>0, <2>1
  <2>3. PatcherTypeOK'
    BY <2>1, <2>2 DEF PatchInv, PatcherTypeOK
  <2>4. updates' = 0 => OneBuild(target', backup')
    BY <2>1, StocksKnown, StockImages DEF PatchInv, OneBuild
  <2>5. QED
    BY <2>1, <2>2, <2>3, <2>4, StocksKnown DEF PatchInv
<1>2. ASSUME NEW build \in Builds, Update(build) PROVE PatchInv' /\ <<changes, updates>>' # <<changes, updates>>
  <2>1. /\ pc = "off" /\ updates < MaxUpdates /\ updates' = updates + 1 /\ target' = Stock(build)
        /\ UNCHANGED <<backup, tmp, unflushed, pc, pe, result, runs, changes>>
    BY <1>2 DEF Update
  <2>2. updates' \in 0 .. MaxUpdates /\ updates' # updates /\ updates' # 0
    BY <1>0, <2>1
  <2>3. target' \in Stocks
    BY <2>1 DEF Stocks
  <2>4. PatcherTypeOK'
    BY <2>1, <2>2, <2>3, StocksKnown DEF PatchInv, PatcherTypeOK
  <2>5. QED
    BY <2>1, <2>2, <2>3, <2>4, StocksKnown DEF PatchInv
<1>3. QED
  BY <1>1, <1>2 DEF User

LEMMA PatcherStep ==
    ASSUME FileAssumption, AlignmentAssumption, PatcherAssumption, PatchInv, [PatcherNext]_patcherVars
    PROVE  /\ PatchInv'
           /\ target' # target =>
                \/ <<changes, updates>>' # <<changes, updates>>
                \/ target \in Executables /\ Whole(target, target')
<1>1. ASSUME Start PROVE PatchInv' /\ target' = target
  BY <1>1, StartStep DEF Start, files
<1>2. ASSUME Edit PROVE PatchInv' /\ target' = target
  BY <1>2, EditStep DEF Edit, files
<1>3. ASSUME StartBackup \/ FinishBackup PROVE PatchInv' /\ target' = target
  BY <1>3, BackupStep DEF StartBackup, FinishBackup
<1>4. ASSUME OpenTmp \/ WriteTmp PROVE PatchInv' /\ target' = target
  BY <1>4, WriteAllStep DEF OpenTmp, OpenSibling, WriteTmp
<1>5. ASSUME UNCHANGED patcherVars PROVE PatchInv' /\ target' = target
  <2>1. UNCHANGED <<target, backup, tmp, unflushed, pc, pe, result, runs, changes, updates>>
    BY <1>5 DEF patcherVars, files, counters
  <2>2. PatcherTypeOK'
    BY <2>1 DEF PatchInv, PatcherTypeOK
  <2>3. QED
    BY <2>1, <2>2 DEF PatchInv
<1>6. QED
  BY <1>1, <1>2, <1>3, <1>4, <1>5, MoveStep, CutOffStep, UserStep DEF PatcherNext, Step

(* "The backup is the only recovery path" (Main.cpp:118-119): for every    *)
(* set of builds and edits, and every sequence of runs, failures, kills,   *)
(* power losses, restores and updates, the backup is never a patched       *)
(* image, and nothing patched is about to be swapped over an unpatched     *)
(* target without one.                                                     *)
THEOREM BackupIsWayBackAlways == PatcherSpec => []BackupIsWayBack
<1>1. PatcherInit => PatchInv
  BY FileAssumption, AlignmentAssumption, PatcherAssumption, PatcherInitInv
<1>2. PatchInv /\ [PatcherNext]_patcherVars => PatchInv'
  BY FileAssumption, AlignmentAssumption, PatcherAssumption, PatcherStep
<1>3. PatchInv => BackupIsWayBack
  <2>1. ASSUME PatchInv PROVE backup \in Executables => ~AlreadyPatched(backup)
    BY <2>1, FileAssumption, AlignmentAssumption, StocksKnown DEF PatchInv
  <2>2. ASSUME PatchInv, pc \in {"open", "write", "move"}, target \in Executables, ~AlreadyPatched(target)
        PROVE  backup # Absent /\ (updates = 0 => backup \in {Torn, Stock(target.build)})
    <3>1. backup # Absent /\ backup \in Executables \cup {Absent, Torn}
      BY <2>2 DEF PatchInv, PatcherTypeOK
    <3>2. updates = 0 => OneBuild(target, backup)
      BY <2>2 DEF PatchInv
    <3>3. QED
      BY <2>2, <3>1, <3>2 DEF OneBuild
  <2>3. QED
    BY <2>1, <2>2 DEF BackupIsWayBack, PatchInv
<1>4. QED
  BY <1>1, <1>2, <1>3, PTL DEF PatcherSpec

(* "The target is either fully replaced or untouched" (Main.cpp:56-57):    *)
(* whatever is cut short and wherever, no step but the user's changes the  *)
(* target into anything but the edited image of its own build.             *)
THEOREM TargetReplacedWholeAlways == PatcherSpec => TargetReplacedWhole
<1>1. PatcherInit => PatchInv
  BY FileAssumption, AlignmentAssumption, PatcherAssumption, PatcherInitInv
<1>2. PatchInv /\ [PatcherNext]_patcherVars => PatchInv'
  BY FileAssumption, AlignmentAssumption, PatcherAssumption, PatcherStep
<1>3. PatchInv /\ [PatcherNext]_patcherVars =>
        [target' # target =>
            \/ <<changes, updates>>' # <<changes, updates>>
            \/ target \in Executables /\ Whole(target, target')]_patcherVars
  BY FileAssumption, AlignmentAssumption, PatcherAssumption, PatcherStep
<1>4. QED
  BY <1>1, <1>2, <1>3, PTL DEF PatcherSpec, TargetReplacedWhole

(***************************************************************************)
(* What the patcher makes of an image: the one section more, the moved     *)
(* import descriptors and the units at the addresses of the edits.         *)
(***************************************************************************)

LEMMA SameSequence ==
    ASSUME NEW S, NEW d \in Seq(S), NEW e \in Seq(S), Len(d) = Len(e), \A n \in 1 .. Len(d) : d[n] = e[n]
    PROVE  d = e
  OBVIOUS

LEMMA Aligned ==
    ASSUME NEW v \in Nat, NEW a \in Nat \ {0}
    PROVE  AlignUp(v, a) \in Nat /\ v <= AlignUp(v, a) /\ AlignUp(v, a) % a = 0
<1>1. (v + a - 1) \div a \in Nat
  OBVIOUS
<1>2. v <= ((v + a - 1) \div a) * a
  OBVIOUS
<1>3. \A q \in Nat : (q * a) % a = 0 /\ q * a \in Nat
  OBVIOUS
<1>4. QED
  BY <1>1, <1>2, <1>3 DEF AlignUp

LEMMA PaddedKeeps ==
    ASSUME NEW S, NEW s \in Seq(S), NEW n \in Nat, Len(s) <= n
    PROVE  /\ Len(Padded(s, n)) = n
           /\ \A k \in 1 .. Len(s) : Padded(s, n)[k] = s[k]
<1> DEFINE pad == [k \in 1 .. n - Len(s) |-> Zero]
<1>1. PICK l \in Nat : l = Len(s)
  OBVIOUS
<1>2. n - l \in Nat
  BY <1>1
<1>3. pad \in Seq({Zero}) /\ Len(pad) = n - l
  BY <1>1, <1>2
<1> HIDE DEF pad
<1>4. s \in Seq(S \cup {Zero}) /\ pad \in Seq(S \cup {Zero})
  BY <1>3
<1>5. /\ Len(s \o pad) = Len(s) + Len(pad)
      /\ \A k \in 1 .. Len(s) + Len(pad) : (s \o pad)[k] = IF k <= Len(s) THEN s[k] ELSE pad[k - Len(s)]
  BY ONLY <1>4, ConcatProperties
<1>6. Padded(s, n) = s \o pad
  BY DEF Padded, pad
<1>7. QED
  BY ONLY <1>1, <1>2, <1>3, <1>5, <1>6

(* The descriptors at an offset are all units before the first zero one.   *)
Lists(d, bytes, offset) ==
    /\ offset + Len(d) <= Len(bytes)
    /\ \A n \in 1 .. Len(d) : d[n] = bytes[offset + n] /\ d[n] # Zero
    /\ offset + Len(d) < Len(bytes) => bytes[offset + Len(d) + 1] = Zero

LEMMA DescriptorsList ==
    ASSUME NEW i \in Images, NEW offset \in Nat, offset <= Len(i.bytes)
    PROVE  Descriptors(i, offset) \in Seq(Units) /\ Lists(Descriptors(i, offset), i.bytes, offset)
<1> DEFINE ends == {n \in offset + 1 .. Len(i.bytes) : i.bytes[n] = Zero} \cup {Len(i.bytes) + 1}
           end == CHOOSE n \in ends : \A m \in ends : n <= m
           d == Descriptors(i, offset)
<1>1. i.bytes \in Seq(Units) /\ Len(i.bytes) \in Nat
  BY DEF Images
<1>2. ends \subseteq Nat /\ ends # {}
  BY <1>1
<1>3. \E n \in ends : \A m \in ends : n <= m
  BY ONLY <1>2, LeastExists
<1>4. end \in ends /\ \A m \in ends : end <= m
  BY <1>3
<1>5. d = SubSeq(i.bytes, offset + 1, end - 1)
  BY DEF Descriptors
<1> HIDE DEF end, d
<1>6. end \in offset + 1 .. Len(i.bytes) + 1
  BY <1>1, <1>4
<1>7. \A n \in offset + 1 .. end - 1 : i.bytes[n] # Zero
  <2>1. ASSUME NEW n \in offset + 1 .. end - 1, i.bytes[n] = Zero PROVE FALSE
    <3>1. n \in ends
      BY <1>1, <1>6, <2>1
    <3>2. end <= n
      BY <1>4, <3>1
    <3>3. QED
      BY <1>6, <3>2
  <2>2. QED
    BY <2>1
<1>8. end <= Len(i.bytes) => i.bytes[end] = Zero
  BY <1>1, <1>4
<1> HIDE DEF ends
<1>9. PICK e \in Nat : e = end
  BY <1>1, <1>6
<1>10. PICK l \in Nat : l = Len(i.bytes)
  BY <1>1
<1>11. /\ d \in Seq(Units) /\ Len(d) = e - 1 - offset
       /\ \A n \in 1 .. e - 1 - offset : d[n] = i.bytes[offset + n]
  BY ONLY <1>1, <1>5, <1>6, <1>9, <1>10, offset \in Nat
<1>12. e \in offset + 1 .. l + 1
  BY ONLY <1>1, <1>6, <1>9, <1>10
<1>13. Lists(d, i.bytes, offset)
  <2>1. offset + Len(d) = e - 1 /\ offset + Len(d) + 1 = e
    BY ONLY <1>11, <1>12, offset \in Nat, <1>9, <1>10
  <2>2. ASSUME NEW n \in 1 .. Len(d) PROVE d[n] = i.bytes[offset + n] /\ d[n] # Zero
    <3>1. offset + n \in offset + 1 .. end - 1 /\ d[n] = i.bytes[offset + n]
      BY ONLY <1>9, <1>11, <1>12, <2>2, offset \in Nat, <1>10
    <3>2. QED
      BY <1>7, <3>1
  <2>3. QED
    BY <1>8, <1>9, <1>10, <1>12, <2>1, <2>2 DEF Lists
<1>14. QED
  BY <1>11, <1>13 DEF d

LEMMA OneList ==
    ASSUME NEW S, NEW d \in Seq(S), NEW e \in Seq(S), NEW bytes, Len(bytes) \in Nat, NEW offset \in Nat,
           Lists(d, bytes, offset), Lists(e, bytes, offset)
    PROVE  d = e
<1> DEFINE l == Len(d)
           m == Len(e)
<1>1. l \in Nat /\ m \in Nat
  OBVIOUS
<1>2. /\ \A n \in 1 .. l : d[n] = bytes[offset + n] /\ d[n] # Zero
      /\ \A n \in 1 .. m : e[n] = bytes[offset + n] /\ e[n] # Zero
      /\ offset + l <= Len(bytes) /\ offset + m <= Len(bytes)
      /\ offset + l < Len(bytes) => bytes[offset + l + 1] = Zero
      /\ offset + m < Len(bytes) => bytes[offset + m + 1] = Zero
  BY DEF Lists
<1> HIDE DEF l, m
<1>3. ~(l < m)
  <2>1. SUFFICES ASSUME l < m PROVE FALSE
    OBVIOUS
  <2>2. l + 1 \in 1 .. m /\ offset + l < Len(bytes) /\ offset + (l + 1) = offset + l + 1
    BY <1>1, <1>2, <2>1
  <2>3. e[l + 1] = bytes[offset + l + 1] /\ e[l + 1] # Zero
    BY <1>2, <2>2
  <2>4. QED
    BY <1>2, <2>2, <2>3
<1>4. ~(m < l)
  <2>1. SUFFICES ASSUME m < l PROVE FALSE
    OBVIOUS
  <2>2. m + 1 \in 1 .. l /\ offset + m < Len(bytes) /\ offset + (m + 1) = offset + m + 1
    BY <1>1, <1>2, <2>1
  <2>3. d[m + 1] = bytes[offset + m + 1] /\ d[m + 1] # Zero
    BY <1>2, <2>2
  <2>4. QED
    BY <1>2, <2>2, <2>3
<1>5. l = m
  BY <1>1, <1>3, <1>4
<1>6. \A n \in 1 .. l : d[n] = e[n]
  BY <1>2, <1>5
<1>7. QED
  BY <1>5, <1>6, SameSequence DEF l, m

(* The layout of a client's build.                                         *)
LEMMA StockLaidOut ==
    ASSUME FileAssumption, AlignmentAssumption, LayoutAssumption,
           NEW b \in Builds, Stock(b).sections # << >>
    PROVE  LET i == Stock(b)
               s == i.sections
           IN  /\ s \in Seq(Headers) /\ Len(i.bytes) \in Nat /\ SectionVa(i) \in Nat
               /\ SectionVa(i) % SectionAlignment = 0
               /\ i.top \in Nat /\ i.top <= SectionVa(i)
               /\ \A g \in DOMAIN s :
                    /\ s[g] \in Headers
                    /\ s[g].va + s[g].vsize <= SectionVa(i) /\ s[g].va + s[g].rsize <= SectionVa(i)
                    /\ s[g].raw + s[g].rsize <= Len(i.bytes) /\ s[g].va + s[g].vsize <= i.top
                    /\ s[g].raw % FileAlignment = 0 /\ s[g].va % SectionAlignment = 0
               /\ \A g, h \in DOMAIN s : g < h =>
                    /\ s[g].va + s[g].vsize <= s[h].va /\ s[g].va + s[g].rsize <= s[h].va
                    /\ s[g].raw + s[g].rsize <= s[h].raw
<1> DEFINE i == Stock(b)
           s == i.sections
           last == s[Len(s)]
<1>1. i \in Images /\ i = StockOf[b]
  BY StockImages DEF Stock
<1>2. s \in Seq(Headers) /\ i.bytes \in Seq(Units) /\ i.top \in Nat
  BY <1>1 DEF Images
<1>3. SectionsApart(i)
  BY <1>1 DEF FileAssumption
<1>4. /\ \A g, h \in DOMAIN s : g < h => s[g].va + s[g].rsize <= s[h].va
      /\ i.top <= SectionVa(i) /\ \A g \in DOMAIN s : s[g].va + s[g].rsize <= SectionVa(i)
  BY <1>1 DEF LayoutAssumption
<1> HIDE DEF i
<1>5. Len(s) \in DOMAIN s /\ Last(s) = last
  BY <1>2 DEF Last, i
<1>6. \A g \in DOMAIN s : s[g] \in Headers /\ s[g].va \in Nat /\ s[g].vsize \in Nat /\ g \in 1 .. Len(s)
  <2> HIDE DEF s
  <2>1. \A g \in DOMAIN s : s[g] \in Headers /\ g \in 1 .. Len(s)
    BY <1>2, ElementOf
  <2>2. QED
    BY <2>1 DEF Headers
<1>7. last.va + last.vsize \in Nat
  BY <1>5, <1>6
<1>8. SectionVa(i) = AlignUp(last.va + last.vsize, SectionAlignment)
  BY <1>5 DEF SectionVa
<1>8a. PICK v \in Nat : v = last.va + last.vsize
  BY <1>7
<1>9. SectionVa(i) \in Nat /\ last.va + last.vsize <= SectionVa(i) /\ SectionVa(i) % SectionAlignment = 0
  <2>1. SectionVa(i) = AlignUp(v, SectionAlignment) /\ SectionAlignment \in Nat \ {0}
    BY <1>8, <1>8a DEF AlignmentAssumption
  <2>2. /\ AlignUp(v, SectionAlignment) \in Nat /\ v <= AlignUp(v, SectionAlignment)
        /\ AlignUp(v, SectionAlignment) % SectionAlignment = 0
    BY ONLY <2>1, v \in Nat, Aligned
  <2>3. QED
    BY ONLY <1>8a, <2>1, <2>2
<1>10. \A g \in DOMAIN s : s[g].va + s[g].vsize <= SectionVa(i)
  <2>1. ASSUME NEW g \in DOMAIN s, g # Len(s) PROVE s[g].va + s[g].vsize <= SectionVa(i)
    <3>1. g < Len(s)
      BY <1>2, <2>1
    <3>2. s[g].va + s[g].vsize <= last.va
      BY <1>3, <1>5, <2>1, <3>1 DEF SectionsApart
    <3>3. last.va \in Nat /\ last.vsize \in Nat /\ s[g].va \in Nat /\ s[g].vsize \in Nat
      BY <1>5, <1>6, <2>1
    <3> HIDE DEF last, s
    <3>4. QED
      BY <1>9, <3>2, <3>3
  <2>2. QED
    BY <1>9, <2>1
<1>11. QED
  BY <1>2, <1>3, <1>4, <1>6, <1>9, <1>10 DEF SectionsApart, i

(* An image p is a build i with other bytes, grown by a section.           *)
Grown(p, k) ==
    /\ p \in Images /\ k \in Images /\ Importable(k) /\ k.sections # << >>
    /\ p.sections = Append(k.sections, ImportSection(k)) /\ p.imports = SectionVa(k)
    /\ p.top = AlignUp(ImportSection(k).va + ImportSection(k).vsize, SectionAlignment)
    /\ p.bytes = ImportBytes(k)

LEMMA GrownBytes ==
    ASSUME FileAssumption, AlignmentAssumption, NEW p, NEW k, Grown(p, k)
    PROVE  LET raw == SectionRaw(k)
               size == ImportSection(k).rsize
           IN  /\ raw \in Nat /\ size \in Nat /\ Len(k.bytes) <= raw /\ raw % FileAlignment = 0
               /\ Len(Blob(k)) <= size /\ Len(p.bytes) = raw + size
               /\ \A n \in 1 .. Len(k.bytes) : p.bytes[n] = k.bytes[n]
               /\ \A n \in 1 .. Len(Blob(k)) : p.bytes[raw + n] = Blob(k)[n]
<1> DEFINE raw == SectionRaw(k)
           blob == Blob(k)
           size == AlignUp(Len(blob), FileAlignment)
           front == Padded(k.bytes, raw)
<1>1. k.bytes \in Seq(Units) /\ Len(k.bytes) \in Nat /\ blob \in Seq(Units) /\ Len(blob) \in Nat
  <2>1. k \in Images
    BY DEF Grown
  <2>2. k.bytes \in Seq(Units) /\ blob \in Seq(Units)
    BY <2>1, BlobUnits DEF Images
  <2> HIDE DEF blob
  <2>3. QED
    BY <2>2
<1>2. raw \in Nat /\ Len(k.bytes) <= raw /\ raw % FileAlignment = 0
  BY <1>1, Aligned DEF SectionRaw, AlignmentAssumption
<1>3. size \in Nat /\ Len(blob) <= size
  BY <1>1, Aligned DEF AlignmentAssumption
<1>4. ImportSection(k).rsize = size
  BY DEF ImportSection
<1>5. p.bytes = Padded(front \o blob, raw + size)
  BY DEF Grown, ImportBytes
<1> HIDE DEF raw, size, blob
<1>6. front \in Seq(Units) /\ Len(front) = raw /\ \A n \in 1 .. Len(k.bytes) : front[n] = k.bytes[n]
  BY ONLY <1>1, <1>2, PaddedUnits, PaddedKeeps, raw \in Int
<1> HIDE DEF front
<1> DEFINE both == front \o blob
<1>7. /\ both \in Seq(Units) /\ Len(both) = raw + Len(blob)
      /\ \A n \in 1 .. raw : both[n] = front[n]
      /\ \A n \in 1 .. Len(blob) : both[raw + n] = blob[n]
  <2>1. /\ both \in Seq(Units) /\ Len(both) = Len(front) + Len(blob)
        /\ \A n \in 1 .. Len(front) + Len(blob) :
                both[n] = IF n <= Len(front) THEN front[n] ELSE blob[n - Len(front)]
    BY ONLY <1>1, <1>6, ConcatProperties
  <2> HIDE DEF both
  <2>2. PICK l \in Nat : l = Len(blob)
    BY <1>1
  <2>3. \A n \in 1 .. l : both[raw + n] = blob[n]
    <3>1. ASSUME NEW n \in 1 .. l PROVE both[raw + n] = blob[n]
      <4>1. raw + n \in 1 .. raw + l /\ ~(raw + n <= raw) /\ raw + n - raw = n
        BY ONLY <1>2, <2>2, <3>1
      <4>2. raw + n \in 1 .. Len(front) + Len(blob) /\ ~(raw + n <= Len(front)) /\ raw + n - Len(front) = n
        BY ONLY <4>1, <1>6, <2>2
      <4>3. PICK m \in Nat : m = raw + n
        BY <1>2
      <4>4. both[m] = blob[m - Len(front)]
        BY ONLY <2>1, <4>2, <4>3
      <4>5. m - Len(front) = n
        BY ONLY <1>2, <1>6, <4>2, <4>3
      <4>6. QED
        BY ONLY <4>3, <4>4, <4>5
    <3>2. QED
      BY <3>1
  <2>4. QED
    BY <1>2, <1>6, <2>1, <2>2, <2>3
<1> HIDE DEF both
<1>8. raw + size \in Nat /\ Len(both) <= raw + size
  BY <1>1, <1>2, <1>3, <1>7
<1>9. /\ Len(Padded(both, raw + size)) = raw + size
      /\ \A n \in 1 .. Len(both) : Padded(both, raw + size)[n] = both[n]
  BY <1>7, <1>8, PaddedKeeps
<1>10. p.bytes = Padded(both, raw + size)
  BY <1>5 DEF both
<1>11. \A n \in 1 .. Len(k.bytes) : n \in 1 .. raw /\ n \in 1 .. Len(both)
  BY <1>1, <1>2, <1>7
<1>12. \A n \in 1 .. Len(blob) : raw + n \in 1 .. Len(both)
  BY <1>1, <1>2, <1>7
<1>13. QED
  BY <1>2, <1>3, <1>4, <1>6, <1>7, <1>9, <1>10, <1>11, <1>12 DEF raw, size, blob

(* p is the build b, with bytes of k, grown by a section.                  *)
GrownFrom(p, k, b) ==
    /\ Grown(p, k) /\ k.sections = Stock(b).sections /\ k.imports = Stock(b).imports
    /\ Len(k.bytes) = Len(Stock(b).bytes)

LEMMA GrownSections ==
    ASSUME FileAssumption, AlignmentAssumption, LayoutAssumption,
           NEW b \in Builds, NEW p, NEW k, GrownFrom(p, k, b)
    PROVE  LET s == Stock(b).sections
               new == ImportSection(k)
           IN  /\ s # << >> /\ Len(s) \in Nat
               /\ DOMAIN p.sections = 1 .. Len(s) + 1 /\ DOMAIN s = 1 .. Len(s)
               /\ \A g \in DOMAIN s : p.sections[g] = s[g]
               /\ p.sections[Len(s) + 1] = new
               /\ new \in Headers /\ new.va = SectionVa(Stock(b)) /\ new.raw = SectionRaw(k)
               /\ new.vsize = Len(Blob(k)) /\ new.rsize \in Nat /\ new.vsize \in Nat
               /\ p.top \in Nat /\ new.va + new.vsize <= p.top
<1> DEFINE s == Stock(b).sections
           new == ImportSection(k)
<1>1. /\ k.sections = s /\ s # << >> /\ k \in Images /\ p.sections = Append(s, new)
      /\ p.top = AlignUp(new.va + new.vsize, SectionAlignment)
  BY DEF GrownFrom, Grown
<1>2. s \in Seq(Headers)
  BY <1>1, StockImages DEF Images
<1>3. new \in Headers
  BY <1>1, SectionFits
<1>4. new.va = SectionVa(Stock(b))
  BY <1>1 DEF ImportSection, SectionVa
<1>5. new.raw = SectionRaw(k) /\ new.vsize = Len(Blob(k))
  BY DEF ImportSection
<1> HIDE DEF new, s
<1>6. /\ DOMAIN p.sections = 1 .. Len(s) + 1 /\ DOMAIN s = 1 .. Len(s) /\ Len(s) \in Nat
      /\ \A g \in DOMAIN s : p.sections[g] = s[g]
      /\ p.sections[Len(s) + 1] = new
  BY ONLY <1>1, <1>2, <1>3
<1>7. new.va \in Nat /\ new.vsize \in Nat /\ new.rsize \in Nat
  BY <1>3 DEF Headers
<1>8. PICK v \in Nat : v = new.va + new.vsize
  BY <1>7
<1>9. p.top = AlignUp(v, SectionAlignment) /\ SectionAlignment \in Nat \ {0}
  BY <1>1, <1>8 DEF AlignmentAssumption
<1>10. AlignUp(v, SectionAlignment) \in Nat /\ v <= AlignUp(v, SectionAlignment)
  BY ONLY <1>9, v \in Nat, Aligned
<1>11. p.top \in Nat /\ new.va + new.vsize <= p.top
  BY ONLY <1>8, <1>9, <1>10
<1>12. QED
  BY <1>1, <1>3, <1>4, <1>5, <1>6, <1>7, <1>11 DEF s, new

LEMMA GrownApart ==
    ASSUME FileAssumption, AlignmentAssumption, LayoutAssumption,
           NEW b \in Builds, NEW p, NEW k, GrownFrom(p, k, b)
    PROVE  SectionsApart(p)
<1> DEFINE s == Stock(b).sections
           new == ImportSection(k)
           all == p.sections
           len == Len(Stock(b).bytes)
           va == SectionVa(Stock(b))
<1>1. /\ s # << >> /\ Len(s) \in Nat
      /\ DOMAIN all = 1 .. Len(s) + 1 /\ DOMAIN s = 1 .. Len(s)
      /\ \A g \in DOMAIN s : all[g] = s[g]
      /\ all[Len(s) + 1] = new
      /\ new \in Headers /\ new.va = va /\ new.raw = SectionRaw(k)
      /\ new.rsize \in Nat /\ new.vsize \in Nat
      /\ p.top \in Nat /\ new.va + new.vsize <= p.top
  BY GrownSections
<1>2. /\ len \in Nat /\ va \in Nat /\ va % SectionAlignment = 0
      /\ Stock(b).top \in Nat /\ Stock(b).top <= va
      /\ \A g \in DOMAIN s :
            /\ s[g] \in Headers
            /\ s[g].va + s[g].vsize <= va /\ s[g].va + s[g].rsize <= va
            /\ s[g].raw + s[g].rsize <= len /\ s[g].va + s[g].vsize <= Stock(b).top
            /\ s[g].raw % FileAlignment = 0 /\ s[g].va % SectionAlignment = 0
      /\ \A g, h \in DOMAIN s : g < h =>
            /\ s[g].va + s[g].vsize <= s[h].va /\ s[g].va + s[g].rsize <= s[h].va
            /\ s[g].raw + s[g].rsize <= s[h].raw
  BY <1>1, StockLaidOut
<1>3. /\ SectionRaw(k) \in Nat /\ len <= SectionRaw(k) /\ SectionRaw(k) % FileAlignment = 0
      /\ Len(p.bytes) = SectionRaw(k) + new.rsize
  BY GrownBytes DEF GrownFrom
<1> HIDE DEF s, new, all, len, va
<1>4. PICK m \in Nat : m = Len(s)
  BY <1>1
<1>5. ASSUME NEW g \in DOMAIN all, NEW h \in DOMAIN all, g < h
      PROVE  all[g].va + all[g].vsize <= all[h].va /\ all[g].raw + all[g].rsize <= all[h].raw
  <2>1. g \in DOMAIN s /\ all[g] = s[g]
    BY <1>1, <1>4, <1>5
  <2>2. CASE h \in DOMAIN s
    BY <1>1, <1>2, <1>5, <2>1, <2>2
  <2>3. CASE h = m + 1
    <3>1. all[h].va = va /\ all[h].raw = SectionRaw(k)
      BY <1>1, <1>4, <2>3
    <3>2. s[g].va + s[g].vsize <= va /\ s[g].raw + s[g].rsize <= len
      BY <1>2, <2>1
    <3>3. s[g].raw \in Nat /\ s[g].rsize \in Nat
      BY <1>2, <2>1 DEF Headers
    <3>4. QED
      BY <1>2, <1>3, <2>1, <3>1, <3>2, <3>3
  <2>4. QED
    BY <1>1, <1>4, <2>2, <2>3
<1>6. ASSUME NEW g \in DOMAIN all
      PROVE  /\ all[g].raw % FileAlignment = 0 /\ all[g].va % SectionAlignment = 0
             /\ all[g].raw + all[g].rsize <= Len(p.bytes) /\ all[g].va + all[g].vsize <= p.top
  <2>1. CASE g \in DOMAIN s
    <3>1. all[g] = s[g] /\ s[g].raw \in Nat /\ s[g].rsize \in Nat /\ s[g].va \in Nat /\ s[g].vsize \in Nat
      BY <1>1, <1>2, <2>1 DEF Headers
    <3>2. /\ s[g].raw + s[g].rsize <= len /\ s[g].va + s[g].vsize <= va
          /\ s[g].raw % FileAlignment = 0 /\ s[g].va % SectionAlignment = 0
      BY <1>2, <2>1
    <3>3. len <= Len(p.bytes) /\ Len(p.bytes) \in Nat /\ va <= p.top
      BY <1>1, <1>2, <1>3
    <3>4. s[g].raw + s[g].rsize <= Len(p.bytes) /\ s[g].va + s[g].vsize <= p.top
      <4>1. PICK r \in Nat, v \in Nat : r = s[g].raw + s[g].rsize /\ v = s[g].va + s[g].vsize
        BY ONLY <3>1
      <4>2. r <= len /\ v <= va
        BY ONLY <3>2, <4>1
      <4>3. len \in Nat /\ va \in Nat /\ p.top \in Nat
        BY <1>1, <1>2
      <4>4. r <= Len(p.bytes) /\ v <= p.top
        BY ONLY <3>3, <4>2, <4>3, r \in Nat, v \in Nat
      <4>5. QED
        BY ONLY <4>1, <4>4
    <3>5. QED
      BY <3>1, <3>2, <3>4
  <2>2. CASE g = m + 1
    BY <1>1, <1>2, <1>3, <1>4, <2>2
  <2>3. QED
    BY <1>1, <1>4, <2>1, <2>2
<1>7. QED
  BY <1>5, <1>6 DEF SectionsApart, all

(* The scripts left the import descriptors alone.                          *)
SameImports(k, b) ==
    LET i == Stock(b)
        offset == VaToOffset(i, i.imports)
    IN  \A n \in 1 .. Len(Imports(i)) + 1 :
            offset + n <= Len(i.bytes) => k.bytes[offset + n] = i.bytes[offset + n]

LEMMA ImportsKept ==
    ASSUME FileAssumption, NEW b \in Builds, NEW k \in Images, Importable(k), SameImports(k, b),
           k.sections = Stock(b).sections, k.imports = Stock(b).imports, Len(k.bytes) = Len(Stock(b).bytes)
    PROVE  /\ Imports(k) = Imports(Stock(b)) /\ Imports(k) \in Seq(Units)
           /\ \A n \in DOMAIN Imports(k) : Imports(k)[n] # Zero
<1> DEFINE i == Stock(b)
           offset == VaToOffset(i, i.imports)
           d == Imports(i)
           e == Imports(k)
<1>1. i \in Images /\ i.imports \in Nat /\ i.bytes \in Seq(Units) /\ k.bytes \in Seq(Units)
  BY StockImages DEF Images
<1>2. VaToOffset(k, k.imports) = offset
  BY OffsetByLayout
<1>3. offset \in Nat
  BY <1>1, OffsetInFile
<1>4. offset <= Len(k.bytes) /\ Len(k.bytes) \in Nat
  BY <1>1, <1>2, <1>3 DEF Importable
<1>5. d = Descriptors(i, offset) /\ e = Descriptors(k, offset)
  BY <1>2 DEF Imports
<1>6. SameImports(k, b) <=>
        \A n \in 1 .. Len(d) + 1 : offset + n <= Len(i.bytes) => k.bytes[offset + n] = i.bytes[offset + n]
  BY DEF SameImports
<1>6a. Len(i.bytes) = Len(k.bytes)
  OBVIOUS
<1> HIDE DEF i, offset, d, e
<1>7. d \in Seq(Units) /\ Lists(d, i.bytes, offset)
  BY <1>1, <1>3, <1>4, <1>5, <1>6a, DescriptorsList
<1>8. e \in Seq(Units) /\ Lists(e, k.bytes, offset)
  BY <1>1, <1>3, <1>4, <1>5, DescriptorsList
<1>9. Lists(d, k.bytes, offset)
  <2>1. PICK l \in Nat : l = Len(d)
    BY <1>7
  <2>2. /\ offset + l <= Len(k.bytes)
        /\ \A n \in 1 .. l : d[n] = i.bytes[offset + n] /\ d[n] # Zero
        /\ offset + l < Len(k.bytes) => i.bytes[offset + l + 1] = Zero
    BY <1>6a, <1>7, <2>1 DEF Lists
  <2>3. \A n \in 1 .. l + 1 : offset + n <= Len(k.bytes) => k.bytes[offset + n] = i.bytes[offset + n]
    BY <1>6, <1>6a, <2>1
  <2>4. \A n \in 1 .. l : k.bytes[offset + n] = i.bytes[offset + n]
    BY <1>3, <1>4, <2>1, <2>2, <2>3
  <2>5. offset + l < Len(k.bytes) => k.bytes[offset + l + 1] = Zero
    <3>1. SUFFICES ASSUME offset + l < Len(k.bytes) PROVE k.bytes[offset + l + 1] = Zero
      OBVIOUS
    <3>2. PICK n \in Nat : n = l + 1
      BY <2>1
    <3>3. n \in 1 .. l + 1 /\ offset + n <= Len(k.bytes) /\ offset + n = offset + l + 1
      BY <1>3, <1>4, <2>1, <3>1, <3>2
    <3>4. k.bytes[offset + n] = i.bytes[offset + n]
      BY <2>3, <3>3
    <3>5. i.bytes[offset + l + 1] = Zero
      BY <2>2, <3>1
    <3>6. QED
      BY <3>3, <3>4, <3>5
  <2>6. QED
    BY <2>1, <2>2, <2>4, <2>5 DEF Lists
<1>10. d = e
  BY ONLY <1>3, <1>4, <1>7, <1>8, <1>9, OneList
<1>11. \A n \in DOMAIN e : e[n] # Zero
  <2>1. DOMAIN e = 1 .. Len(e)
    BY ONLY <1>8
  <2>2. QED
    BY <1>8, <2>1 DEF Lists
<1>12. QED
  BY <1>8, <1>10, <1>11 DEF d, e, i

LEMMA BlobKnown ==
    ASSUME FileAssumption, NEW k \in Images, Imports(k) \in Seq(Units)
    PROVE  /\ Blob(k) \in Seq(Units) /\ Len(Imports(k)) + 2 <= Len(Blob(k))
           /\ \A n \in 1 .. Len(Imports(k)) : Blob(k)[n] = Imports(k)[n]
           /\ Blob(k)[Len(Imports(k)) + 1] = NewImport
           /\ Blob(k)[Len(Imports(k)) + 2] = Zero
<1> DEFINE d == Imports(k)
           z == <<NewImport, Zero>>
           t == Thunks
           dz == d \o z
<1>1. Blob(k) = dz \o t
  BY DEF Blob, Imports
<1>2. d \in Seq(Units) /\ t \in Seq(Units)
  BY DEF FileAssumption
<1>3. z \in Seq(Units) /\ Len(z) = 2 /\ z[1] = NewImport /\ z[2] = Zero
  BY KnownUnits
<1> HIDE DEF d, z, t
<1>4. PICK l \in Nat, m \in Nat : l = Len(d) /\ m = Len(t)
  BY <1>2
<1>5. /\ dz \in Seq(Units) /\ Len(dz) = l + 2
      /\ \A n \in 1 .. l + 2 : dz[n] = IF n <= l THEN d[n] ELSE z[n - l]
  <2>1. /\ dz \in Seq(Units) /\ Len(dz) = Len(d) + Len(z)
        /\ \A n \in 1 .. Len(d) + Len(z) : dz[n] = IF n <= Len(d) THEN d[n] ELSE z[n - Len(d)]
    BY ONLY <1>2, <1>3, ConcatProperties
  <2> HIDE DEF dz
  <2>2. QED
    BY ONLY <1>3, <1>4, <2>1
<1> HIDE DEF dz
<1> DEFINE all == dz \o t
<1>6. /\ Len(all) = l + 2 + m /\ all \in Seq(Units)
      /\ \A n \in 1 .. l + 2 + m : all[n] = IF n <= l + 2 THEN dz[n] ELSE t[n - (l + 2)]
  <2>1. /\ all \in Seq(Units) /\ Len(all) = Len(dz) + Len(t)
        /\ \A n \in 1 .. Len(dz) + Len(t) : all[n] = IF n <= Len(dz) THEN dz[n] ELSE t[n - Len(dz)]
    BY ONLY <1>2, <1>5, ConcatProperties
  <2> HIDE DEF all
  <2>2. QED
    BY ONLY <1>4, <1>5, <2>1
<1>6a. Blob(k) = all
  BY <1>1
<1> HIDE DEF all
<1>7. \A n \in 1 .. l + 2 : all[n] = dz[n]
  BY ONLY <1>6, l \in Nat, m \in Nat
<1>8. /\ \A n \in 1 .. l : dz[n] = d[n]
      /\ dz[l + 1] = NewImport /\ dz[l + 2] = Zero
  <2>1. /\ l + 1 \in 1 .. l + 2 /\ ~(l + 1 <= l) /\ l + 1 - l = 1
        /\ l + 2 \in 1 .. l + 2 /\ ~(l + 2 <= l) /\ l + 2 - l = 2
    OBVIOUS
  <2>2. dz[l + 1] = z[l + 1 - l] /\ dz[l + 2] = z[l + 2 - l]
    BY ONLY <1>5, <2>1, l \in Nat
  <2>3. QED
    BY <1>3, <1>5, <2>1, <2>2
<1>9. l + 1 \in 1 .. l + 2 /\ l + 2 \in 1 .. l + 2 /\ 1 .. l \subseteq 1 .. l + 2 /\ l + 2 <= l + 2 + m
  OBVIOUS
<1>10. /\ all[l + 1] = NewImport /\ all[l + 2] = Zero /\ \A n \in 1 .. l : all[n] = d[n]
  BY ONLY <1>7, <1>8, <1>9
<1>11. QED
  BY ONLY <1>4, <1>6, <1>6a, <1>9, <1>10 DEF d

(* Where the new section is looked for.                                    *)
LEMMA NewHolder ==
    ASSUME FileAssumption, AlignmentAssumption, LayoutAssumption,
           NEW b \in Builds, NEW p, NEW k, GrownFrom(p, k, b), Imports(k) \in Seq(Units),
           NEW m \in Nat, m < Len(Blob(k))
    PROVE  /\ p.imports = SectionVa(Stock(b)) /\ p.imports \in Nat
           /\ VaToOffset(p, p.imports + m) = SectionRaw(k) + m
           /\ Backing(p, p.imports + m) = SectionRaw(k) + m
<1> DEFINE s == Stock(b).sections
           new == ImportSection(k)
           all == p.sections
           va == p.imports
           at == va + m
           raw == SectionRaw(k)
<1>1. /\ s # << >> /\ Len(s) \in Nat
      /\ DOMAIN all = 1 .. Len(s) + 1 /\ DOMAIN s = 1 .. Len(s)
      /\ \A g \in DOMAIN s : all[g] = s[g]
      /\ all[Len(s) + 1] = new
      /\ new \in Headers /\ new.va = SectionVa(Stock(b)) /\ new.raw = raw
      /\ new.vsize = Len(Blob(k)) /\ new.rsize \in Nat /\ new.vsize \in Nat
  BY GrownSections
<1>2. va = new.va
  BY DEF GrownFrom, Grown, ImportSection
<1>3. \A g \in DOMAIN s : s[g] \in Headers /\ s[g].va + s[g].vsize <= va /\ s[g].va + s[g].rsize <= va
  BY <1>1, <1>2, StockLaidOut
<1>4. va \in Nat /\ raw \in Nat /\ Len(Blob(k)) <= new.rsize
  BY <1>1, <1>2, GrownBytes DEF GrownFrom, Headers
<1> HIDE DEF s, new, all, va, raw
<1>5. PICK l \in Nat : l = Len(s) + 1
  BY <1>1
<1>6. ASSUME NEW g \in DOMAIN all, g # l
      PROVE  ~Covers(all[g], at) /\ ~(at < all[g].va + all[g].vsize)
  <2>1. g \in DOMAIN s /\ all[g] = s[g]
    BY <1>1, <1>5, <1>6
  <2>2. /\ s[g].va \in Nat /\ s[g].vsize \in Nat /\ s[g].rsize \in Nat
        /\ s[g].va + s[g].vsize <= va /\ s[g].va + s[g].rsize <= va
    BY <1>3, <2>1 DEF Headers
  <2>3. ~(at < s[g].va + s[g].vsize) /\ ~(at < s[g].va + s[g].rsize)
    BY <1>4, <2>2
  <2>4. QED
    BY <2>1, <2>3 DEF Covers, Further
<1>7. at < new.va + new.vsize /\ at < new.va + new.rsize /\ new.va <= at /\ at - new.va + raw = raw + m
  BY <1>1, <1>2, <1>4
<1>8. Covers(new, at)
  BY <1>7 DEF Covers, Further
<1>9. l \in DOMAIN all /\ all[l] = new
  BY <1>1, <1>5
<1> HIDE DEF at
<1>10. HoldersOf(p, at) = {l}
  BY <1>6, <1>8, <1>9 DEF HoldersOf, all
<1>11. VaToOffset(p, at) = raw + m
  <2>1. VaToOffset(p, at) = at - all[l].va + all[l].raw
    <3>1. (CHOOSE n \in {l} : \A h \in {l} : n <= h) = l
      OBVIOUS
    <3>2. QED
      BY <1>10, <3>1 DEF VaToOffset, all
  <2>2. QED
    BY <1>1, <1>7, <1>9, <2>1
<1>12. Backing(p, at) = raw + m
  <2> DEFINE here == {i \in DOMAIN all :
                        LET h == all[i]
                        IN  h.va <= at /\ at < h.va + h.vsize /\ at < h.va + h.rsize}
  <2>1. here = {l}
    BY <1>6, <1>7, <1>9
  <2>2. Backing(p, at) = at - all[l].va + all[l].raw
    <3>1. (CHOOSE n \in {l} : TRUE) = l
      OBVIOUS
    <3>2. Backing(p, at) = IF here = {} THEN 0
                           ELSE at - all[CHOOSE i \in here : TRUE].va + all[CHOOSE i \in here : TRUE].raw
      BY DEF Backing, all
    <3> HIDE DEF here
    <3>3. QED
      BY <2>1, <3>1, <3>2
  <2>3. QED
    BY <1>1, <1>7, <1>9, <2>2
<1>13. QED
  BY <1>1, <1>2, <1>4, <1>11, <1>12 DEF va, raw, at

LEMMA NewImports ==
    ASSUME FileAssumption, AlignmentAssumption, LayoutAssumption,
           NEW b \in Builds, NEW p, NEW k, GrownFrom(p, k, b), SameImports(k, b)
    PROVE  /\ Imports(p) = Append(Imports(Stock(b)), NewImport)
           /\ \A n \in 1 .. Len(Imports(p)) : LoadsAt(p, p.imports + n - 1) = Imports(p)[n]
<1> DEFINE d == Imports(k)
           all == Append(d, NewImport)
           raw == SectionRaw(k)
           blob == Blob(k)
<1>1. /\ p \in Images /\ k \in Images /\ Importable(k) /\ k.sections = Stock(b).sections
      /\ k.imports = Stock(b).imports /\ Len(k.bytes) = Len(Stock(b).bytes)
  BY DEF GrownFrom, Grown
<1>2. d = Imports(Stock(b)) /\ d \in Seq(Units) /\ \A n \in DOMAIN d : d[n] # Zero
  BY <1>1, ImportsKept
<1>3. /\ Len(d) + 2 <= Len(blob)
      /\ \A n \in 1 .. Len(d) : blob[n] = d[n]
      /\ blob[Len(d) + 1] = NewImport /\ blob[Len(d) + 2] = Zero
      /\ blob \in Seq(Units)
  BY <1>1, <1>2, BlobKnown
<1>4. /\ raw \in Nat /\ ImportSection(k).rsize \in Nat /\ Len(k.bytes) <= raw
      /\ Len(blob) <= ImportSection(k).rsize /\ Len(p.bytes) = raw + ImportSection(k).rsize
      /\ \A n \in 1 .. Len(blob) : p.bytes[raw + n] = blob[n]
  BY GrownBytes DEF GrownFrom
<1>5. \A m \in Nat : m < Len(blob) =>
        /\ p.imports \in Nat
        /\ VaToOffset(p, p.imports + m) = raw + m
        /\ Backing(p, p.imports + m) = raw + m
  BY <1>2, NewHolder
<1>6. raw # 0
  <2>1. k.imports \in Nat /\ Len(k.bytes) \in Nat
    <3>1. k.imports \in Nat /\ k.bytes \in Seq(Units)
      BY <1>1 DEF Images
    <3>2. QED
      BY <3>1
  <2>2. VaToOffset(k, k.imports) \in Nat /\ VaToOffset(k, k.imports) + 1 <= Len(k.bytes)
    <3>1. VaToOffset(k, k.imports) \in Nat
      BY <1>1, <2>1, OffsetInFile
    <3>2. ~(VaToOffset(k, k.imports) + 1 > Len(k.bytes))
      BY <1>1 DEF Importable
    <3>3. QED
      BY ONLY <2>1, <3>1, <3>2
  <2>3. QED
    BY <1>4, <2>1, <2>2
<1>7. NewImport # Zero /\ NewImport \in Units
  BY KnownUnits DEF LayoutAssumption
<1> HIDE DEF d, raw, blob
<1>8. PICK l \in Nat : l = Len(d)
  BY <1>2
<1>9. /\ all \in Seq(Units) /\ Len(all) = l + 1 /\ all[l + 1] = NewImport
      /\ \A n \in 1 .. l : all[n] = d[n]
  BY ONLY <1>2, <1>7, <1>8
<1> HIDE DEF all
<1>10. PICK w \in Nat, e \in Nat : w = Len(blob) /\ e = Len(p.bytes)
  BY <1>3, <1>4
<1>11. l + 2 <= w /\ raw + w <= e
  BY <1>3, <1>4, <1>8, <1>10
<1>12. \A n \in 1 .. l + 1 : all[n] = p.bytes[raw + n] /\ all[n] # Zero
  <2>1. ASSUME NEW n \in 1 .. l PROVE all[n] = p.bytes[raw + n] /\ all[n] # Zero
    <3>1. n \in 1 .. Len(blob) /\ n \in DOMAIN d
      BY <1>2, <1>8, <1>10, <1>11
    <3>2. QED
      BY <1>2, <1>3, <1>4, <1>8, <1>9, <3>1
  <2>2. all[l + 1] = p.bytes[raw + (l + 1)] /\ all[l + 1] # Zero
    <3>1. l + 1 \in 1 .. Len(blob)
      BY <1>10, <1>11
    <3>2. QED
      BY <1>3, <1>4, <1>7, <1>8, <1>9, <3>1
  <2>3. QED
    BY <2>1, <2>2
<1>13. p.bytes[raw + (l + 2)] = Zero
  <2>1. l + 2 \in 1 .. Len(blob)
    BY <1>10, <1>11
  <2>2. QED
    BY <1>3, <1>4, <1>8, <2>1
<1>14. Lists(all, p.bytes, raw)
  <2>1. raw + (l + 1) <= e /\ raw + (l + 1) + 1 = raw + (l + 2)
    BY <1>4, <1>11
  <2>2. QED
    BY <1>9, <1>10, <1>12, <1>13, <2>1 DEF Lists
<1>15. Imports(p) \in Seq(Units) /\ Lists(Imports(p), p.bytes, raw)
  <2>1. 0 < w /\ p.imports + 0 = p.imports /\ raw + 0 = raw
    <3>1. p.imports \in Nat
      BY <1>1 DEF Images
    <3>2. QED
      BY <1>4, <1>11, <3>1
  <2>2. VaToOffset(p, p.imports) = raw
    BY <1>5, <1>10, <2>1
  <2>3. raw <= Len(p.bytes)
    BY <1>4, <1>10, <1>11
  <2>4. QED
    BY <1>1, <1>4, <2>2, <2>3, DescriptorsList DEF Imports
<1>16. Imports(p) = all
  BY ONLY <1>4, <1>9, <1>10, <1>14, <1>15, OneList
<1>17. ASSUME NEW n \in 1 .. Len(Imports(p))
       PROVE  LoadsAt(p, p.imports + n - 1) = Imports(p)[n]
  <2>1. n \in 1 .. l + 1
    BY <1>9, <1>16
  <2>2. PICK m \in Nat : m = n - 1
    BY <2>1
  <2>3. m < w /\ n = m + 1
    BY <1>11, <2>1, <2>2
  <2>4. p.imports \in Nat /\ Backing(p, p.imports + m) = raw + m
    BY <1>5, <1>10, <2>3
  <2>5. p.imports + n - 1 = p.imports + m /\ raw + m # 0 /\ raw + m + 1 = raw + n
    BY <1>4, <1>6, <2>1, <2>2, <2>4
  <2>6. LoadsAt(p, p.imports + m) = p.bytes[raw + n]
    BY <2>4, <2>5 DEF LoadsAt
  <2>7. QED
    BY <1>12, <1>16, <2>1, <2>5, <2>6
<1>18. QED
  BY <1>2, <1>16, <1>17 DEF all

(* A build has one section at most for an address and for a file offset.   *)
LEMMA CoveredOnce ==
    ASSUME FileAssumption, AlignmentAssumption, LayoutAssumption,
           NEW b \in Builds, NEW x \in Nat,
           NEW g \in DOMAIN Stock(b).sections, NEW h \in DOMAIN Stock(b).sections,
           Covers(Stock(b).sections[g], x), Covers(Stock(b).sections[h], x)
    PROVE  g = h
<1> DEFINE s == Stock(b).sections
<1>1. s \in Seq(Headers) /\ s # << >>
  <2>1. s \in Seq(Headers)
    BY StockImages DEF Images
  <2>2. QED
    BY <2>1
<1>2. \A e, f \in DOMAIN s : e < f =>
        s[e].va + s[e].vsize <= s[f].va /\ s[e].va + s[e].rsize <= s[f].va
  BY <1>1, StockLaidOut
<1>3. ASSUME NEW e \in DOMAIN s, NEW f \in DOMAIN s, e < f, Covers(s[e], x), Covers(s[f], x)
      PROVE  FALSE
  <2> HIDE DEF s
  <2>1. s[e] \in Headers /\ s[f] \in Headers
    BY <1>1, <1>3, ElementOf
  <2>2. s[f].va <= x /\ x < s[e].va + Further(s[e].vsize, s[e].rsize)
    BY <1>3 DEF Covers
  <2>3. s[e].va + s[e].vsize <= s[f].va /\ s[e].va + s[e].rsize <= s[f].va
    BY <1>2, <1>3
  <2>4. s[e].va + Further(s[e].vsize, s[e].rsize) <= s[f].va
    BY <2>3 DEF Further
  <2>5. PICK q \in Nat : q = s[e].va + Further(s[e].vsize, s[e].rsize)
    BY <2>1 DEF Further, Headers
  <2>6. s[f].va \in Nat
    BY <2>1 DEF Headers
  <2>7. QED
    BY ONLY <2>2, <2>4, <2>5, <2>6, x \in Nat
<1>4. g \in Nat /\ h \in Nat
  BY <1>1
<1>5. ~(g < h) /\ ~(h < g)
  BY <1>3
<1>6. QED
  BY ONLY <1>4, <1>5

LEMMA BackedBy ==
    ASSUME FileAssumption, NEW b \in Builds, NEW x \in Nat, Backing(Stock(b), x) # 0
    PROVE  \E g \in DOMAIN Stock(b).sections :
              LET h == Stock(b).sections[g]
              IN  /\ h \in Headers /\ Covers(h, x) /\ x < h.va + h.rsize
                  /\ Backing(Stock(b), x) = x - h.va + h.raw
<1> DEFINE s == Stock(b).sections
           here == {i \in DOMAIN s : LET h == s[i] IN h.va <= x /\ x < h.va + h.vsize /\ x < h.va + h.rsize}
           g == CHOOSE i \in here : TRUE
<1>1. s \in Seq(Headers)
  BY StockImages DEF Images
<1>2. Backing(Stock(b), x) = IF here = {} THEN 0 ELSE x - s[g].va + s[g].raw
  BY DEF Backing
<1>3. here # {}
  BY <1>2
<1>4. g \in here
  BY <1>3
<1> HIDE DEF g
<1>5. g \in DOMAIN s /\ s[g].va <= x /\ x < s[g].va + s[g].vsize /\ x < s[g].va + s[g].rsize
  BY <1>4
<1>6. s[g] \in Headers
  BY <1>1, <1>5, ElementOf
<1>7. Covers(s[g], x)
  BY <1>5 DEF Covers, Further
<1>8. QED
  BY <1>2, <1>3, <1>5, <1>6, <1>7

LEMMA BackingOnce ==
    ASSUME FileAssumption, AlignmentAssumption, LayoutAssumption,
           NEW b \in Builds, NEW x \in Nat, NEW y \in Nat,
           Backing(Stock(b), x) # 0, Backing(Stock(b), x) = Backing(Stock(b), y)
    PROVE  x = y
<1> DEFINE s == Stock(b).sections
<1>1. PICK g \in DOMAIN s :
        /\ s[g] \in Headers /\ Covers(s[g], x) /\ x < s[g].va + s[g].rsize
        /\ Backing(Stock(b), x) = x - s[g].va + s[g].raw
  BY BackedBy
<1>2. PICK h \in DOMAIN s :
        /\ s[h] \in Headers /\ Covers(s[h], y) /\ y < s[h].va + s[h].rsize
        /\ Backing(Stock(b), y) = y - s[h].va + s[h].raw
  BY BackedBy
<1>3. s \in Seq(Headers) /\ s # << >>
  <2>1. s \in Seq(Headers)
    BY StockImages DEF Images
  <2>2. QED
    BY <1>1, <2>1
<1>4. \A e, f \in DOMAIN s : e < f => s[e].raw + s[e].rsize <= s[f].raw
  BY <1>3, StockLaidOut
<1> HIDE DEF s
<1>5. /\ s[g].va \in Nat /\ s[g].raw \in Nat /\ s[g].rsize \in Nat /\ s[g].va <= x
      /\ s[h].va \in Nat /\ s[h].raw \in Nat /\ s[h].rsize \in Nat /\ s[h].va <= y
  BY <1>1, <1>2 DEF Covers, Headers
<1>6. PICK v \in Nat, r \in Nat, z \in Nat : v = s[g].va /\ r = s[g].raw /\ z = s[g].rsize
  BY <1>5
<1>7. PICK vv \in Nat, rr \in Nat, zz \in Nat : vv = s[h].va /\ rr = s[h].raw /\ zz = s[h].rsize
  BY <1>5
<1>8. x - v + r = y - vv + rr /\ x < v + z /\ y < vv + zz /\ v <= x /\ vv <= y
  BY <1>1, <1>2, <1>5, <1>6, <1>7
<1>9. g \in Nat /\ h \in Nat
  BY <1>3
<1>10. ~(g < h)
  <2>1. SUFFICES ASSUME g < h PROVE FALSE
    OBVIOUS
  <2>2. r + z <= rr
    BY <1>4, <1>6, <1>7, <2>1
  <2>3. QED
    BY ONLY <1>8, <2>2, x \in Nat, y \in Nat, v \in Nat, r \in Nat, z \in Nat, vv \in Nat, rr \in Nat
<1>11. ~(h < g)
  <2>1. SUFFICES ASSUME h < g PROVE FALSE
    OBVIOUS
  <2>2. rr + zz <= r
    BY <1>4, <1>6, <1>7, <2>1
  <2>3. QED
    BY ONLY <1>8, <2>2, x \in Nat, y \in Nat, v \in Nat, r \in Nat, zz \in Nat, vv \in Nat, rr \in Nat
<1>12. g = h
  BY ONLY <1>9, <1>10, <1>11
<1>13. v = vv /\ r = rr
  BY <1>6, <1>7, <1>12
<1>14. QED
  BY ONLY <1>8, <1>13, x \in Nat, y \in Nat, v \in Nat, r \in Nat

(* Where the editor puts an edit is what is loaded at its address.         *)
LEMMA EditPlaced ==
    ASSUME FileAssumption, AlignmentAssumption, LayoutAssumption,
           NEW b \in Builds, Backed(Stock(b)), NEW n \in DOMAIN Edits, NEW k \in 1 .. Len(Edits[n].units)
    PROVE  /\ Edits[n].va \in Nat /\ Len(Edits[n].units) \in Nat /\ VaToOffset(Stock(b), Edits[n].va) \in Nat
           /\ Backing(Stock(b), Edits[n].va + k - 1) = VaToOffset(Stock(b), Edits[n].va) + k - 1
           /\ Backing(Stock(b), Edits[n].va + k - 1) # 0
<1> DEFINE i == Stock(b)
           s == i.sections
           edit == Edits[n]
           va == edit.va
           units == edit.units
<1>1. i \in Images /\ s \in Seq(Headers)
  BY StockImages DEF Images
<1>2. va \in Nat /\ units \in Seq(Units)
  <2>1. Edits \in Seq([va : Nat, units : Seq(Units)])
    BY DEF FileAssumption
  <2>2. edit \in [va : Nat, units : Seq(Units)]
    BY <2>1, ElementOf
  <2>3. QED
    BY <2>2
<1>3. PICK g \in DOMAIN s : \A q \in DOMAIN units : Covers(s[g], va + q - 1)
  BY DEF LayoutAssumption, Stock
<1>4. \A q \in DOMAIN units : Backing(i, va + q - 1) # 0
  BY DEF Backed
<1>5. ASSUME NEW q \in DOMAIN units
      PROVE  Backing(i, va + q - 1) = (va + q - 1) - s[g].va + s[g].raw
  <2>1. q \in 1 .. Len(units) /\ va + q - 1 \in Nat
    BY <1>2, <1>5
  <2>1a. PICK y \in Nat : y = va + q - 1
    BY <2>1
  <2>1b. Backing(Stock(b), y) # 0
    BY <1>4, <2>1a
  <2>2. PICK h \in DOMAIN s : Covers(s[h], y) /\ Backing(i, y) = y - s[h].va + s[h].raw
    BY <2>1b, BackedBy
  <2>3. Covers(s[g], y)
    BY <1>3, <2>1a
  <2>4. h = g
    BY <2>2, <2>3, CoveredOnce
  <2>5. Backing(i, y) = y - s[g].va + s[g].raw
    BY <2>2, <2>4
  <2>6. QED
    BY ONLY <2>1a, <2>5, Zenon
<1>6. DOMAIN units = 1 .. Len(units) /\ Len(units) \in Nat
  BY <1>2
<1>7. 1 \in DOMAIN units /\ k \in DOMAIN units
  BY <1>6
<1>8. VaToOffset(i, va) = va - s[g].va + s[g].raw
  <2>1. va + 1 - 1 = va /\ Covers(s[g], va)
    BY <1>2, <1>3, <1>7
  <2>2. g \in HoldersOf(i, va)
    BY <2>1 DEF HoldersOf
  <2>3. PICK h \in HoldersOf(i, va) : VaToOffset(i, va) = va - s[h].va + s[h].raw
    BY <1>1, <1>2, <2>2, HolderChosen
  <2>4. h \in DOMAIN s /\ Covers(s[h], va)
    BY <2>3 DEF HoldersOf
  <2>5. h = g
    BY <1>2, <2>1, <2>4, CoveredOnce
  <2>6. QED
    BY <2>3, <2>5
<1>9. VaToOffset(i, va) \in Nat
  BY <1>1, <1>2, OffsetInFile
<1>10. Backing(i, va + k - 1) = VaToOffset(i, va) + k - 1
  <2>1. Backing(i, va + k - 1) = (va + k - 1) - s[g].va + s[g].raw
    BY <1>5, <1>7
  <2>2. s[g].va \in Nat /\ s[g].raw \in Nat /\ k \in Nat
    <3>1. s[g] \in Headers
      BY <1>1, ElementOf
    <3>2. QED
      BY <1>6, <1>7, <3>1 DEF Headers
  <2> HIDE DEF va, s, i, units
  <2>3. QED
    BY <1>2, <1>8, <2>1, <2>2
<1>11. QED
  BY <1>2, <1>4, <1>6, <1>7, <1>9, <1>10

LEMMA OldLoads ==
    ASSUME FileAssumption, AlignmentAssumption, LayoutAssumption,
           NEW b \in Builds, NEW p, NEW k, GrownFrom(p, k, b), NEW va \in 0 .. Stock(b).top - 1
    PROVE  LET at == Backing(Stock(b), va)
           IN  /\ at \in Nat
               /\ at # 0 => at + 1 \in DOMAIN Stock(b).bytes
               /\ LoadsAt(p, va) = IF at = 0 THEN Zero ELSE k.bytes[at + 1]
<1> DEFINE i == Stock(b)
           s == i.sections
           all == p.sections
           new == ImportSection(k)
           at == Backing(i, va)
           herep == {g \in DOMAIN all : LET h == all[g]
                                        IN  h.va <= va /\ va < h.va + h.vsize /\ va < h.va + h.rsize}
           heres == {g \in DOMAIN s : LET h == s[g]
                                      IN  h.va <= va /\ va < h.va + h.vsize /\ va < h.va + h.rsize}
<1>1. /\ s # << >> /\ Len(s) \in Nat
      /\ DOMAIN all = 1 .. Len(s) + 1 /\ DOMAIN s = 1 .. Len(s)
      /\ \A g \in DOMAIN s : all[g] = s[g]
      /\ all[Len(s) + 1] = new
      /\ new.va = SectionVa(Stock(b))
  BY GrownSections
<1>2. /\ i.top \in Nat /\ SectionVa(i) \in Nat /\ i.top <= SectionVa(i) /\ Len(i.bytes) \in Nat
      /\ \A g \in DOMAIN s : s[g] \in Headers /\ s[g].raw + s[g].rsize <= Len(i.bytes)
  BY <1>1, StockLaidOut
<1>3. va \in Nat /\ ~(new.va <= va)
  <2> HIDE DEF new
  <2>1. QED
    BY <1>1, <1>2
<1>4. herep = heres
  <2>1. PICK l \in Nat : l = Len(s)
    BY <1>1
  <2>2. \A g \in DOMAIN all : g \in DOMAIN s \/ g = l + 1
    BY <1>1, <2>1
  <2>3. \A g \in DOMAIN s : g \in DOMAIN all
    BY <1>1, <2>1
  <2>4. ~(all[l + 1].va <= va)
    BY <1>1, <1>3, <2>1
  <2> HIDE DEF s, all
  <2>5. QED
    BY <1>1, <2>2, <2>3, <2>4
<1>5. at = IF heres = {} THEN 0
           ELSE va - s[CHOOSE g \in heres : TRUE].va + s[CHOOSE g \in heres : TRUE].raw
  BY DEF Backing
<1>6. Backing(p, va) = IF herep = {} THEN 0
           ELSE va - all[CHOOSE g \in herep : TRUE].va + all[CHOOSE g \in herep : TRUE].raw
  BY DEF Backing
<1>7. heres # {} => (CHOOSE g \in heres : TRUE) \in DOMAIN s
  OBVIOUS
<1> HIDE DEF herep, heres
<1>8. Backing(p, va) = at
  <2> HIDE DEF at, all, s
  <2>1. QED
    BY <1>1, <1>4, <1>5, <1>6, <1>7
<1>9. at # 0 => at \in Nat /\ at + 1 \in 1 .. Len(i.bytes)
  <2>1. SUFFICES ASSUME at # 0 PROVE at \in Nat /\ at + 1 \in 1 .. Len(i.bytes)
    OBVIOUS
  <2>2. PICK g \in DOMAIN s :
            /\ s[g] \in Headers /\ Covers(s[g], va) /\ va < s[g].va + s[g].rsize
            /\ at = va - s[g].va + s[g].raw
    BY <1>3, <2>1, BackedBy
  <2>3. s[g].va \in Nat /\ s[g].raw \in Nat /\ s[g].rsize \in Nat /\ s[g].va <= va
    BY <2>2 DEF Covers, Headers
  <2>4. s[g].raw + s[g].rsize <= Len(i.bytes)
    BY <1>2
  <2>5. PICK v \in Nat, r \in Nat, z \in Nat, l \in Nat :
            v = s[g].va /\ r = s[g].raw /\ z = s[g].rsize /\ l = Len(i.bytes)
    BY <1>2, <2>3
  <2>6. at = va - v + r /\ v <= va /\ va < v + z /\ r + z <= l
    BY <2>2, <2>3, <2>4, <2>5
  <2> HIDE DEF at, i
  <2>7. at \in Nat /\ at + 1 \in 1 .. l
    BY ONLY <1>3, <2>6, v \in Nat, r \in Nat, z \in Nat, l \in Nat
  <2>8. QED
    BY ONLY <2>5, <2>7
<1>10. DOMAIN i.bytes = 1 .. Len(i.bytes)
  <2>1. i.bytes \in Seq(Units)
    BY StockImages DEF Images
  <2>2. QED
    BY ONLY <2>1
<1>11. at # 0 => p.bytes[at + 1] = k.bytes[at + 1]
  <2>1. \A n \in 1 .. Len(k.bytes) : p.bytes[n] = k.bytes[n]
    BY GrownBytes DEF GrownFrom
  <2>2. Len(k.bytes) = Len(i.bytes)
    BY DEF GrownFrom
  <2> HIDE DEF at, i
  <2>3. QED
    BY <1>9, <2>1, <2>2
<1> HIDE DEF at
<1>12. LoadsAt(p, va) = IF at = 0 THEN Zero ELSE p.bytes[at + 1]
  BY <1>8 DEF LoadsAt
<1>13. QED
  BY <1>9, <1>10, <1>11, <1>12 DEF at, i

(* The unit the scripts leave in the file is the one meant for its address. *)
LEMMA UnitPlaced ==
    ASSUME FileAssumption, AlignmentAssumption, LayoutAssumption,
           NEW b \in Builds, Backed(Stock(b)), NEW va \in Nat,
           Backing(Stock(b), va) \in Nat, Backing(Stock(b), va) # 0
    PROVE  UnitAt(Stock(b), Backing(Stock(b), va) + 1) = WithEdits(Stock(b), Edits, va)
<1> DEFINE i == Stock(b)
           at == Backing(i, va)
           here == {n \in DOMAIN Edits : va \in Edits[n].va .. Edits[n].va + Len(Edits[n].units) - 1}
<1>1. ASSUME NEW n \in DOMAIN Edits
      PROVE  /\ at + 1 \in WrittenTo(i, Edits[n])
                <=> va \in Edits[n].va .. Edits[n].va + Len(Edits[n].units) - 1
             /\ at + 1 \in WrittenTo(i, Edits[n])
                => (at + 1) - VaToOffset(i, Edits[n].va) = (va - Edits[n].va) + 1
  <2>1. Edits[n].va \in Nat /\ Edits[n].units \in Seq(Units)
    <3>1. Edits \in Seq([va : Nat, units : Seq(Units)])
      BY DEF FileAssumption
    <3>2. Edits[n] \in [va : Nat, units : Seq(Units)]
      BY <3>1, ElementOf
    <3>3. QED
      BY <3>2
  <2>2. VaToOffset(i, Edits[n].va) \in Nat
    BY <2>1, StockImages, OffsetInFile
  <2>3. Len(Edits[n].units) \in Nat
    BY <2>1
  <2>4. PICK v \in Nat, o \in Nat, l \in Nat :
            v = Edits[n].va /\ o = VaToOffset(i, v) /\ l = Len(Edits[n].units)
    BY <2>1, <2>2, <2>3
  <2>5. \A q \in 1 .. l : Backing(i, v + q - 1) = o + q - 1 /\ Backing(i, v + q - 1) # 0
    <3>1. ASSUME NEW q \in 1 .. l
          PROVE  Backing(i, v + q - 1) = o + q - 1 /\ Backing(i, v + q - 1) # 0
      <4>1. q \in 1 .. Len(Edits[n].units)
        BY <2>4
      <4>2. /\ Backing(i, Edits[n].va + q - 1) = VaToOffset(i, Edits[n].va) + q - 1
            /\ Backing(i, Edits[n].va + q - 1) # 0
        BY <4>1, EditPlaced
      <4>3. QED
        BY ONLY <2>4, <4>2
    <3>2. QED
      BY <3>1
  <2>6. WrittenTo(i, Edits[n]) = o + 1 .. o + l
    BY <2>4 DEF WrittenTo
  <2>7. PICK w \in Nat : w = at
    OBVIOUS
  <2> HIDE DEF i
  <2>8. ASSUME w + 1 \in o + 1 .. o + l PROVE va \in v .. v + l - 1 /\ (w + 1) - o = (va - v) + 1
    <3>1. PICK q \in Nat : q = (w + 1) - o
      BY <2>8
    <3>2. q \in 1 .. l /\ w = o + q - 1 /\ v + q - 1 \in Nat
      BY <2>8, <3>1
    <3>3. PICK x \in Nat : x = v + q - 1
      BY <3>2
    <3>4. Backing(i, x) = w
      BY <2>5, <3>2, <3>3
    <3>5. x = va
      BY <2>7, <3>4, BackingOnce DEF i
    <3>6. QED
      BY ONLY <3>1, <3>2, <3>3, <3>5, o \in Nat, w \in Nat, v \in Nat, l \in Nat
  <2>9. ASSUME va \in v .. v + l - 1 PROVE w + 1 \in o + 1 .. o + l
    <3>1. PICK q \in Nat : q = (va - v) + 1
      BY <2>9
    <3>2. q \in 1 .. l /\ va = v + q - 1
      BY <2>9, <3>1
    <3>3. w = o + q - 1
      BY <2>5, <2>7, <3>2
    <3>4. QED
      BY ONLY <3>2, <3>3, o \in Nat, w \in Nat, l \in Nat
  <2> HIDE DEF at
  <2>10. QED
    BY <2>4, <2>6, <2>7, <2>8, <2>9
<1>2. Hits(i, at + 1) = here
  <2> HIDE DEF at
  <2>1. QED
    BY <1>1 DEF Hits
<1> DEFINE last == CHOOSE n \in here : \A m \in here : m <= n
<1>3. LastHit(i, at + 1) = last
  BY <1>2 DEF LastHit
<1>4. UnitAt(i, at + 1) = IF here = {} THEN i.bytes[at + 1]
                          ELSE Edits[last].units[(at + 1) - VaToOffset(i, Edits[last].va)]
  BY <1>2, <1>3 DEF UnitAt
<1>5. WithEdits(i, Edits, va) = IF here = {} THEN LoadsAt(i, va) ELSE Edits[last].units[(va - Edits[last].va) + 1]
  BY DEF WithEdits
<1>6. LoadsAt(i, va) = i.bytes[at + 1]
  BY DEF LoadsAt
<1>7. here # {} => last \in here
  <2>1. here \subseteq 1 .. Len(Edits) /\ Len(Edits) \in Nat
    BY DEF FileAssumption
  <2> HIDE DEF here, last
  <2>2. here # {} => \E n \in here : \A m \in here : m <= n
    BY ONLY <2>1, GreatestExists
  <2>3. QED
    BY <2>2 DEF last
<1>8. here # {} => last \in DOMAIN Edits /\ (at + 1) - VaToOffset(i, Edits[last].va) = (va - Edits[last].va) + 1
  BY <1>1, <1>7
<1> HIDE DEF here, last, at, i
<1>9. QED
  BY <1>4, <1>5, <1>6, <1>8 DEF at, i

(* What one patched image has to be.                                       *)
Sound(image) ==
    LET stock == Stock(image.build)
    IN  AlreadyPatched(image) /\ Backed(stock) =>
            /\ SectionsApart(image)
            /\ Imports(image) = Append(Imports(stock), NewImport)
            /\ \A n \in 1 .. Len(Imports(image)) :
                    LoadsAt(image, image.imports + n - 1) = Imports(image)[n]
            /\ \E edits \in {Edits, << >>} : \A va \in 0 .. stock.top - 1 :
                    LoadsAt(image, va) = WithEdits(stock, edits, va)

LEMMA MarkedSound ==
    ASSUME FileAssumption, AlignmentAssumption, LayoutAssumption,
           NEW b \in Builds, NEW p, NEW k, GrownFrom(p, k, b), p.build = b, k.bytes = Stock(b).bytes
    PROVE  Sound(p)
<1> DEFINE i == Stock(b)
<1>1. SameImports(k, b)
  BY DEF SameImports
<1>2. SectionsApart(p)
  BY GrownApart
<1>3. /\ Imports(p) = Append(Imports(i), NewImport)
      /\ \A n \in 1 .. Len(Imports(p)) : LoadsAt(p, p.imports + n - 1) = Imports(p)[n]
  BY <1>1, NewImports
<1>4. ASSUME NEW va \in 0 .. i.top - 1
      PROVE  LoadsAt(p, va) = WithEdits(i, << >>, va)
  <2>1. LoadsAt(p, va) = IF Backing(i, va) = 0 THEN Zero ELSE k.bytes[Backing(i, va) + 1]
    BY OldLoads
  <2>2. LoadsAt(p, va) = LoadsAt(i, va)
    BY <2>1 DEF LoadsAt
  <2>3. WithEdits(i, << >>, va) = LoadsAt(i, va)
    <3> DEFINE here == {n \in DOMAIN << >> : va \in << >>[n].va .. << >>[n].va + Len(<< >>[n].units) - 1}
    <3>1. here = {}
      OBVIOUS
    <3>2. QED
      BY <3>1, Zenon DEF WithEdits
  <2>4. QED
    BY <2>2, <2>3
<1>5. QED
  BY <1>2, <1>3, <1>4 DEF Sound

LEMMA EditedSound ==
    ASSUME FileAssumption, AlignmentAssumption, LayoutAssumption,
           NEW b \in Builds, NEW p, NEW k, GrownFrom(p, k, b), p.build = b, k.bytes = Rewritten(Stock(b))
    PROVE  Sound(p)
<1> SUFFICES ASSUME Backed(Stock(b)) PROVE Sound(p)
  BY DEF Sound
<1> DEFINE i == Stock(b)
           offset == VaToOffset(i, i.imports)
<1>0. i \in Images /\ i.bytes \in Seq(Units) /\ i.imports \in Nat
  BY StockImages DEF Images
<1>1. SameImports(k, b)
  <2>1. offset \in Nat
    BY <1>0, OffsetInFile
  <2>2. PICK l \in Nat : l = Len(i.bytes)
    BY <1>0
  <2>3. \A n \in DOMAIN Edits :
            WrittenTo(i, Edits[n]) \cap (offset + 1 .. offset + Len(Imports(i)) + 1) = {}
    BY DEF LayoutAssumption, Stock
  <2>4. Imports(i) \in Seq(Units)
    <3>1. k.imports = i.imports /\ k.sections = i.sections /\ Importable(k) /\ Len(k.bytes) = Len(i.bytes)
      BY DEF GrownFrom, Grown
    <3>2. offset <= Len(i.bytes)
      <4>1. VaToOffset(k, k.imports) = offset
        BY <3>1, OffsetByLayout
      <4>2. ~(offset + 1 > Len(i.bytes))
        BY <3>1, <4>1 DEF Importable
      <4> HIDE DEF offset, i
      <4>3. QED
        BY ONLY <2>1, <2>2, <4>2
    <3>3. QED
      BY <1>0, <2>1, <3>2, DescriptorsList DEF Imports
  <2>5. PICK d \in Nat : d = Len(Imports(i))
    BY <2>4
  <2>6. ASSUME NEW n \in 1 .. d + 1, offset + n <= l
        PROVE  k.bytes[offset + n] = i.bytes[offset + n]
    <3>1. offset + n \in 1 .. l /\ offset + n \in offset + 1 .. offset + d + 1
      BY ONLY <2>1, <2>6, l \in Nat, d \in Nat
    <3>2. offset + n \in DOMAIN i.bytes
      BY <1>0, <2>2, <3>1
    <3>3. Hits(i, offset + n) = {}
      BY <2>3, <2>5, <3>1 DEF Hits
    <3>4. UnitAt(i, offset + n) = i.bytes[offset + n]
      BY <3>3 DEF UnitAt
    <3>5. Rewritten(i)[offset + n] = UnitAt(i, offset + n)
      BY <3>2 DEF Rewritten
    <3>6. QED
      BY <3>4, <3>5
  <2> HIDE DEF offset, i
  <2>7. \A n \in 1 .. Len(Imports(i)) + 1 :
            offset + n <= Len(i.bytes) => k.bytes[offset + n] = i.bytes[offset + n]
    BY <2>2, <2>5, <2>6
  <2>8. QED
    BY <2>7 DEF SameImports, offset, i
<1>2. SectionsApart(p)
  BY GrownApart
<1>3. /\ Imports(p) = Append(Imports(i), NewImport)
      /\ \A n \in 1 .. Len(Imports(p)) : LoadsAt(p, p.imports + n - 1) = Imports(p)[n]
  BY <1>1, NewImports
<1>4. ASSUME NEW va \in 0 .. i.top - 1
      PROVE  LoadsAt(p, va) = WithEdits(i, Edits, va)
  <2> DEFINE at == Backing(i, va)
  <2>1. /\ at \in Nat
        /\ at # 0 => at + 1 \in DOMAIN i.bytes
        /\ LoadsAt(p, va) = IF at = 0 THEN Zero ELSE k.bytes[at + 1]
    BY OldLoads
  <2>2. va \in Nat
    <3>1. i.top \in Nat
      BY <1>0 DEF Images
    <3>2. QED
      BY <3>1
  <2>3. CASE at # 0
    <3>1. UnitAt(i, at + 1) = WithEdits(i, Edits, va)
      BY <2>1, <2>2, <2>3, UnitPlaced
    <3>2. k.bytes[at + 1] = UnitAt(i, at + 1)
      BY <2>1, <2>3 DEF Rewritten
    <3>3. QED
      BY <2>1, <2>3, <3>1, <3>2
  <2>4. CASE at = 0
    <3> DEFINE here == {n \in DOMAIN Edits : va \in Edits[n].va .. Edits[n].va + Len(Edits[n].units) - 1}
    <3>1. ASSUME NEW n \in here PROVE FALSE
      <4>1. Edits[n].va \in Nat /\ Edits[n].units \in Seq(Units)
        <5>1. Edits \in Seq([va : Nat, units : Seq(Units)])
          BY DEF FileAssumption
        <5>2. Edits[n] \in [va : Nat, units : Seq(Units)]
          BY <3>1, <5>1, ElementOf
        <5>3. QED
          BY <5>2
      <4>2. PICK v \in Nat, l \in Nat : v = Edits[n].va /\ l = Len(Edits[n].units)
        BY <4>1
      <4>3. va \in v .. v + l - 1
        BY <3>1, <4>2
      <4>4. PICK q \in Nat : q = (va - v) + 1
        BY <4>3
      <4>5. q \in 1 .. l /\ v + q - 1 = va
        BY <2>2, <4>3, <4>4
      <4>6. q \in 1 .. Len(Edits[n].units)
        BY ONLY <4>2, <4>5
      <4>7. Backing(i, Edits[n].va + q - 1) # 0
        BY <3>1, <4>6, EditPlaced
      <4>8. Backing(i, v + q - 1) # 0
        BY ONLY <4>2, <4>7
      <4>9. QED
        BY <2>4, <4>5, <4>8
    <3>2. here = {}
      BY <3>1
    <3>3. WithEdits(i, Edits, va) = LoadsAt(i, va)
      BY <3>2, Zenon DEF WithEdits
    <3>4. QED
      BY <2>1, <2>4, <3>3 DEF LoadsAt
  <2>5. QED
    BY <2>3, <2>4
<1>5. QED
  BY <1>2, <1>3, <1>4 DEF Sound

LEMMA AddedGrown ==
    ASSUME FileAssumption, AlignmentAssumption, NEW b \in Builds, NEW k \in Images,
           k.sections = Stock(b).sections, k.imports = Stock(b).imports, Len(k.bytes) = Len(Stock(b).bytes),
           AddImport(k) # Failed, NEW p \in Images,
           p.sections = AddImport(k).sections, p.imports = AddImport(k).imports,
           p.top = AddImport(k).top, p.bytes = AddImport(k).bytes
    PROVE  GrownFrom(p, k, b)
<1>1. ~HasSection(k, Tag)
  BY StockImages DEF AlreadyPatched, HasSection
<1> DEFINE e == AddImport(k)
<1>2. Importable(k)
  BY <1>1, ImportAdded
<1>3. /\ e.sections = Append(k.sections, ImportSection(k)) /\ e.imports = SectionVa(k)
      /\ e.top = AlignUp(ImportSection(k).va + ImportSection(k).vsize, SectionAlignment)
      /\ e.bytes = ImportBytes(k)
  <2> HIDE DEF e
  <2>1. \A j : j = AddImport(k) =>
          /\ j.sections = Append(k.sections, ImportSection(k)) /\ j.imports = SectionVa(k)
          /\ j.top = AlignUp(ImportSection(k).va + ImportSection(k).vsize, SectionAlignment)
          /\ j.bytes = ImportBytes(k)
    BY <1>1, <1>2, ImportAdded
  <2>2. QED
    BY <2>1 DEF e
<1>4. k.sections # << >>
  <2>1. k.imports \in Nat
    BY DEF Images
  <2>2. VaToOffset(k, k.imports) # 0
    BY <1>2 DEF Importable
  <2>3. QED
    BY <2>1, <2>2, OffsetInFile
<1>5. QED
  BY <1>2, <1>3, <1>4 DEF GrownFrom, Grown

LEMMA ExecutablesSound ==
    ASSUME FileAssumption, AlignmentAssumption, LayoutAssumption, NEW x \in Executables
    PROVE  Sound(x)
<1> DEFINE patched == {Edited(y) : y \in Stocks} \cup {EarlierPatch(b) : b \in Builds}
           either == Stocks \cup (patched \ {Failed})
           Alike(p, q) == /\ p.build = q.build /\ p.sections = q.sections /\ p.imports = q.imports
                          /\ p.top = q.top /\ p.bytes = q.bytes
<1>1. x \in either \cup {LargeSet(y) : y \in either} /\ x \in Images
  <2>1. Executables = either \cup {LargeSet(y) : y \in either}
    BY DEF Executables, Stocks
  <2>2. QED
    BY <2>1, ExecutablesKnown
<1>2. \A y \in Stocks : y \in Images /\ ~AlreadyPatched(y)
  BY StockImages DEF Stocks
<1>3. \A y \in either : y \in Images
  BY <1>2, EditedKnown, EarlierKnown
<1>4. PICK y \in either : Alike(x, y)
  <2>1. CASE x \in either
    BY <2>1
  <2>2. CASE \E y \in either : x = LargeSet(y)
    <3>1. PICK y \in either : x = LargeSet(y)
      BY <2>2
    <3>2. y \in Images
      BY <1>3
    <3>3. Alike(x, y)
      BY <3>1, <3>2, LargeIsSet
    <3>4. QED
      BY <3>3
  <2>3. QED
    BY <1>1, <2>1, <2>2
<1>5. CASE y \in Stocks
  <2>1. ~AlreadyPatched(x)
    BY <1>2, <1>4, <1>5 DEF AlreadyPatched, HasSection
  <2>2. QED
    BY <2>1 DEF Sound
<1>6. CASE \E b \in Builds : y = EarlierPatch(b) /\ y # Failed
  <2>1. PICK b \in Builds : y = EarlierPatch(b) /\ y # Failed
    BY <1>6
  <2>2. Stock(b) \in Images /\ EarlierPatch(b).build = b /\ EarlierPatch(b) = AddImport(Stock(b))
    BY <2>1, StockImages, EarlierKnown DEF EarlierPatch
  <2>3. GrownFrom(x, Stock(b), b)
    BY <1>1, <1>4, <2>1, <2>2, AddedGrown
  <2>4. x.build = b
    BY <1>4, <2>1, <2>2
  <2>5. QED
    BY <2>3, <2>4, MarkedSound
<1>7. CASE \E z \in Stocks : y = Edited(z) /\ y # Failed
  <2>1. PICK b \in Builds : y = Edited(Stock(b)) /\ y # Failed
    BY <1>7 DEF Stocks
  <2> DEFINE i == Stock(b)
             k == ApplyScripts(i, Edits)
  <2>2. i \in Images /\ i.build = b /\ ~AlreadyPatched(i)
    BY StockImages
  <2>3. k # Failed /\ y = AddImport(k)
    BY <2>1 DEF Edited
  <2>4. k \in Images /\ k.bytes = Rewritten(i) /\ k.sections = i.sections /\ k.imports = i.imports
    BY <2>2, <2>3, ScriptsApplied
  <2>5. Len(k.bytes) = Len(i.bytes)
    BY <2>2, <2>4, RewrittenUnits
  <2> HIDE DEF k
  <2>6. GrownFrom(x, k, b)
    BY <1>1, <1>4, <2>1, <2>3, <2>4, <2>5, AddedGrown
  <2>7. x.build = b
    BY <1>4, <2>1, <2>2, EditedKnown
  <2>8. QED
    BY <2>4, <2>6, <2>7, EditedSound
<1>8. QED
  BY <1>5, <1>6, <1>7

(* What the patcher writes can be loaded and is the client it was          *)
(* (PeImage.cpp:142-216): for every build laid out as assumed, all         *)
(* alignments and all edits of what is loaded from the file, the sections  *)
(* lie apart, the imports are the old ones and the new one, and every      *)
(* address of the build has its own unit or the last edit's.               *)
THEOREM PatchedImagesSoundAlways == PatcherSpec => []PatchedImagesSound
<1>1. \A x \in Executables : Sound(x)
  BY ExecutablesSound, FileAssumption, AlignmentAssumption, LayoutAssumption
<1>2. PatchedImagesSound
  BY <1>1 DEF PatchedImagesSound, Sound
<1>3. QED
  BY <1>2, PTL

HIDE StorageAssumption DEF StorageAssumption

-----------------------------------------------------------------------------
(* The texture converters: sizes of levels, and what appending a level does *)
(* to a file.                                                               *)

LEMMA TwoToNatural ==
    ASSUME NEW i \in 0 .. 15
    PROVE  TwoTo[i + 1] \in Nat \ {0}
  BY DEF TwoTo

LEMMA TwoToAdds ==
    ASSUME NEW d \in 0 .. 15, NEW i \in 0 .. 15, d + i <= 15
    PROVE  TwoTo[d + i + 1] = TwoTo[d + 1] * TwoTo[i + 1]
<1>1. CASE d = 0
  BY <1>1 DEF TwoTo
<1>2. CASE d = 1
  BY <1>2 DEF TwoTo
<1>3. CASE d = 2
  BY <1>3 DEF TwoTo
<1>4. CASE d = 3
  BY <1>4 DEF TwoTo
<1>5. CASE d = 4
  BY <1>5 DEF TwoTo
<1>6. CASE d = 5
  BY <1>6 DEF TwoTo
<1>7. CASE d = 6
  BY <1>7 DEF TwoTo
<1>8. CASE d = 7
  BY <1>8 DEF TwoTo
<1>9. CASE d \in 8 .. 11
  BY <1>9 DEF TwoTo
<1>10. CASE d \in 12 .. 15
  BY <1>10 DEF TwoTo
<1>11. QED
  BY <1>1, <1>2, <1>3, <1>4, <1>5, <1>6, <1>7, <1>8, <1>9, <1>10

LEMMA DivDiv ==
    ASSUME NEW x \in Nat, NEW a \in Nat \ {0}, NEW b \in Nat \ {0}
    PROVE  (x \div a) \div b = x \div (a * b)
  OBVIOUS

LEMMA HalfNatural ==
    ASSUME NEW x \in Nat, NEW i \in 0 .. 15
    PROVE  Half(x, i) \in Nat \ {0}
<1>1. x \div TwoTo[i + 1] \in Nat
  BY TwoToNatural
<1>2. QED
  BY <1>1 DEF Half, Shift, Larger

(* Half of a half: the levels of a file without its first levels.          *)
LEMMA HalfHalf ==
    ASSUME NEW x \in Nat, NEW d \in 0 .. 15, NEW i \in 0 .. 15, d + i <= 15
    PROVE  Half(Half(x, d), i) = Half(x, d + i)
<1> DEFINE a == TwoTo[d + 1]
           b == TwoTo[i + 1]
           y == x \div a
<1>1. a \in Nat \ {0} /\ b \in Nat \ {0}
  BY TwoToNatural
<1>2. TwoTo[d + i + 1] = a * b
  BY TwoToAdds
<1> HIDE DEF a, b
<1>3. y \in Nat /\ y \div b = x \div (a * b)
  BY <1>1, DivDiv
<1>4. Half(x, d) = Larger(1, y) /\ Half(x, d + i) = Larger(1, x \div (a * b))
  BY <1>2 DEF Half, Shift, a, b
<1> HIDE DEF y
<1>5. Half(Half(x, d), i) = Larger(1, Larger(1, y) \div b)
  BY <1>4 DEF Half, Shift, b
<1>6. CASE y = 0
  <2>1. Larger(1, y) = 1 /\ y \div b = 0
    BY <1>1, <1>6 DEF Larger
  <2>2. 1 \div b <= 1
    BY <1>1
  <2>3. 1 \div b \in Nat
    BY <1>1
  <2>4. QED
    BY <1>3, <1>4, <1>5, <2>1, <2>2, <2>3 DEF Larger
<1>7. CASE y # 0
  <2>1. Larger(1, y) = y
    BY <1>3, <1>7 DEF Larger
  <2>2. QED
    BY <1>3, <1>4, <1>5, <2>1
<1>8. QED
  BY <1>6, <1>7

LEMMA BlocksPositive ==
    ASSUME NEW x \in Nat \ {0}
    PROVE  Blocks(x) \in Nat \ {0}
  BY DEF Blocks

LEMMA ProductPositive ==
    ASSUME NEW x \in Nat \ {0}, NEW y \in Nat \ {0}
    PROVE  x * y \in Nat \ {0}
  OBVIOUS

LEMMA BytesPositive ==
    ASSUME NEW enc \in Compressed \cup {"bgra", "bgr", "paletted"}, NEW dims, 
           dims[1] \in Nat \ {0}, dims[2] \in Nat \ {0}
    PROVE  BytesOf(enc, dims) \in Nat \ {0}
<1>1. Blocks(dims[1]) * Blocks(dims[2]) \in Nat \ {0} /\ dims[1] * dims[2] \in Nat \ {0}
  BY BlocksPositive, ProductPositive
<1>2. BlockBytes(enc) \in Nat \ {0}
  BY DEF BlockBytes
<1>3. CASE enc \in {"dxt1", "dxt3", "dxt5"}
  <2>1. BytesOf(enc, dims) = Blocks(dims[1]) * Blocks(dims[2]) * BlockBytes(enc)
    BY <1>3 DEF BytesOf
  <2> HIDE DEF BytesOf
  <2>2. QED
    BY <1>1, <1>2, <2>1, ProductPositive
<1>4. CASE enc = "bgra"
  BY <1>1, <1>4 DEF BytesOf
<1>5. CASE enc = "bgr"
  BY <1>1, <1>5 DEF BytesOf
<1>6. CASE enc = "paletted"
  BY <1>1, <1>6 DEF BytesOf
<1>7. QED
  BY <1>3, <1>4, <1>5, <1>6 DEF Compressed

-----------------------------------------------------------------------------
(* What a converter has written so far: levels one behind the other.        *)
Written(f) ==
    /\ f \in BlpRecords /\ f.converted /\ Header <= f.n
    /\ \A p \in f.pieces : p.at < f.n
    /\ \A p, q \in f.pieces : p.at = q.at => p = q
    /\ \A i \in Entries :
         IF f.size[i] = 0 THEN f.off[i] = 0
         ELSE /\ f.size[0] # 0 /\ Header <= f.off[i] /\ Inside(f, i)
              /\ f.size[i] = BytesOf(f.enc, At(f, i))
              /\ [at |-> f.off[i], dims |-> At(f, i)] \in f.pieces
              /\ \A j \in Entries : j # i /\ f.size[j] # 0 =>
                    f.off[j] + f.size[j] <= f.off[i] \/ f.off[i] + f.size[i] <= f.off[j]

LEMMA EntriesBounded == Entries \subseteq 0 .. 15 /\ 0 \in Entries /\ Levels \in Nat
  BY LevelsAssumption DEF Entries

LEMMA AtPositive ==
    ASSUME NEW f, f.w \in Nat, f.h \in Nat, NEW i \in 0 .. 15
    PROVE  At(f, i)[1] \in Nat \ {0} /\ At(f, i)[2] \in Nat \ {0} /\ At(f, i) \in Nat \X Nat
  BY HalfNatural DEF At

LEMMA PieceShown ==
    ASSUME NEW f, NEW p \in f.pieces, \A q \in f.pieces : q.at = p.at => q = p
    PROVE  Shows(f, p.at) = p.dims
  BY DEF Shows

LEMMA WrittenIsBlp ==
    ASSUME NEW f, Written(f), f.whole => f.size[0] # 0
    PROVE  IsBlp(f)
<1>1. ASSUME NEW i \in Entries, f.size[i] # 0
      PROVE  IsLevel(f, i)
  <2> DEFINE p == [at |-> f.off[i], dims |-> At(f, i)]
  <2>1. p \in f.pieces /\ p.at = f.off[i] /\ p.dims = At(f, i)
    BY <1>1 DEF Written
  <2>2. Shows(f, p.at) = p.dims
    BY <2>1, PieceShown DEF Written
  <2>3. QED
    BY <1>1, <2>1, <2>2 DEF IsLevel, Written
<1>2. QED
  BY <1>1 DEF IsBlp, Written

LEMMA StartedWritten ==
    ASSUME NEW enc \in Compressed \cup {"bgra", "bgr", "paletted"}, NEW w \in Nat \ {0}, NEW h \in Nat \ {0},
           NEW start \in Nat, Header <= start, asset.whole \in BOOLEAN
    PROVE  /\ Written(Started(enc, w, h, start))
           /\ Started(enc, w, h, start).whole = asset.whole
           /\ Started(enc, w, h, start).enc = enc
           /\ Started(enc, w, h, start).w = w /\ Started(enc, w, h, start).h = h
           /\ \A i \in Entries : Started(enc, w, h, start).size[i] = 0
<1> DEFINE f == Started(enc, w, h, start)
<1>1. f \in BlpRecords
  BY DEF BlpRecords, Started, NoLevels
<1>2. /\ f.converted /\ f.n = start /\ f.pieces = {} /\ \A i \in Entries : f.size[i] = 0 /\ f.off[i] = 0
      /\ f.whole = asset.whole /\ f.enc = enc /\ f.w = w /\ f.h = h
  BY DEF Started, NoLevels
<1> HIDE DEF f
<1>3. Written(f)
  BY <1>1, <1>2 DEF Written
<1>4. QED
  BY <1>2, <1>3 DEF f

LEMMA AppendedFields ==
    ASSUME NEW f \in BlpRecords, NEW i \in Entries, NEW dims \in Nat \X Nat, NEW bytes \in Nat
    PROVE  LET g == Appended(f, i, dims, bytes) IN
           /\ g \in BlpRecords
           /\ g.converted = f.converted /\ g.whole = f.whole /\ g.enc = f.enc /\ g.w = f.w /\ g.h = f.h
           /\ g.off = [f.off EXCEPT ![i] = f.n] /\ g.size = [f.size EXCEPT ![i] = bytes]
           /\ g.n = f.n + bytes /\ g.pieces = f.pieces \cup {[at |-> f.n, dims |-> dims]}
<1> DEFINE g == Appended(f, i, dims, bytes)
<1>1. /\ g.converted = f.converted /\ g.whole = f.whole /\ g.enc = f.enc /\ g.w = f.w /\ g.h = f.h
      /\ g.off = [f.off EXCEPT ![i] = f.n] /\ g.size = [f.size EXCEPT ![i] = bytes]
      /\ g.n = f.n + bytes /\ g.pieces = f.pieces \cup {[at |-> f.n, dims |-> dims]}
  BY DEF Appended, BlpRecords
<1>2. /\ f.off \in [Entries -> Nat] /\ f.size \in [Entries -> Nat] /\ f.n \in Nat
      /\ f.pieces \in SUBSET [at : Nat, dims : Nat \X Nat]
  BY DEF BlpRecords
<1>3. /\ [f.off EXCEPT ![i] = f.n] \in [Entries -> Nat] /\ [f.size EXCEPT ![i] = bytes] \in [Entries -> Nat]
      /\ f.n + bytes \in Nat
      /\ f.pieces \cup {[at |-> f.n, dims |-> dims]} \in SUBSET [at : Nat, dims : Nat \X Nat]
  BY <1>2
<1>4. g \in BlpRecords
  <2>1. g = [f EXCEPT !.off = [f.off EXCEPT ![i] = f.n], !.size = [f.size EXCEPT ![i] = bytes],
                      !.n = f.n + bytes, !.pieces = f.pieces \cup {[at |-> f.n, dims |-> dims]}]
    BY <1>2 DEF Appended, BlpRecords
  <2> HIDE DEF g
  <2>2. QED
    BY ONLY <2>1, <1>3, f \in BlpRecords DEF BlpRecords
<1>5. QED
  BY <1>1, <1>4

LEMMA AppendedWritten ==
    ASSUME NEW f, Written(f), NEW i \in Entries, f.size[i] = 0, i = 0 \/ f.size[0] # 0
    PROVE  LET g == Appended(f, i, At(f, i), BytesOf(f.enc, At(f, i))) IN
           /\ Written(g) /\ g.size[0] # 0 /\ g.whole = f.whole
           /\ g.enc = f.enc /\ g.w = f.w /\ g.h = f.h
           /\ \A j \in Entries : j # i => g.size[j] = f.size[j]
<1> DEFINE dims == At(f, i)
           bytes == BytesOf(f.enc, At(f, i))
           g == Appended(f, i, dims, bytes)
           p == [at |-> f.n, dims |-> dims]
<1>1. /\ f \in BlpRecords /\ f.enc \in Compressed \cup {"bgra", "bgr", "paletted"} /\ f.w \in Nat \ {0}
      /\ f.h \in Nat \ {0} /\ f.n \in Nat /\ f.off \in [Entries -> Nat] /\ f.size \in [Entries -> Nat]
      /\ f.pieces \subseteq [at : Nat, dims : Nat \X Nat]
  BY DEF Written, BlpRecords
<1>2. dims \in Nat \X Nat /\ bytes \in Nat \ {0}
  BY <1>1, AtPositive, EntriesBounded, BytesPositive
<1>3. /\ g \in BlpRecords
      /\ g.converted = f.converted /\ g.whole = f.whole /\ g.enc = f.enc /\ g.w = f.w /\ g.h = f.h
      /\ g.off = [f.off EXCEPT ![i] = f.n] /\ g.size = [f.size EXCEPT ![i] = bytes]
      /\ g.n = f.n + bytes /\ g.pieces = f.pieces \cup {p}
  BY <1>1, <1>2, AppendedFields
<1>4. \A j \in Entries : At(g, j) = At(f, j)
  BY <1>3 DEF At
<1>5. p.at = f.n /\ p.dims = dims
  OBVIOUS
<1>6. \A q \in f.pieces : q.at \in Nat /\ q.at < f.n
  BY <1>1 DEF Written
<1> HIDE DEF dims, bytes, g, p
<1>7. \A q \in g.pieces : q.at < g.n
  BY <1>1, <1>2, <1>3, <1>5, <1>6
<1>8. \A q, r \in g.pieces : q.at = r.at => q = r
  <2>1. \A q, r \in f.pieces : q.at = r.at => q = r
    BY DEF Written
  <2>2. QED
    BY <1>1, <1>3, <1>5, <1>6, <2>1
<1>9. g.size[0] # 0 /\ g.off[i] = f.n /\ g.size[i] = bytes
      /\ \A j \in Entries : j # i => g.size[j] = f.size[j] /\ g.off[j] = f.off[j]
  BY <1>1, <1>2, <1>3, EntriesBounded
<1>10. \A j \in Entries : f.size[j] # 0 => f.off[j] + f.size[j] <= f.n /\ j # i
  BY DEF Written, Inside
<1>11. ASSUME NEW j \in Entries, g.size[j] = 0
       PROVE  g.off[j] = 0
  BY <1>2, <1>9, <1>11 DEF Written
<1>12. ASSUME NEW j \in Entries, g.size[j] # 0
       PROVE  /\ Header <= g.off[j] /\ Inside(g, j)
              /\ g.size[j] = BytesOf(g.enc, At(g, j))
              /\ [at |-> g.off[j], dims |-> At(g, j)] \in g.pieces
              /\ \A k \in Entries : k # j /\ g.size[k] # 0 =>
                    g.off[k] + g.size[k] <= g.off[j] \/ g.off[j] + g.size[j] <= g.off[k]
  <2>1. CASE j = i
    <3>1. Header <= g.off[j] /\ Inside(g, j)
      BY <1>1, <1>2, <1>3, <1>9, <2>1 DEF Inside, Written
    <3>2. g.size[j] = BytesOf(g.enc, At(g, j)) /\ [at |-> g.off[j], dims |-> At(g, j)] \in g.pieces
      BY <1>3, <1>4, <1>9, <2>1 DEF bytes, dims, p
    <3>3. \A k \in Entries : k # j /\ g.size[k] # 0 => g.off[k] + g.size[k] <= g.off[j]
      BY <1>9, <1>10, <2>1
    <3>4. QED
      BY <3>1, <3>2, <3>3
  <2>2. CASE j # i
    <3>1. f.size[j] # 0 /\ g.size[j] = f.size[j] /\ g.off[j] = f.off[j]
      BY <1>9, <1>12, <2>2
    <3>2. /\ Header <= f.off[j] /\ f.off[j] + f.size[j] <= f.n
          /\ f.size[j] = BytesOf(f.enc, At(f, j)) /\ [at |-> f.off[j], dims |-> At(f, j)] \in f.pieces
      BY <3>1 DEF Written, Inside
    <3>3. Header <= g.off[j] /\ Inside(g, j)
      BY <1>1, <1>2, <1>3, <3>1, <3>2 DEF Inside
    <3>4. g.size[j] = BytesOf(g.enc, At(g, j)) /\ [at |-> g.off[j], dims |-> At(g, j)] \in g.pieces
      BY <1>3, <1>4, <3>1, <3>2
    <3>5. ASSUME NEW k \in Entries, k # j, g.size[k] # 0
          PROVE  g.off[k] + g.size[k] <= g.off[j] \/ g.off[j] + g.size[j] <= g.off[k]
      <4>1. CASE k = i
        BY <1>9, <3>1, <3>2, <4>1
      <4>2. CASE k # i
        <5>1. g.size[k] = f.size[k] /\ g.off[k] = f.off[k] /\ f.size[k] # 0
          BY <1>9, <3>5, <4>2
        <5>2. f.off[k] + f.size[k] <= f.off[j] \/ f.off[j] + f.size[j] <= f.off[k]
          BY <3>1, <3>5, <5>1 DEF Written
        <5>3. QED
          BY <3>1, <5>1, <5>2
      <4>3. QED
        BY <4>1, <4>2
    <3>6. QED
      BY <3>3, <3>4, <3>5
  <2>3. QED
    BY <2>1, <2>2
<1>13. g.converted /\ Header <= g.n
  BY <1>1, <1>2, <1>3 DEF Written, Header
<1>14. Written(g)
  BY <1>3, <1>7, <1>8, <1>9, <1>11, <1>12, <1>13 DEF Written
<1>15. QED
  BY <1>3, <1>9, <1>14 DEF g, dims, bytes
-----------------------------------------------------------------------------
(* The conversion under way: what its output holds, and which level of the  *)
(* source comes next.                                                       *)
Converting ==
    /\ done < MaxConversions /\ job.level \in Nat
    /\ Written(job.out) /\ job.out.whole = asset.whole
    /\ \A i \in Entries : i >= job.level => job.out.size[i] = 0
    /\ job.level > 0 => job.out.size[0] # 0
CapJob ==
    /\ job.kind = "cap" /\ asset.format = "blp" /\ job.more \in Entries
    /\ Holds(asset, job.more) /\ Inside(asset, job.more)
    /\ job.out.enc = asset.enc /\ job.out.w = Half(asset.w, job.more) /\ job.out.h = Half(asset.h, job.more)
TranscodeJob ==
    /\ job.kind = "transcode" /\ asset.format = "blp" /\ Holds(asset, 0)
    /\ job.out.enc = "dxt5" /\ job.out.w = asset.w /\ job.out.h = asset.h
DdsJob ==
    /\ job.kind = "dds" /\ asset.format = "dds"
    /\ job.out.w = asset.w /\ job.out.h = asset.h
    /\ job.level <= Mips(asset) /\ job.more = asset.starts[job.level]
ComponentJob ==
    /\ job.kind = "component" /\ asset.format = "blp"
    /\ job.out.enc = "paletted" /\ job.more = <<job.out.w, job.out.h>>

AssetInv == IF asset.format = "blp" THEN IsBlp(asset) /\ (asset.converted => Written(asset))
            ELSE IsDds(asset)
FilesInv ==
    /\ AssetInv /\ done \in 0 .. MaxConversions
    /\ \/ job = NoJob
       \/ Converting /\ (CapJob \/ TranscodeJob \/ DdsJob \/ ComponentJob)
    /\ texture.shows # texture.dims => texture.enc = "bgra"

LEMMA FilesInvImplies == FilesInv => LevelsArePictures
<1> SUFFICES ASSUME FilesInv PROVE LevelsArePictures
  OBVIOUS
<1>1. asset.format \in {"blp", "dds"}
  BY DEF FilesInv, AssetInv, IsDds, DdsRecords
<1>2. job.kind \in {"none", "cap", "transcode", "dds", "component"}
  BY DEF FilesInv, NoJob, CapJob, TranscodeJob, DdsJob, ComponentJob
<1>3. ASSUME asset.converted
      PROVE  /\ asset.whole => asset.size[0] # 0
             /\ \A i \in Entries : asset.size[i] # 0 =>
                  /\ Header <= asset.off[0] /\ Inside(asset, i)
                  /\ Shows(asset, asset.off[i]) = At(asset, i)
                  /\ asset.size[i] = BytesOf(asset.enc, At(asset, i))
                  /\ \A j \in Entries : j # i /\ asset.size[j] # 0 =>
                         asset.off[j] + asset.size[j] <= asset.off[i] \/ asset.off[i] + asset.size[i] <= asset.off[j]
  <2>1. IsBlp(asset) /\ Written(asset)
    BY <1>3 DEF FilesInv, AssetInv, IsDds, DdsRecords
  <2>2. ASSUME NEW i \in Entries, asset.size[i] # 0
        PROVE  /\ Header <= asset.off[0] /\ Inside(asset, i)
               /\ Shows(asset, asset.off[i]) = At(asset, i)
               /\ asset.size[i] = BytesOf(asset.enc, At(asset, i))
               /\ \A j \in Entries : j # i /\ asset.size[j] # 0 =>
                      asset.off[j] + asset.size[j] <= asset.off[i] \/ asset.off[i] + asset.size[i] <= asset.off[j]
    <3>1. asset.size[0] # 0 /\ Inside(asset, i)
      BY <2>1, <2>2 DEF Written
    <3>2. IsLevel(asset, 0) /\ IsLevel(asset, i)
      BY <2>1, <2>2, <3>1, EntriesBounded DEF IsBlp
    <3>3. QED
      BY <2>1, <2>2, <3>1, <3>2 DEF IsLevel, Written
  <2>3. QED
    BY <2>1, <2>2 DEF IsBlp
<1>4. QED
  BY <1>1, <1>2, <1>3 DEF FilesInv, LevelsArePictures, FilesTypeOK

LEMMA FilesStart == FilesInit => FilesInv
<1> SUFFICES ASSUME FilesInit PROVE FilesInv
  OBVIOUS
<1>1. AssetInv
  BY SourcesAssumption DEF FilesInit, AssetInv
<1>2. done \in 0 .. MaxConversions
  BY LevelsAssumption DEF FilesInit
<1>3. texture.shows = texture.dims
  BY DEF FilesInit, NoTexture
<1>4. QED
  BY <1>1, <1>2, <1>3 DEF FilesInit, FilesInv

LEMMA LevelAt ==
    ASSUME IsBlp(asset), NEW i \in Entries, Holds(asset, i)
    PROVE  IsLevel(asset, i)
  BY DEF IsBlp, Holds

LEMMA BlpTypes ==
    ASSUME NEW f \in BlpRecords
    PROVE  /\ f.enc \in Compressed \cup {"bgra", "bgr", "paletted"} /\ f.w \in Nat \ {0} /\ f.h \in Nat \ {0}
           /\ f.n \in Nat /\ f.off \in [Entries -> Nat] /\ f.size \in [Entries -> Nat] /\ f.whole \in BOOLEAN
           /\ f.format = "blp"
  BY DEF BlpRecords

(* A conversion that starts.                                                *)
LEMMA StartsConverting ==
    ASSUME FilesInv, job = NoJob, done < MaxConversions, asset.whole \in BOOLEAN,
           NEW kind, NEW enc \in Compressed \cup {"bgra", "bgr", "paletted"}, NEW w \in Nat \ {0},
           NEW h \in Nat \ {0}, NEW start \in Nat, Header <= start, NEW more,
           Convert(kind, Started(enc, w, h, start), 0, more)
    PROVE  /\ AssetInv' /\ Converting' /\ done' \in 0 .. MaxConversions
           /\ (texture.shows # texture.dims => texture.enc = "bgra")'
           /\ UNCHANGED asset /\ job'.kind = kind /\ job'.more = more /\ job'.level = 0
           /\ job'.out.enc = enc /\ job'.out.w = w /\ job'.out.h = h
<1> DEFINE f == Started(enc, w, h, start)
<1> HIDE DEF f
<1>1. /\ Written(f) /\ f.whole = asset.whole /\ f.enc = enc /\ f.w = w /\ f.h = h
      /\ \A i \in Entries : f.size[i] = 0
  <2>1. enc \in Compressed \cup {"bgra", "bgr", "paletted"} /\ w \in Nat \ {0} /\ h \in Nat \ {0}
        /\ start \in Nat /\ Header <= start /\ asset.whole \in BOOLEAN
    OBVIOUS
  <2>2. /\ Written(Started(enc, w, h, start))
        /\ Started(enc, w, h, start).whole = asset.whole
        /\ Started(enc, w, h, start).enc = enc
        /\ Started(enc, w, h, start).w = w /\ Started(enc, w, h, start).h = h
        /\ \A i \in Entries : Started(enc, w, h, start).size[i] = 0
    <3>1. Written(Started(enc, w, h, start))
      BY ONLY <2>1, StartedWritten
    <3>2. Started(enc, w, h, start).whole = asset.whole
      BY ONLY <2>1, StartedWritten
    <3>3. Started(enc, w, h, start).enc = enc
      BY ONLY <2>1, StartedWritten
    <3>4. \A i \in Entries : Started(enc, w, h, start).size[i] = 0
      BY ONLY <2>1, StartedWritten
    <3>5. Started(enc, w, h, start).w = w
      BY ONLY <2>1, StartedWritten
    <3>6. Started(enc, w, h, start).h = h
      BY ONLY <2>1, StartedWritten
    <3>7. QED
      BY ONLY <3>1, <3>2, <3>3, <3>4, <3>5, <3>6
  <2>3. QED
    BY <2>2, Zenon DEF f
<1>2. job'.kind = kind /\ job'.out = f /\ job'.level = 0 /\ job'.more = more /\ UNCHANGED <<asset, done, texture>>
  BY DEF Convert, f
<1>3. AssetInv' /\ done' \in 0 .. MaxConversions /\ (texture.shows # texture.dims => texture.enc = "bgra")'
  BY <1>2 DEF FilesInv, AssetInv
<1>4. Converting'
  BY <1>1, <1>2 DEF Converting
<1>5. QED
  BY <1>1, <1>2, <1>3, <1>4

(* A conversion that goes on with a level, or passes one by.                *)
LEMMA GoesOn ==
    ASSUME FilesInv, Converting, NEW more,
           \/ /\ job.level \in Entries
              /\ Convert(job.kind, Appended(job.out, job.level, At(job.out, job.level),
                                            BytesOf(job.out.enc, At(job.out, job.level))), job.level + 1, more)
           \/ job.level > 0 /\ Convert(job.kind, job.out, job.level + 1, more)
    PROVE  /\ AssetInv' /\ Converting' /\ done' \in 0 .. MaxConversions
           /\ (texture.shows # texture.dims => texture.enc = "bgra")'
           /\ UNCHANGED asset /\ job'.kind = job.kind /\ job'.more = more /\ job'.level = job.level + 1
           /\ job'.out.enc = job.out.enc /\ job'.out.w = job.out.w /\ job'.out.h = job.out.h
<1>1. UNCHANGED <<asset, done, texture>> /\ job'.kind = job.kind /\ job'.level = job.level + 1 /\ job'.more = more
  BY DEF Convert
<1>2. AssetInv' /\ done' \in 0 .. MaxConversions /\ (texture.shows # texture.dims => texture.enc = "bgra")'
  BY <1>1 DEF FilesInv, AssetInv
<1>3. CASE job.level > 0 /\ job'.out = job.out
  <2>1. Converting'
    BY <1>1, <1>3 DEF Converting, Entries
  <2>2. QED
    BY <1>1, <1>2, <1>3, <2>1
<1>4. CASE /\ job.level \in Entries
           /\ job'.out = Appended(job.out, job.level, At(job.out, job.level),
                                  BytesOf(job.out.enc, At(job.out, job.level)))
  <2> DEFINE f == job.out
             i == job.level
             g == Appended(f, i, At(f, i), BytesOf(f.enc, At(f, i)))
  <2>1. Written(f) /\ f.size[i] = 0 /\ (i = 0 \/ f.size[0] # 0)
    BY <1>4 DEF Converting, Entries
  <2>2. /\ Written(g) /\ g.size[0] # 0 /\ g.whole = f.whole
        /\ g.enc = f.enc /\ g.w = f.w /\ g.h = f.h
        /\ \A j \in Entries : j # i => g.size[j] = f.size[j]
    BY <1>4, <2>1, AppendedWritten
  <2>3. job'.out = g
    BY <1>4
  <2> HIDE DEF g
  <2>4. Converting'
    BY <1>1, <2>2, <2>3 DEF Converting, Entries
  <2>5. QED
    BY <1>1, <1>2, <2>2, <2>3, <2>4
<1>5. QED
  BY <1>3, <1>4 DEF Convert

LEMMA FinishKeeps ==
    ASSUME FilesInv, Converting, asset.whole => job.level > 0, Finish
    PROVE  FilesInv'
<1>1. asset' = job.out /\ job' = NoJob /\ done' = done + 1 /\ UNCHANGED texture
  BY DEF Finish
<1>2. Written(job.out) /\ IsBlp(job.out) /\ job.out.format = "blp"
  <2>1. Written(job.out) /\ (job.out.whole => job.out.size[0] # 0)
    BY DEF Converting
  <2>2. QED
    BY <2>1, WrittenIsBlp, BlpTypes DEF Written
<1>3. AssetInv'
  BY <1>1, <1>2 DEF AssetInv
<1>4. done' \in 0 .. MaxConversions
  BY <1>1, LevelsAssumption DEF FilesInv, Converting
<1>5. (texture.shows # texture.dims => texture.enc = "bgra")'
  BY <1>1 DEF FilesInv
<1>6. QED
  BY <1>1, <1>3, <1>4, <1>5 DEF FilesInv

LEMMA RefuseKeeps ==
    ASSUME FilesInv, done < MaxConversions, Refuse
    PROVE  FilesInv'
<1>1. job' = NoJob /\ done' = done + 1 /\ UNCHANGED <<asset, texture>>
  BY DEF Refuse
<1>2. AssetInv' /\ (texture.shows # texture.dims => texture.enc = "bgra")'
  BY <1>1 DEF FilesInv, AssetInv
<1>3. done' \in 0 .. MaxConversions
  BY <1>1, LevelsAssumption DEF FilesInv
<1>4. QED
  BY <1>1, <1>2, <1>3 DEF FilesInv
-----------------------------------------------------------------------------
LEMMA BlpAsset ==
    ASSUME FilesInv, asset.format = "blp"
    PROVE  /\ IsBlp(asset) /\ (asset.converted => Written(asset))
           /\ asset.enc \in Compressed \cup {"bgra", "bgr", "paletted"}
           /\ asset.w \in Nat \ {0} /\ asset.h \in Nat \ {0}
           /\ asset.n \in Nat /\ asset.off \in [Entries -> Nat] /\ asset.size \in [Entries -> Nat]
           /\ asset.whole \in BOOLEAN
  BY BlpTypes DEF FilesInv, AssetInv, IsBlp

LEMMA DdsAsset ==
    ASSUME FilesInv, asset.format = "dds"
    PROVE  /\ IsDds(asset) /\ asset.enc \in Compressed /\ asset.w \in Nat \ {0} /\ asset.h \in Nat \ {0}
           /\ asset.n \in Nat /\ asset.starts \in [0 .. Levels -> Nat] /\ asset.mips \in Nat
           /\ asset.whole \in BOOLEAN /\ Mips(asset) \in 1 .. Levels
<1>1. /\ IsDds(asset) /\ asset.enc \in Compressed /\ asset.w \in Nat \ {0} /\ asset.h \in Nat \ {0}
      /\ asset.n \in Nat /\ asset.starts \in [0 .. Levels -> Nat] /\ asset.mips \in Nat
      /\ asset.whole \in BOOLEAN
  BY DEF FilesInv, AssetInv, IsDds, DdsRecords
<1>2. Mips(asset) \in 1 .. Levels
  BY <1>1, LevelsAssumption DEF Mips
<1>3. QED
  BY <1>1, <1>2

LEMMA CapBlpMipsKeeps ==
    ASSUME FilesInv, NEW edge, CapBlpMips(edge)
    PROVE  FilesInv'
<1> DEFINE d == Drop(asset, edge)
<1>1. job = NoJob /\ done < MaxConversions /\ asset.format = "blp"
  BY DEF CapBlpMips, Ready
<1>2. CASE Refuse
  BY <1>1, <1>2, RefuseKeeps
<1>3. CASE /\ d \in Entries /\ Holds(asset, d) /\ Inside(asset, d) /\ Header <= asset.off[0]
           /\ Convert("cap", Started(asset.enc, Half(asset.w, d), Half(asset.h, d), asset.off[0]), 0, d)
  <2> HIDE DEF d
  <2>1. Half(asset.w, d) \in Nat \ {0} /\ Half(asset.h, d) \in Nat \ {0} /\ asset.off[0] \in Nat
    BY <1>1, <1>3, BlpAsset, HalfNatural, EntriesBounded
  <2>2. /\ AssetInv' /\ Converting' /\ done' \in 0 .. MaxConversions
        /\ (texture.shows # texture.dims => texture.enc = "bgra")'
        /\ UNCHANGED asset /\ job'.kind = "cap" /\ job'.more = d /\ job'.level = 0
        /\ job'.out.enc = asset.enc /\ job'.out.w = Half(asset.w, d) /\ job'.out.h = Half(asset.h, d)
    BY <1>1, <1>3, <2>1, BlpAsset, StartsConverting
  <2>3. CapJob'
    BY <1>1, <1>3, <2>2 DEF CapJob
  <2>4. QED
    BY <2>2, <2>3 DEF FilesInv
<1>4. QED
  BY <1>2, <1>3 DEF CapBlpMips

LEMMA CapLevelKeeps ==
    ASSUME FilesInv, CapLevel
    PROVE  FilesInv'
<1> DEFINE i == SourceLevel
<1>1. job.kind = "cap" /\ Converting /\ CapJob
  BY DEF CapLevel, FilesInv, NoJob, TranscodeJob, DdsJob, ComponentJob
<1>2. i = job.level + job.more /\ job.more \in Entries /\ job.level \in Nat /\ asset.format = "blp"
  BY <1>1 DEF SourceLevel, CapJob, Converting
<1>3. IsBlp(asset) /\ asset.w \in Nat \ {0} /\ asset.h \in Nat \ {0}
  BY <1>2, BlpAsset
<1>4. CASE i \in Entries /\ Holds(asset, i) /\ Inside(asset, i)
  <2> HIDE DEF i
  <2>1. job.level \in Entries /\ job.more \in 0 .. 15 /\ job.level \in 0 .. 15 /\ job.more + job.level <= 15
    <3>1. i \in 0 .. Levels - 1 /\ job.more \in 0 .. Levels - 1 /\ Levels - 1 \in 0 .. 15
      BY <1>2, <1>4, LevelsAssumption DEF Entries
    <3>2. QED
      BY <1>2, <3>1 DEF Entries
  <2>2. At(job.out, job.level) = At(asset, i)
    <3>1. Half(job.out.w, job.level) = Half(asset.w, job.more + job.level)
      BY <1>1, <1>3, <2>1, HalfHalf DEF CapJob
    <3>2. Half(job.out.h, job.level) = Half(asset.h, job.more + job.level)
      BY <1>1, <1>3, <2>1, HalfHalf DEF CapJob
    <3>3. job.more + job.level = i
      BY <1>2, <2>1
    <3>4. QED
      BY <3>1, <3>2, <3>3 DEF At
  <2>3. Shows(asset, asset.off[i]) = At(asset, i) /\ asset.size[i] = BytesOf(asset.enc, At(asset, i))
    BY <1>3, <1>4, LevelAt DEF IsLevel
  <2>4. More(Appended(job.out, job.level, Shows(asset, asset.off[i]), asset.size[i]))
    BY <1>4 DEF CapLevel, i
  <2>5. job.out.enc = asset.enc
    BY <1>1 DEF CapJob
  <2>6. Convert(job.kind, Appended(job.out, job.level, At(job.out, job.level),
                                   BytesOf(job.out.enc, At(job.out, job.level))), job.level + 1, job.more)
    BY <2>2, <2>3, <2>4, <2>5 DEF More
  <2>7. /\ AssetInv' /\ Converting' /\ done' \in 0 .. MaxConversions
        /\ (texture.shows # texture.dims => texture.enc = "bgra")'
        /\ UNCHANGED asset /\ job'.kind = job.kind /\ job'.more = job.more
        /\ job'.out.enc = job.out.enc /\ job'.out.w = job.out.w /\ job'.out.h = job.out.h
    BY <1>1, <2>1, <2>6, GoesOn
  <2>8. CapJob'
    BY <1>1, <2>7 DEF CapJob
  <2>9. QED
    BY <2>7, <2>8 DEF FilesInv
<1>5. CASE ~(i \in Entries /\ Holds(asset, i) /\ Inside(asset, i))
  <2>1. Finish
    BY <1>5 DEF CapLevel
  <2>2. job.level # 0
    BY <1>1, <1>2, <1>5 DEF CapJob, Entries
  <2>3. QED
    BY <1>1, <1>2, <2>1, <2>2, FinishKeeps
<1>6. QED
  BY <1>4, <1>5

LEMMA TranscodeBlpKeeps ==
    ASSUME FilesInv, TranscodeBlp
    PROVE  FilesInv'
<1>1. job = NoJob /\ done < MaxConversions /\ asset.format = "blp"
  BY DEF TranscodeBlp, Ready
<1>2. CASE Refuse
  BY <1>1, <1>2, RefuseKeeps
<1>3. CASE Holds(asset, 0) /\ Convert("transcode", Started("dxt5", asset.w, asset.h, asset.off[0]), 0, 0)
  <2>1. asset.off[0] \in Nat /\ Header <= asset.off[0]
    BY <1>1, <1>3, BlpAsset, LevelAt, EntriesBounded DEF IsLevel
  <2>2. /\ AssetInv' /\ Converting' /\ done' \in 0 .. MaxConversions
        /\ (texture.shows # texture.dims => texture.enc = "bgra")'
        /\ UNCHANGED asset /\ job'.kind = "transcode"
        /\ job'.out.enc = "dxt5" /\ job'.out.w = asset.w /\ job'.out.h = asset.h
    <3>1. "dxt5" \in Compressed \cup {"bgra", "bgr", "paletted"}
      BY DEF Compressed
    <3>2. QED
      BY <1>1, <1>3, <2>1, <3>1, BlpAsset, StartsConverting
  <2>3. TranscodeJob'
    BY <1>1, <1>3, <2>2 DEF TranscodeJob
  <2>4. QED
    BY <2>2, <2>3 DEF FilesInv
<1>4. QED
  BY <1>2, <1>3 DEF TranscodeBlp

LEMMA TranscodeLevelKeeps ==
    ASSUME FilesInv, TranscodeLevel
    PROVE  FilesInv'
<1> DEFINE i == job.level
<1>1. job.kind = "transcode" /\ Converting /\ TranscodeJob
  BY DEF TranscodeLevel, FilesInv, NoJob, CapJob, DdsJob, ComponentJob
<1>2. asset.format = "blp" /\ IsBlp(asset) /\ i \in Nat /\ Holds(asset, 0)
      /\ asset.w \in Nat \ {0} /\ asset.h \in Nat \ {0}
  BY <1>1, BlpAsset DEF TranscodeJob, Converting
<1>3. At(job.out, i) = At(asset, i) /\ job.out.enc = "dxt5"
  BY <1>1 DEF TranscodeJob, At
<1>4. ASSUME NEW out, More(out),
             \/ i > 0 /\ out = job.out
             \/ /\ i \in Entries
                /\ out = Appended(job.out, i, At(job.out, i), BytesOf(job.out.enc, At(job.out, i)))
      PROVE  FilesInv'
  <2>1. \/ /\ i \in Entries
           /\ Convert(job.kind, Appended(job.out, i, At(job.out, i), BytesOf(job.out.enc, At(job.out, i))),
                      i + 1, job.more)
        \/ i > 0 /\ Convert(job.kind, job.out, i + 1, job.more)
    BY <1>4 DEF More
  <2>2. /\ AssetInv' /\ Converting' /\ done' \in 0 .. MaxConversions
        /\ (texture.shows # texture.dims => texture.enc = "bgra")'
        /\ UNCHANGED asset /\ job'.kind = job.kind
        /\ job'.out.enc = job.out.enc /\ job'.out.w = job.out.w /\ job'.out.h = job.out.h
    BY <1>1, <2>1, GoesOn
  <2>3. TranscodeJob'
    BY <1>1, <2>2 DEF TranscodeJob
  <2>4. QED
    BY <2>2, <2>3 DEF FilesInv
<1>5. CASE i \notin Entries
  <2>1. Finish
    BY <1>5 DEF TranscodeLevel
  <2>2. i > 0
    BY <1>2, <1>5, EntriesBounded
  <2>3. QED
    BY <1>1, <2>1, <2>2, FinishKeeps
<1>6. CASE i \in Entries /\ ~Holds(asset, i)
  <2>1. More(job.out)
    BY <1>6 DEF TranscodeLevel
  <2>2. i > 0
    BY <1>2, <1>6
  <2>3. QED
    BY <1>4, <2>1, <2>2
<1>7. CASE i \in Entries /\ Holds(asset, i)
  <2>1. IsLevel(asset, i)
    BY <1>2, <1>7, LevelAt
  <2>2. CASE asset.off[i] + BytesOf(asset.enc, At(asset, i)) > asset.n
    <3>1. Finish
      BY <1>7, <2>2 DEF TranscodeLevel
    <3>2. ~asset.whole
      <4>1. asset.off[i] \in Nat /\ asset.size[i] \in Nat /\ asset.n \in Nat
        BY <1>2, <1>7, BlpAsset
      <4>2. QED
        BY <2>1, <2>2, <4>1 DEF IsLevel, Inside
    <3>3. QED
      BY <1>1, <3>1, <3>2, FinishKeeps
  <2>3. CASE ~(asset.off[i] + BytesOf(asset.enc, At(asset, i)) > asset.n)
    <3>1. More(Appended(job.out, i, Shows(asset, asset.off[i]), Encoded(asset, i)))
      BY <1>7, <2>3 DEF TranscodeLevel
    <3>2. Shows(asset, asset.off[i]) = At(job.out, i) /\ Encoded(asset, i) = BytesOf(job.out.enc, At(job.out, i))
      BY <1>3, <2>1 DEF IsLevel, Encoded
    <3>3. QED
      BY <1>4, <1>7, <3>1, <3>2
  <2>4. QED
    BY <2>2, <2>3
<1>8. QED
  BY <1>5, <1>6, <1>7

LEMMA DdsToBlpKeeps ==
    ASSUME FilesInv, NEW luminanceAlpha \in BOOLEAN, DdsToBlp(luminanceAlpha)
    PROVE  FilesInv'
<1> DEFINE enc == IF luminanceAlpha /\ asset.enc = "dxt1" THEN "dxt5" ELSE asset.enc
<1>1. job = NoJob /\ done < MaxConversions /\ asset.format = "dds"
      /\ Convert("dds", Started(enc, asset.w, asset.h, Header + Palette), 0, 128)
  BY DEF DdsToBlp, Ready
<1>2. enc \in Compressed \cup {"bgra", "bgr", "paletted"} /\ Header + Palette \in Nat /\ Header <= Header + Palette
  BY <1>1, DdsAsset DEF Compressed, Header, Palette
<1> HIDE DEF enc
<1>3. /\ AssetInv' /\ Converting' /\ done' \in 0 .. MaxConversions
      /\ (texture.shows # texture.dims => texture.enc = "bgra")'
      /\ UNCHANGED asset /\ job'.kind = "dds" /\ job'.more = 128 /\ job'.level = 0
      /\ job'.out.w = asset.w /\ job'.out.h = asset.h
  BY <1>1, <1>2, DdsAsset, StartsConverting
<1>4. DdsJob'
  <2>1. 0 <= Mips(asset) /\ asset.starts[0] = 128
    BY <1>1, DdsAsset, LevelsAssumption DEF IsDds
  <2>2. Mips(asset') = Mips(asset)
    BY <1>3
  <2>3. QED
    BY <1>1, <1>3, <2>1, <2>2 DEF DdsJob
<1>5. QED
  BY <1>3, <1>4 DEF FilesInv

LEMMA DdsLevelKeeps ==
    ASSUME FilesInv, DdsLevel
    PROVE  FilesInv'
<1> DEFINE i == job.level
           n == BytesOf(asset.enc, At(asset, i))
           src == job.more
<1>1. job.kind = "dds" /\ Converting /\ DdsJob
  BY DEF DdsLevel, FilesInv, NoJob, CapJob, TranscodeJob, ComponentJob
<1>2. /\ asset.format = "dds" /\ i \in Nat /\ i <= Mips(asset) /\ src = asset.starts[i]
      /\ job.out.w = asset.w /\ job.out.h = asset.h
  BY <1>1 DEF DdsJob, Converting
<1>3. IsDds(asset) /\ Mips(asset) \in 1 .. Levels /\ Levels \in Nat
  BY <1>2, DdsAsset, EntriesBounded
<1>4. i < Mips(asset) => /\ asset.starts[i + 1] = asset.starts[i] + n
                         /\ Shows(asset, asset.starts[i]) = At(asset, i)
  <2>1. i < Mips(asset) => i \in 0 .. Mips(asset) - 1
    BY <1>2, <1>3
  <2>2. QED
    BY <1>3, <2>1 DEF IsDds
<1>5. CASE i < Mips(asset) /\ src + n <= asset.n
  <2>1. Convert("dds", Appended(job.out, i, Shows(asset, src), BytesOf(job.out.enc, At(asset, i))), i + 1, src + n)
    BY <1>5 DEF DdsLevel
  <2>2. At(asset, i) = At(job.out, i) /\ i \in Entries
    BY <1>2, <1>3, <1>5 DEF At, Entries
  <2>3. Convert(job.kind, Appended(job.out, i, At(job.out, i), BytesOf(job.out.enc, At(job.out, i))), i + 1, src + n)
    BY <1>1, <1>2, <1>4, <1>5, <2>1, <2>2
  <2> HIDE DEF n
  <2>4. /\ AssetInv' /\ Converting' /\ done' \in 0 .. MaxConversions
        /\ (texture.shows # texture.dims => texture.enc = "bgra")'
        /\ UNCHANGED asset /\ job'.kind = job.kind /\ job'.more = src + n /\ job'.level = i + 1
        /\ job'.out.enc = job.out.enc /\ job'.out.w = job.out.w /\ job'.out.h = job.out.h
    BY <1>1, <2>2, <2>3, GoesOn
  <2>5. DdsJob'
    <3>1. Mips(asset') = Mips(asset) /\ asset'.starts = asset.starts /\ i + 1 <= Mips(asset)
      BY <1>2, <1>3, <1>5, <2>4
    <3>2. job'.more = asset'.starts[job'.level]
      BY <1>2, <1>4, <1>5, <2>4, <3>1
    <3>3. QED
      BY <1>1, <1>2, <2>4, <3>1, <3>2 DEF DdsJob
  <2>6. QED
    BY <2>4, <2>5 DEF FilesInv
<1>6. CASE ~(i < Mips(asset) /\ src + n <= asset.n)
  <2>1. Finish
    BY <1>6 DEF DdsLevel
  <2>2. asset.whole => i > 0
    <3>1. CASE i = 0
      <4>1. i < Mips(asset)
        BY <1>3, <3>1
      <4>2. asset.starts[1] = src + n
        BY <1>2, <1>4, <3>1, <4>1
      <4>3. ~asset.whole
        BY <1>3, <1>6, <4>1, <4>2 DEF IsDds
      <4>4. QED
        BY <4>3
    <3>2. QED
      BY <1>2, <3>1
  <2>3. QED
    BY <1>1, <2>1, <2>2, FinishKeeps
<1>7. QED
  BY <1>5, <1>6

LEMMA PickedEntry ==
    ASSUME NEW f, NEW edge
    PROVE  Picked(f, edge) \in Entries
<1>1. First(f, edge) \in Entries
  <2>1. CASE Fitting(f, edge) = {}
    <3>1. Drop(f, edge) = Levels
      BY <2>1 DEF Drop
    <3>2. QED
      BY <3>1, LevelsAssumption DEF First, Entries
  <2>2. CASE Fitting(f, edge) # {}
    <3>1. Fitting(f, edge) \subseteq Entries /\ Fitting(f, edge) \subseteq Nat
      <4>1. Fitting(f, edge) \subseteq Entries
        BY DEF Fitting
      <4>2. Entries \subseteq Nat
        BY EntriesBounded
      <4>3. QED
        BY <4>1, <4>2
    <3>2. Min(Fitting(f, edge)) \in Entries
      BY <2>2, <3>1, MinOfNaturals
    <3>3. QED
      BY <2>2, <3>2, LevelsAssumption DEF First, Drop, Entries
  <2>3. QED
    BY <2>1, <2>2
<1>2. QED
  BY <1>1, EntriesBounded DEF Picked

LEMMA ComponentKeeps ==
    ASSUME FilesInv, NEW edge, TextureComponentToPaletted(edge)
    PROVE  FilesInv'
<1> DEFINE mip == Picked(asset, Clamped(edge))
           dims == At(asset, mip)
<1>1. job = NoJob /\ done < MaxConversions /\ asset.format = "blp"
  BY DEF TextureComponentToPaletted, Ready
<1>2. CASE Refuse
  BY <1>1, <1>2, RefuseKeeps
<1>3. CASE /\ Holds(asset, mip)
           /\ Convert("component", Started("paletted", dims[1], dims[2], Header + Palette), 0,
                      Shows(asset, asset.off[mip]))
  <2>1. mip \in Entries
    BY PickedEntry
  <2> HIDE DEF mip
  <2>2. dims[1] \in Nat \ {0} /\ dims[2] \in Nat \ {0} /\ dims = <<dims[1], dims[2]>>
    BY <1>1, <2>1, BlpAsset, EntriesBounded, HalfNatural DEF At
  <2>3. Shows(asset, asset.off[mip]) = dims
    BY <1>1, <1>3, <2>1, BlpAsset, LevelAt DEF IsLevel
  <2> HIDE DEF dims
  <2>4. Header + Palette \in Nat /\ Header <= Header + Palette
    BY DEF Header, Palette
  <2>5. /\ AssetInv' /\ Converting' /\ done' \in 0 .. MaxConversions
        /\ (texture.shows # texture.dims => texture.enc = "bgra")'
        /\ UNCHANGED asset /\ job'.kind = "component" /\ job'.more = dims
        /\ job'.out.enc = "paletted" /\ job'.out.w = dims[1] /\ job'.out.h = dims[2]
    BY <1>1, <1>3, <2>2, <2>3, <2>4, BlpAsset, StartsConverting
  <2>6. ComponentJob'
    BY <1>1, <2>2, <2>5 DEF ComponentJob
  <2>7. QED
    BY <2>5, <2>6 DEF FilesInv
<1>4. QED
  BY <1>2, <1>3 DEF TextureComponentToPaletted

LEMMA PalettedLevelKeeps ==
    ASSUME FilesInv, EncodePalettedLevel
    PROVE  FilesInv'
<1> DEFINE i == job.level
<1>1. job.kind = "component" /\ Converting /\ ComponentJob
  BY DEF EncodePalettedLevel, FilesInv, NoJob, CapJob, TranscodeJob, DdsJob
<1>2. i \in Nat /\ job.more = <<job.out.w, job.out.h>> /\ job.out.enc = "paletted"
  BY <1>1 DEF ComponentJob, Converting
<1>3. CASE i \in Entries /\ (i = 0 \/ At(job.out, i - 1) # <<1, 1>>)
  <2>1. More(Appended(job.out, i, Downsampled(job.more, i), BytesOf("paletted", At(job.out, i))))
    BY <1>3 DEF EncodePalettedLevel
  <2>2. Downsampled(job.more, i) = At(job.out, i)
    BY <1>2 DEF Downsampled, At
  <2>3. Convert(job.kind, Appended(job.out, i, At(job.out, i), BytesOf(job.out.enc, At(job.out, i))), i + 1, job.more)
    BY <1>2, <2>1, <2>2 DEF More
  <2>4. /\ AssetInv' /\ Converting' /\ done' \in 0 .. MaxConversions
        /\ (texture.shows # texture.dims => texture.enc = "bgra")'
        /\ UNCHANGED asset /\ job'.kind = job.kind /\ job'.more = job.more
        /\ job'.out.enc = job.out.enc /\ job'.out.w = job.out.w /\ job'.out.h = job.out.h
    BY <1>1, <1>3, <2>3, GoesOn
  <2>5. ComponentJob'
    BY <1>1, <2>4 DEF ComponentJob
  <2>6. QED
    BY <2>4, <2>5 DEF FilesInv
<1>4. CASE ~(i \in Entries /\ (i = 0 \/ At(job.out, i - 1) # <<1, 1>>))
  <2>1. Finish
    BY <1>4 DEF EncodePalettedLevel
  <2>2. i > 0
    BY <1>2, <1>4, EntriesBounded
  <2>3. QED
    BY <1>1, <2>1, <2>2, FinishKeeps
<1>5. QED
  BY <1>3, <1>4

(* The quest marker's reader: only rows of an uncompressed file are torn.   *)
LEMMA LoadBlpTextureKeeps ==
    ASSUME FilesInv, NEW padding \in {0, 16}, LoadBlpTexture(padding)
    PROVE  FilesInv'
<1>1. job = NoJob /\ done < MaxConversions /\ asset.format = "blp" /\ done' = done + 1 /\ UNCHANGED <<asset, job>>
  BY DEF LoadBlpTexture, Ready
<1>2. AssetInv' /\ done' \in 0 .. MaxConversions
  BY <1>1, LevelsAssumption DEF FilesInv, AssetInv
<1>3. (texture.shows # texture.dims => texture.enc = "bgra")'
  <2>1. CASE texture' = NoTexture
    BY <2>1 DEF NoTexture
  <2>2. CASE /\ asset.size[0] # 0
             /\ texture' = [enc |-> asset.enc, dims |-> At(asset, 0),
                            shows |-> IF CopiedRight(asset, TrueRow(asset) + padding)
                                      THEN Shows(asset, asset.off[0]) ELSE <<0, 0>>]
    <3>1. Shows(asset, asset.off[0]) = At(asset, 0)
      BY <1>1, <2>2, BlpAsset, EntriesBounded DEF IsBlp, IsLevel
    <3>2. ASSUME asset.enc # "bgra"
          PROVE  CopiedRight(asset, TrueRow(asset) + padding)
      <4>1. RowSize(asset) \in Nat
        <5>1. Blocks(asset.w) \in Nat /\ BlockBytes(asset.enc) \in Nat
          BY <1>1, BlpAsset, BlocksPositive DEF BlockBytes
        <5>2. QED
          BY <5>1 DEF RowSize
      <4>2. TrueRow(asset) = RowSize(asset)
        BY <3>2 DEF TrueRow
      <4>3. QED
        BY <3>2, <4>1, <4>2 DEF CopiedRight
    <3>3. QED
      BY <2>2, <3>1, <3>2
  <2>3. QED
    BY <2>1, <2>2 DEF LoadBlpTexture
<1>4. QED
  BY <1>1, <1>2, <1>3 DEF FilesInv

LEMMA FilesStep == FilesInv /\ FilesNext => FilesInv'
  BY CapBlpMipsKeeps, CapLevelKeeps, TranscodeBlpKeeps, TranscodeLevelKeeps, DdsToBlpKeeps, DdsLevelKeeps,
     ComponentKeeps, PalettedLevelKeeps, LoadBlpTextureKeeps DEF FilesNext, Begin
-----------------------------------------------------------------------------
(* The texels of blocks.                                                    *)
LEMMA LeastIs ==
    ASSUME NEW S, S \subseteq Nat, S # {}
    PROVE  Least(S) \in S /\ \A y \in S : Least(S) <= y
  BY LeastExists DEF Least

LEMMA MostIs ==
    ASSUME NEW S, S \subseteq Nat, S # {}, NEW b \in Nat, \A y \in S : y <= b
    PROVE  Most(S) \in S /\ \A y \in S : y <= Most(S)
<1> DEFINE T == {b - y : y \in S}
<1>1. T \subseteq Nat /\ T # {}
  <2>1. \A y \in S : b - y \in Nat
    OBVIOUS
  <2>2. QED
    BY <2>1
<1>2. PICK t \in T : \A u \in T : t <= u
  BY <1>1, LeastExists
<1>3. PICK x \in S : t = b - x
  OBVIOUS
<1>4. ASSUME NEW y \in S
      PROVE  y <= x
  <2>1. b - x <= b - y
    BY <1>2, <1>3
  <2>2. x \in Nat /\ y \in Nat
    OBVIOUS
  <2>3. QED
    BY <2>1, <2>2
<1>5. \A y \in S : y <= x
  BY <1>4
<1>6. QED
  BY <1>3, <1>5 DEF Most

LEMMA NearestIs ==
    ASSUME NEW d, DOMAIN d \subseteq Nat, DOMAIN d # {}, \A k \in DOMAIN d : d[k] \in Nat
    PROVE  /\ NearestOf(d) \in DOMAIN d
           /\ \A j \in DOMAIN d : d[NearestOf(d)] <= d[j]
           /\ \A k \in DOMAIN d : (\A j \in DOMAIN d : d[k] <= d[j]) => NearestOf(d) <= k
<1> DEFINE R == {d[k] : k \in DOMAIN d}
           N == {k \in DOMAIN d : \A j \in DOMAIN d : d[k] <= d[j]}
<1>1. R \subseteq Nat /\ R # {}
  OBVIOUS
<1>2. PICK r \in R : \A s \in R : r <= s
  BY <1>1, LeastExists
<1>3. N # {} /\ N \subseteq Nat
  BY <1>2
<1>4. NearestOf(d) = Least(N)
  BY DEF NearestOf
<1> HIDE DEF N
<1>5. NearestOf(d) \in N /\ \A k \in N : NearestOf(d) <= k
  BY <1>3, <1>4, LeastIs
<1>6. QED
  BY <1>5 DEF N

LEMMA SquareNatural ==
    ASSUME NEW x \in Int
    PROVE  Square(x) \in Nat /\ (Square(x) = 0 => x = 0) /\ Square(0) = 0
<1>1. x * x >= 0 /\ (x * x = 0 => x = 0)
  <2>1. CASE x >= 0
    BY <2>1
  <2>2. CASE x < 0
    BY <2>2
  <2>3. QED
    BY <2>1, <2>2
<1>2. x * x \in Int
  OBVIOUS
<1>3. QED
  BY <1>1, <1>2 DEF Square

\* Colours that lie no distance apart have equal channels.
LEMMA DistanceNatural ==
    ASSUME NEW a, NEW b, \A i \in 1 .. 3 : a[i] \in Int /\ b[i] \in Int
    PROVE  /\ Distance(a, b) \in Nat
           /\ (\A i \in 1 .. 3 : a[i] = b[i]) => Distance(a, b) = 0
           /\ Distance(a, b) = 0 => \A i \in 1 .. 3 : a[i] = b[i]
<1> DEFINE x == a[1] - b[1]
           y == a[2] - b[2]
           z == a[3] - b[3]
<1>1. x \in Int /\ y \in Int /\ z \in Int
  OBVIOUS
<1>2. Distance(a, b) = Square(x) + Square(y) + Square(z)
  BY DEF Distance
<1>3. (\A i \in 1 .. 3 : a[i] = b[i]) <=> x = 0 /\ y = 0 /\ z = 0
  <2>1. \A i \in 1 .. 3 : i = 1 \/ i = 2 \/ i = 3
    OBVIOUS
  <2>2. QED
    BY <2>1
<1> HIDE DEF x, y, z
<1>4. Square(x) \in Nat /\ Square(y) \in Nat /\ Square(z) \in Nat
      /\ (Square(x) = 0 <=> x = 0) /\ (Square(y) = 0 <=> y = 0) /\ (Square(z) = 0 <=> z = 0)
  BY <1>1, SquareNatural
<1>5. Square(x) + Square(y) + Square(z) = 0 <=> Square(x) = 0 /\ Square(y) = 0 /\ Square(z) = 0
  BY <1>4
<1>6. QED
  BY <1>2, <1>3, <1>4, <1>5

LEMMA EightAt ==
    ASSUME NEW a0 \in Nat, NEW a1 \in Nat
    PROVE  LET e == EightAlphas(a0, a1) IN
           /\ e[0] = a0 /\ e[1] = a1 /\ e[2] = (6 * a0 + a1) \div 7 /\ e[3] = (5 * a0 + 2 * a1) \div 7
           /\ e[4] = (4 * a0 + 3 * a1) \div 7 /\ e[5] = (3 * a0 + 4 * a1) \div 7
           /\ e[6] = (2 * a0 + 5 * a1) \div 7 /\ e[7] = (a0 + 6 * a1) \div 7
           /\ \A k \in 0 .. 7 : e[k] \in Nat
<1> DEFINE e == EightAlphas(a0, a1)
<1>1. e[0] = a0 /\ e[1] = a1
  BY DEF EightAlphas
<1>2. e[2] = (6 * a0 + a1) \div 7 /\ e[3] = (5 * a0 + 2 * a1) \div 7 /\ e[4] = (4 * a0 + 3 * a1) \div 7
  BY DEF EightAlphas
<1>3. e[5] = (3 * a0 + 4 * a1) \div 7 /\ e[6] = (2 * a0 + 5 * a1) \div 7 /\ e[7] = (a0 + 6 * a1) \div 7
  BY DEF EightAlphas
<1> HIDE DEF e
<1>4. ASSUME NEW k \in 0 .. 7
      PROVE  e[k] \in Nat
  <2>1. k = 0 \/ k = 1 \/ k = 2 \/ k = 3 \/ k = 4 \/ k = 5 \/ k = 6 \/ k = 7
    OBVIOUS
  <2>2. QED
    BY <1>1, <1>2, <1>3, <2>1
<1>5. QED
  BY <1>1, <1>2, <1>3, <1>4 DEF e

\* Between the endpoints, one of the eight values is never more than half a step away.
LEMMA HalfStep ==
    ASSUME NEW a0 \in Nat, NEW a1 \in Nat, NEW a \in Nat, a1 <= a, a <= a0
    PROVE  \E k \in 0 .. 7 : Abs(a - EightAlphas(a0, a1)[k]) <= (a0 - a1) \div 14 + 1
<1> DEFINE e == EightAlphas(a0, a1)
           h == (a0 - a1) \div 14 + 1
<1>1. /\ e[0] = a0 /\ e[1] = a1 /\ e[2] = (6 * a0 + a1) \div 7 /\ e[3] = (5 * a0 + 2 * a1) \div 7
      /\ e[4] = (4 * a0 + 3 * a1) \div 7 /\ e[5] = (3 * a0 + 4 * a1) \div 7
      /\ e[6] = (2 * a0 + 5 * a1) \div 7 /\ e[7] = (a0 + 6 * a1) \div 7
  BY EightAt
<1>2. \/ (a - a0 <= h /\ a0 - a <= h)
      \/ (a - a1 <= h /\ a1 - a <= h)
      \/ (a - (6 * a0 + a1) \div 7 <= h /\ (6 * a0 + a1) \div 7 - a <= h)
      \/ (a - (5 * a0 + 2 * a1) \div 7 <= h /\ (5 * a0 + 2 * a1) \div 7 - a <= h)
      \/ (a - (4 * a0 + 3 * a1) \div 7 <= h /\ (4 * a0 + 3 * a1) \div 7 - a <= h)
      \/ (a - (3 * a0 + 4 * a1) \div 7 <= h /\ (3 * a0 + 4 * a1) \div 7 - a <= h)
      \/ (a - (2 * a0 + 5 * a1) \div 7 <= h /\ (2 * a0 + 5 * a1) \div 7 - a <= h)
      \/ (a - (a0 + 6 * a1) \div 7 <= h /\ (a0 + 6 * a1) \div 7 - a <= h)
  OBVIOUS
<1>3. \A x \in Int : x <= h /\ -x <= h => Abs(x) <= h
  BY DEF Abs
<1>4. \A k \in 0 .. 7 : e[k] \in Nat
  BY EightAt
<1>5. h \in Int
  OBVIOUS
<1>6. \E k \in 0 .. 7 : a - e[k] <= h /\ e[k] - a <= h
  <2> HIDE DEF e, h
  <2>1. 0 \in 0 .. 7 /\ 1 \in 0 .. 7 /\ 2 \in 0 .. 7 /\ 3 \in 0 .. 7 /\ 4 \in 0 .. 7 /\ 5 \in 0 .. 7 /\ 6 \in 0 .. 7 /\ 7 \in 0 .. 7
    OBVIOUS
  <2>2. QED
    BY <1>1, <1>2, <2>1
<1>7. QED
  <2> HIDE DEF e, h
  <2>1. PICK k \in 0 .. 7 : a - e[k] <= h /\ e[k] - a <= h
    BY <1>6
  <2>2. a - e[k] \in Int /\ -(a - e[k]) <= h
    BY <1>4, <1>5, <2>1
  <2>3. Abs(a - e[k]) <= h
    BY <1>3, <2>1, <2>2
  <2>4. QED
    BY <2>3 DEF e, h

LEMMA ColoursAt ==
    ASSUME NEW e0, NEW e1, \A i \in 1 .. 3 : e0[i] \in Nat /\ e1[i] \in Nat, NEW k \in 0 .. 3, NEW i \in 1 .. 3
    PROVE  /\ FourColours(e0, e1)[k][i] \in Nat
           /\ (\A j \in 1 .. 3 : e0[j] = e1[j]) => FourColours(e0, e1)[k][i] = e0[i]
<1>1. k = 0 \/ k = 1 \/ k = 2 \/ k = 3
  OBVIOUS
<1>2. e0[i] \in Nat /\ e1[i] \in Nat
  OBVIOUS
<1>3. Blend(e0, e1, 2, 1)[i] = (2 * e0[i] + e1[i]) \div 3 /\ Blend(e0, e1, 1, 2)[i] = (e0[i] + 2 * e1[i]) \div 3
  BY <1>2 DEF Blend
<1>4. /\ FourColours(e0, e1)[0] = e0 /\ FourColours(e0, e1)[1] = e1
      /\ FourColours(e0, e1)[2] = Blend(e0, e1, 2, 1) /\ FourColours(e0, e1)[3] = Blend(e0, e1, 1, 2)
  BY DEF FourColours
<1>5. /\ (2 * e0[i] + e1[i]) \div 3 \in Nat /\ (e0[i] + 2 * e1[i]) \div 3 \in Nat
      /\ e0[i] = e1[i] => (2 * e0[i] + e1[i]) \div 3 = e0[i] /\ (e0[i] + 2 * e1[i]) \div 3 = e0[i]
  BY <1>2
<1> HIDE DEF FourColours
<1>6. QED
  BY <1>1, <1>2, <1>3, <1>4, <1>5

LEMMA PackedNatural ==
    ASSUME NEW c, \A i \in 1 .. 3 : c[i] \in Nat, NEW i \in 1 .. 3
    PROVE  Pack565(c)[i] \in Nat /\ Unpack565(Pack565(c))[i] \in Nat
<1>1. i = 1 \/ i = 2 \/ i = 3
  OBVIOUS
<1>2. c[1] \in Nat /\ c[2] \in Nat /\ c[3] \in Nat
  OBVIOUS
<1>3. QED
  BY <1>1, <1>2 DEF Pack565, Unpack565

LEMMA Dxt5Decodes ==
    ASSUME NEW b, b.kind = "dxt5", NEW s
    PROVE  /\ DecodeDxtTexel(b, s).rgb = DecodedColours(b)[b.ci[s]]
           /\ DecodeDxtTexel(b, s).a = DecodedAlphas(b)[b.ai[s]]
  BY DEF DecodeDxtTexel, Punches

LEMMA AbsNatural ==
    ASSUME NEW x \in Int
    PROVE  Abs(x) \in Nat /\ (Abs(x) = 0 <=> x = 0)
  BY DEF Abs

LEMMA NearestAlphaAt ==
    ASSUME NEW t, NEW alphas, NEW s \in Spots, t[s].a \in Int, \A k \in 0 .. 7 : alphas[k] \in Int
    PROVE  LET m == NearestAlphas(t, alphas)[s] IN
           /\ m \in 0 .. 7
           /\ \A k \in 0 .. 7 : Abs(t[s].a - alphas[m]) <= Abs(t[s].a - alphas[k])
           /\ \A k \in 0 .. 7 : alphas[k] = t[s].a => alphas[m] = t[s].a /\ m <= k
<1> DEFINE d == [k \in 0 .. 7 |-> Abs(t[s].a - alphas[k])]
           m == NearestOf(d)
<1>1. NearestAlphas(t, alphas)[s] = m
  BY DEF NearestAlphas
<1>2. DOMAIN d = 0 .. 7 /\ \A k \in 0 .. 7 : d[k] = Abs(t[s].a - alphas[k])
  OBVIOUS
<1>3. \A k \in 0 .. 7 : Abs(t[s].a - alphas[k]) \in Nat /\ (Abs(t[s].a - alphas[k]) = 0 <=> alphas[k] = t[s].a)
  <2>1. \A k \in 0 .. 7 : t[s].a - alphas[k] \in Int /\ (t[s].a - alphas[k] = 0 <=> alphas[k] = t[s].a)
    OBVIOUS
  <2>2. QED
    BY <2>1, AbsNatural
<1>4. DOMAIN d \subseteq Nat /\ DOMAIN d # {} /\ \A k \in DOMAIN d : d[k] \in Nat
  BY <1>2, <1>3
<1> HIDE DEF d
<1>5. /\ m \in DOMAIN d /\ \A j \in DOMAIN d : d[m] <= d[j]
      /\ \A k \in DOMAIN d : (\A j \in DOMAIN d : d[k] <= d[j]) => m <= k
  BY <1>4, NearestIs
<1> HIDE DEF m
<1>6. ASSUME NEW k \in 0 .. 7, alphas[k] = t[s].a
      PROVE  alphas[m] = t[s].a /\ m <= k
  <2>1. d[k] = 0
    BY <1>2, <1>3, <1>6
  <2>2. d[m] = 0 /\ m \in 0 .. 7
    BY <1>2, <1>3, <1>5, <2>1
  <2>3. \A j \in DOMAIN d : d[k] <= d[j]
    BY <1>2, <1>3, <2>1
  <2>4. QED
    BY <1>2, <1>3, <1>5, <2>2, <2>3
<1>7. QED
  BY <1>1, <1>2, <1>5, <1>6

LEMMA NearestColourAt ==
    ASSUME NEW t, NEW colours, NEW s \in Spots, \A i \in 1 .. 3 : t[s].rgb[i] \in Int,
           \A k \in 0 .. 3, i \in 1 .. 3 : colours[k][i] \in Int
    PROVE  LET m == NearestColours(t, colours)[s] IN
           m \in 0 .. 3 /\ \A k \in 0 .. 3 : Distance(t[s].rgb, colours[m]) <= Distance(t[s].rgb, colours[k])
<1> DEFINE d == [k \in 0 .. 3 |-> Distance(t[s].rgb, colours[k])]
           m == NearestOf(d)
<1>1. NearestColours(t, colours)[s] = m
  BY DEF NearestColours
<1>2. DOMAIN d = 0 .. 3 /\ \A k \in 0 .. 3 : d[k] = Distance(t[s].rgb, colours[k])
  OBVIOUS
<1>3. \A k \in 0 .. 3 : Distance(t[s].rgb, colours[k]) \in Nat
  BY DistanceNatural
<1>4. DOMAIN d \subseteq Nat /\ DOMAIN d # {} /\ \A k \in DOMAIN d : d[k] \in Nat
  BY <1>2, <1>3
<1> HIDE DEF d
<1>5. m \in DOMAIN d /\ \A j \in DOMAIN d : d[m] <= d[j]
  BY <1>4, NearestIs
<1>6. QED
  BY <1>1, <1>2, <1>5

LEMMA DistanceSymmetric ==
    ASSUME NEW a, NEW b, \A i \in 1 .. 3 : a[i] \in Int /\ b[i] \in Int
    PROVE  Distance(a, b) = Distance(b, a)
<1>1. \A x, y \in Int : Square(x - y) = Square(y - x)
  BY DEF Square
<1>2. QED
  BY <1>1 DEF Distance

LEMMA KindsTyped ==
    ASSUME NEW t \in AllKinds, NEW s \in Spots
    PROVE  /\ t[s].a \in 0 .. 255 /\ t[s].rgb \in [1 .. 3 -> 0 .. 255]
           /\ \A i \in 1 .. 3 : t[s].rgb[i] \in 0 .. 255
<1>1. t[s] \in [rgb : Shades, a : Alphas]
  BY DEF AllKinds
<1>2. t[s].a \in Bytes /\ t[s].rgb \in [1 .. 3 -> Bytes]
  BY <1>1, PixelsAssumption
<1>3. QED
  BY <1>2 DEF Bytes

LEMMA CornerNatural ==
    ASSUME NEW t \in AllKinds, NEW i \in 1 .. 3
    PROVE  /\ Corner(t, Most)[i] \in Nat /\ Unpack565(Corner(t, Most))[i] \in Nat
           /\ Corner(t, Least)[i] \in Nat /\ Unpack565(Corner(t, Least))[i] \in Nat
<1> DEFINE S(j) == {t[s].rgb[j] : s \in Spots}
           c == [j \in 1 .. 3 |-> Most(S(j))]
           d == [j \in 1 .. 3 |-> Least(S(j))]
<1>1. Corner(t, Most) = Pack565(c) /\ Corner(t, Least) = Pack565(d)
  BY DEF Corner
<1>2. ASSUME NEW j \in 1 .. 3
      PROVE  c[j] \in Nat /\ d[j] \in Nat
  <2>1. S(j) \subseteq 0 .. 255 /\ S(j) # {}
    BY KindsTyped, PixelsAssumption
  <2>2. S(j) \subseteq Nat /\ \A y \in S(j) : y <= 255
    <3>1. \A y \in 0 .. 255 : y \in Nat /\ y <= 255
      OBVIOUS
    <3> HIDE DEF S
    <3>2. QED
      BY <2>1, <3>1
  <2>3. c[j] = Most(S(j)) /\ d[j] = Least(S(j))
    OBVIOUS
  <2> HIDE DEF S, c, d
  <2>4. Most(S(j)) \in S(j) /\ Least(S(j)) \in S(j)
    BY <2>1, <2>2, MostIs, LeastIs
  <2>5. QED
    BY <2>2, <2>3, <2>4
<1> HIDE DEF c, d
<1>3. QED
  BY <1>1, <1>2, PackedNatural

LEMMA CompressBlockIsNear ==
    ASSUME texels \in AllKinds, CompressBlock
    PROVE  BlockIsNear'
<1> DEFINE t == texels
           A == AlphasOf(t)
           a0 == Most(A)
           a1 == Least(A)
           c0 == Corner(t, Most)
           c1 == Corner(t, Least)
           e == EightAlphas(a0, a1)
           f == FourColours(Unpack565(c0), Unpack565(c1))
           b == block'
<1>1. b = Dxt5Block(t, a0, a1, e, c0, c1, f) /\ texels' = texels
  BY DEF CompressBlock
<1>2. A \subseteq Nat /\ A # {} /\ \A y \in A : y <= 255
  <2>1. A \subseteq 0 .. 255 /\ A # {}
    BY KindsTyped, PixelsAssumption DEF AlphasOf
  <2>2. \A y \in 0 .. 255 : y \in Nat /\ y <= 255
    OBVIOUS
  <2> HIDE DEF A
  <2>3. QED
    BY <2>1, <2>2
<1>3. a0 \in Nat /\ a1 \in Nat /\ \A s \in Spots : t[s].a \in Nat /\ a1 <= t[s].a /\ t[s].a <= a0
  <2> HIDE DEF A
  <2>1. a0 \in A /\ a1 \in A /\ \A y \in A : a1 <= y /\ y <= a0
    BY <1>2, MostIs, LeastIs
  <2>2. \A s \in Spots : t[s].a \in A
    BY DEF A, AlphasOf
  <2>3. QED
    BY <1>2, <2>1, <2>2
<1>4. \A k \in 0 .. 3, i \in 1 .. 3 : f[k][i] \in Nat /\ (c0 = c1 => f[k][i] = Unpack565(c0)[i])
  <2>1. \A i \in 1 .. 3 : Unpack565(c0)[i] \in Nat /\ Unpack565(c1)[i] \in Nat
    BY CornerNatural
  <2> HIDE DEF c0, c1
  <2>2. QED
    BY <2>1, ColoursAt
<1>5. /\ b.kind = "dxt5" /\ b.a0 = a0 /\ b.a1 = a1 /\ b.ai = NearestAlphas(t, e) /\ b.c0 = c0 /\ b.c1 = c1
      /\ b.ci = IF c0 = c1 THEN [s \in Spots |-> 0] ELSE NearestColours(t, f)
  BY <1>1 DEF Dxt5Block
<1> HIDE DEF a0, a1, c0, c1, b, A
<1>6. \A k \in 0 .. 7 : e[k] \in Nat
  BY <1>3, EightAt
<1>7. DecodedColours(b) = f /\ DecodedAlphas(b) = IF a0 > a1 THEN e ELSE SixAlphas(a0, a1)
  BY <1>5 DEF DecodedColours, DecodedAlphas
<1>8. e[0] = a0 /\ e[1] = a1 /\ SixAlphas(a0, a1)[0] = a0
  BY DEF EightAlphas, SixAlphas
<1>9. ASSUME NEW s \in Spots
      PROVE  LET d == DecodeDxtTexel(b, s) IN
             /\ Abs(d.a - t[s].a) <= (a0 - a1) \div 14 + 1
             /\ t[s].a \in {a0, a1} => d.a = t[s].a
  <2> DEFINE m == NearestAlphas(t, e)[s]
             d == DecodeDxtTexel(b, s)
  <2>1. /\ m \in 0 .. 7 /\ \A k \in 0 .. 7 : Abs(t[s].a - e[k]) >= Abs(t[s].a - e[m])
        /\ \A k \in 0 .. 7 : e[k] = t[s].a => e[m] = t[s].a /\ m <= k
    <3> HIDE DEF e
    <3>1. t[s].a \in Int /\ \A k \in 0 .. 7 : e[k] \in Int
      BY <1>3, <1>6
    <3>2. /\ m \in 0 .. 7 /\ \A k \in 0 .. 7 : Abs(t[s].a - e[m]) <= Abs(t[s].a - e[k])
          /\ \A k \in 0 .. 7 : e[k] = t[s].a => e[m] = t[s].a /\ m <= k
      BY <3>1, NearestAlphaAt
    <3>3. \A k \in 0 .. 7 : Abs(t[s].a - e[k]) \in Nat
      BY <3>1, AbsNatural
    <3>4. QED
      BY <3>2, <3>3
  <2>2. d.a = DecodedAlphas(b)[m]
    BY <1>5, Dxt5Decodes
  <2>3. PICK k \in 0 .. 7 : Abs(t[s].a - e[k]) <= (a0 - a1) \div 14 + 1
    BY <1>3, HalfStep
  <2> HIDE DEF e, m, d
  <2>4. CASE a0 > a1
    <3>1. d.a = e[m]
      BY <1>7, <2>2, <2>4
    <3>2. Abs(e[m] - t[s].a) = Abs(t[s].a - e[m])
      BY <1>3, <1>6, <2>1 DEF Abs
    <3>3. Abs(t[s].a - e[m]) \in Int /\ Abs(t[s].a - e[k]) \in Int /\ (a0 - a1) \div 14 + 1 \in Int
      BY <1>3, <1>6, <2>1, AbsNatural
    <3>4. Abs(t[s].a - e[m]) <= (a0 - a1) \div 14 + 1
      BY <2>1, <2>3, <3>3
    <3>5. t[s].a \in {a0, a1} => e[m] = t[s].a
      BY <1>8, <2>1
    <3>6. QED
      BY <3>1, <3>2, <3>4, <3>5 DEF d
  <2>5. CASE ~(a0 > a1)
    <3>1. a0 = a1 /\ t[s].a = a0
      BY <1>3, <2>5
    <3>2. m = 0
      BY <1>8, <2>1, <3>1
    <3>3. d.a = t[s].a
      BY <1>7, <1>8, <2>2, <2>5, <3>1, <3>2
    <3>4. Abs(d.a - t[s].a) = 0 /\ (a0 - a1) \div 14 + 1 >= 0
      BY <1>3, <3>1, <3>3 DEF Abs
    <3>5. QED
      BY <3>3, <3>4, <1>3 DEF d
  <2>6. QED
    BY <1>3, <2>4, <2>5
<1>10. ASSUME NEW s \in Spots, NEW k \in 0 .. 3
       PROVE  Distance(DecodeDxtTexel(b, s).rgb, t[s].rgb) <= Distance(DecodedColours(b)[k], t[s].rgb)
  <2> DEFINE m == b.ci[s]
             x == t[s].rgb
  <2>1. \A i \in 1 .. 3 : x[i] \in Int
    <3>1. \A i \in 1 .. 3 : x[i] \in 0 .. 255
      BY KindsTyped
    <3>2. QED
      BY <3>1
  <2>2. \A j \in 0 .. 3, i \in 1 .. 3 : f[j][i] \in Int
    BY <1>4
  <2>3. m \in 0 .. 3 /\ Distance(x, f[m]) <= Distance(x, f[k])
    <3>1. CASE c0 = c1
      <4>1. m = 0
        BY <1>5, <3>1
      <4>2. \A i \in 1 .. 3 : f[m][i] = f[k][i]
        BY <1>4, <3>1, <4>1
      <4>3. Distance(x, f[m]) = Distance(x, f[k])
        BY <4>2 DEF Distance
      <4>4. Distance(x, f[m]) \in Nat
        <5> HIDE DEF f, x
        <5>1. QED
          BY <2>1, <2>2, <4>1, DistanceNatural
      <4>5. QED
        BY <4>1, <4>3, <4>4
    <3>2. CASE c0 # c1
      <4>1. m = NearestColours(t, f)[s]
        BY <1>5, <3>2
      <4> HIDE DEF f
      <4>2. QED
        BY <2>1, <2>2, <4>1, NearestColourAt
    <3>3. QED
      BY <3>1, <3>2
  <2>4. Distance(x, f[m]) = Distance(f[m], x) /\ Distance(x, f[k]) = Distance(f[k], x)
    <3> HIDE DEF f, x
    <3>1. QED
      BY <2>1, <2>2, <2>3, DistanceSymmetric
  <2>5. DecodeDxtTexel(b, s).rgb = f[m]
    BY <1>5, <1>7, Dxt5Decodes
  <2>6. QED
    BY <1>7, <2>3, <2>4, <2>5
<1>11. QED
  BY <1>1, <1>5, <1>9, <1>10 DEF BlockIsNear, b

LEMMA BlockTyped ==
    ASSUME NEW b \in Dxt1Blocks, NEW s \in Spots
    PROVE  /\ b.kind = "dxt1" /\ b.ci[s] \in 0 .. 3
           /\ \A i \in 1 .. 3 : b.c0[i] \in Nat /\ b.c1[i] \in Nat
<1>1. b.kind = "dxt1" /\ b.c0 \in Packed /\ b.c1 \in Packed /\ b.ci \in [Spots -> 0 .. 3]
  BY DEF Dxt1Blocks
<1>2. b.c0 \in [1 .. 3 -> 0 .. 63] /\ b.c1 \in [1 .. 3 -> 0 .. 63]
  BY <1>1, PixelsAssumption
<1>3. \A i \in 1 .. 3 : b.c0[i] \in 0 .. 63 /\ b.c1[i] \in 0 .. 63
  BY <1>2
<1>4. QED
  BY <1>1, <1>3

LEMMA ScaledNatural ==
    ASSUME NEW p, \A i \in 1 .. 3 : p[i] \in Nat, NEW i \in 1 .. 3
    PROVE  Unpack565Scaled(p)[i] \in Nat
<1>1. i = 1 \/ i = 2 \/ i = 3
  OBVIOUS
<1>2. p[1] \in Nat /\ p[2] \in Nat /\ p[3] \in Nat
  OBVIOUS
<1>3. QED
  BY <1>1, <1>2 DEF Unpack565Scaled

LEMMA Dxt1TexelNatural ==
    ASSUME NEW b \in Dxt1Blocks, NEW s \in Spots, NEW i \in 1 .. 3
    PROVE  Dxt1Texel(b, s)[i] \in Nat
<1> DEFINE e0 == Unpack565Scaled(b.c0)
           e1 == Unpack565Scaled(b.c1)
<1>1. \A j \in 1 .. 3 : e0[j] \in Nat /\ e1[j] \in Nat
  BY BlockTyped, ScaledNatural
<1>2. b.ci[s] \in 0 .. 3
  BY BlockTyped
<1>3. Dxt1Texel(b, s) = FourColours(e0, e1)[b.ci[s]]
  BY DEF Dxt1Texel
<1> HIDE DEF e0, e1
<1>4. QED
  BY <1>1, <1>2, <1>3, ColoursAt

LEMMA LumaAlphaTyped ==
    ASSUME NEW c, \A i \in 1 .. 3 : c[i] \in Nat
    PROVE  LumaAlpha(c) \in 0 .. 255
<1>1. c[1] \in Nat /\ c[2] \in Nat /\ c[3] \in Nat
  OBVIOUS
<1>2. Luminance(c) \in Int
  BY <1>1 DEF Luminance
<1>3. QED
  BY <1>2 DEF LumaAlpha, Clamp255

LEMMA FixedAt ==
    /\ FixedLevels[0] = 255 /\ FixedLevels[1] = 0
    /\ \A k \in 0 .. 7 : /\ FixedLevels[k] \in Int
                         /\ FixedLevels[k] = 255 => k = 0
                         /\ FixedLevels[k] = 0 => k = 1
<1>1. \A k \in 0 .. 7 : k = 0 \/ k = 1 \/ k = 2 \/ k = 3 \/ k = 4 \/ k = 5 \/ k = 6 \/ k = 7
  OBVIOUS
<1>2. QED
  BY <1>1 DEF FixedLevels

LEMMA LumaAlphaStays ==
    ASSUME block \in Dxt1Blocks, Dxt1ToDxt5LumaAlpha
    PROVE  LightStays'
<1> DEFINE t == texels'
           b == block'
<1>1. t = Premultiplied(block) /\ b = LumaBlock(t)
  BY DEF Dxt1ToDxt5LumaAlpha
<1>2. b.kind = "dxt5" /\ b.a0 = 255 /\ b.a1 = 0 /\ b.ai = NearestAlphas(t, FixedLevels)
  BY <1>1 DEF LumaBlock, Dxt5Block
<1>3. DecodedAlphas(b)[0] = 255 /\ DecodedAlphas(b)[1] = 0
  <2>1. DecodedAlphas(b) = EightAlphas(255, 0)
    BY <1>2 DEF DecodedAlphas
  <2>2. QED
    BY <2>1 DEF EightAlphas
<1> HIDE DEF t, b
<1>4. ASSUME NEW s \in Spots
      PROVE  /\ t[s].a \in {0, 255} => DecodeDxtTexel(b, s).a = t[s].a
             /\ t[s].a = 0 => t[s].rgb = <<0, 0, 0>>
  <2> DEFINE c == Dxt1Texel(block, s)
             m == NearestAlphas(t, FixedLevels)[s]
  <2>1. t[s].a = LumaAlpha(c) /\ t[s].rgb = [i \in 1 .. 3 |-> (c[i] * LumaAlpha(c)) \div 255]
    BY <1>1 DEF Premultiplied
  <2>2. \A i \in 1 .. 3 : c[i] \in Nat
    BY Dxt1TexelNatural
  <2> HIDE DEF c
  <2>3. t[s].a \in Int
    <3>1. LumaAlpha(c) \in 0 .. 255
      BY <2>2, LumaAlphaTyped
    <3>2. QED
      BY <2>1, <3>1
  <2>4. /\ m \in 0 .. 7
        /\ \A k \in 0 .. 7 : FixedLevels[k] = t[s].a => FixedLevels[m] = t[s].a /\ m <= k
    BY <2>3, FixedAt, NearestAlphaAt
  <2>5. DecodeDxtTexel(b, s).a = DecodedAlphas(b)[m]
    BY <1>2, Dxt5Decodes
  <2> HIDE DEF m
  <2>6. t[s].a \in {0, 255} => DecodeDxtTexel(b, s).a = t[s].a
    <3>1. CASE t[s].a = 0
      <4>1. m = 1
        BY <2>4, <3>1, FixedAt
      <4>2. QED
        BY <1>3, <2>5, <3>1, <4>1
    <3>2. CASE t[s].a = 255
      <4>1. m = 0
        BY <2>4, <3>2, FixedAt
      <4>2. QED
        BY <1>3, <2>5, <3>2, <4>1
    <3>3. QED
      BY <3>1, <3>2
  <2>7. ASSUME t[s].a = 0
        PROVE  t[s].rgb = <<0, 0, 0>>
    <3>1. \A i \in 1 .. 3 : (c[i] * LumaAlpha(c)) \div 255 = 0
      <4>1. LumaAlpha(c) = 0
        BY <2>1, <2>7
      <4>2. \A i \in 1 .. 3 : c[i] * 0 = 0
        BY <2>2
      <4>3. QED
        BY <4>1, <4>2
    <3>2. t[s].rgb = [i \in 1 .. 3 |-> 0]
      BY <2>1, <3>1
    <3>3. [i \in 1 .. 3 |-> 0] = <<0, 0, 0>>
      OBVIOUS
    <3>4. QED
      BY <3>2, <3>3
  <2>8. QED
    BY <2>6, <2>7
<1>5. QED
  BY <1>4 DEF LightStays, t, b

LEMMA DecodeDxtMipStays ==
    ASSUME block \in Dxt1Blocks, DecodeDxtMip
    PROVE  OpaqueStays'
<1>1. texels' = [s \in Spots |-> DecodeDxtTexel(block, s)] /\ block' = block
  BY DEF DecodeDxtMip
<1>2. ASSUME block.alphaDepth = 0, NEW s \in Spots
      PROVE  DecodeDxtTexel(block, s).a = 255
  BY <1>2, BlockTyped DEF DecodeDxtTexel, Punches
<1>3. QED
  BY <1>1, <1>2 DEF OpaqueStays

-----------------------------------------------------------------------------
(* The median cut.  Its boxes always partition the counted colours, so that *)
(* with as many boxes as colours, or none left to cut, each holds one.      *)
LEMMA FoldOfOne ==
    ASSUME NEW x, x[1] \in Int, x[2] \in Int, x[3] \in Int, NEW i \in 1 .. 3, Total({x}) \in Int
    PROVE  FoldSet(LAMBDA c, n : n + c[i] * Total({c}), 0, {x}) = x[i] * Total({x})
<1> DEFINE some(s) == CHOOSE y \in s : TRUE
           h == [s \in SUBSET {x} |-> IF s = {} THEN 0 ELSE 0 + x[i] * Total({x})]
           It(f) == f = [s \in SUBSET {x} |-> IF s = {} THEN 0
                                              ELSE f[s \ {some(s)}] + some(s)[i] * Total({some(s)})]
           g == CHOOSE f : It(f)
<1>1. FoldSet(LAMBDA c, n : n + c[i] * Total({c}), 0, {x}) = g[{x}]
  BY DEF FoldSet, MapThenFoldSet
<1>2. \A s \in SUBSET {x} : s = {} \/ s = {x}
  OBVIOUS
<1>3. some({x}) = x
  OBVIOUS
<1>4. It(h)
  <2>1. \A s \in SUBSET {x} : s # {} => /\ some(s) = x
                                        /\ h[s \ {some(s)}] + some(s)[i] * Total({some(s)}) = 0 + x[i] * Total({x})
    <3>1. h[{}] = 0
      OBVIOUS
    <3>2. {x} \ {x} = {}
      OBVIOUS
    <3> HIDE DEF h, some
    <3>3. QED
      BY <1>2, <1>3, <3>1, <3>2
  <2> HIDE DEF some
  <2>2. QED
    BY <2>1
<1>5. It(g)
  <2> HIDE DEF h, It
  <2>1. QED
    BY <1>4
<1>6. g[{x}] = g[{x} \ {some({x})}] + some({x})[i] * Total({some({x})})
  <2>1. {x} \in SUBSET {x} /\ {x} # {}
    OBVIOUS
  <2> HIDE DEF g, some
  <2>2. QED
    BY <1>5, <2>1
<1>7. g[{}] = 0
  <2>1. {} \in SUBSET {x}
    OBVIOUS
  <2> HIDE DEF g, some
  <2>2. QED
    BY <1>5, <2>1
<1>8. x[i] \in Int
  <2>1. i = 1 \/ i = 2 \/ i = 3
    OBVIOUS
  <2>2. QED
    BY <2>1
<1>9. {x} \ {x} = {}
  OBVIOUS
<1> HIDE DEF g, some, h, It
<1>10. g[{x}] = 0 + x[i] * Total({x})
  BY <1>3, <1>6, <1>7, <1>9
<1>11. x[i] * Total({x}) \in Int
  BY <1>8
<1>12. g[{x}] = x[i] * Total({x})
  BY <1>10, <1>11
<1>13. QED
  BY <1>1, <1>12, Zenon

Centres == {Centre(c) : c \in Seen}
Counted == IF Seen = {} THEN {<<0, 0, 0>>} ELSE Centres
Boxed ==
    /\ counts \in [ImageColours -> 0 .. MostOf]
    /\ boxes \in Seq(SUBSET Counted) /\ Len(boxes) \in 1 .. PaletteSize
    /\ \A k \in 1 .. Len(boxes) : boxes[k] # {}
    /\ \A k, l \in 1 .. Len(boxes) : k # l => boxes[k] \cap boxes[l] = {}
    /\ \A x \in Counted : \E k \in 1 .. Len(boxes) : x \in boxes[k]

LEMMA CentreTyped ==
    ASSUME NEW c \in ImageColours
    PROVE  Centre(c) \in [1 .. 3 -> 0 .. 255]
<1>1. c \in [1 .. 3 -> 0 .. 255]
  BY PixelsAssumption DEF Bytes
<1>2. c[1] \in 0 .. 255 /\ c[2] \in 0 .. 255 /\ c[3] \in 0 .. 255
  BY <1>1
<1>3. \A i \in 1 .. 3 : ColorKey(c)[i] \in 0 .. 31
  <2>1. \A i \in 1 .. 3 : i = 1 \/ i = 2 \/ i = 3
    OBVIOUS
  <2>2. \A v \in 0 .. 255 : v \div 8 \in 0 .. 31
    OBVIOUS
  <2>3. QED
    BY <1>2, <2>1, <2>2 DEF ColorKey
<1>4. Centre(c) = [i \in 1 .. 3 |-> (ColorKey(c)[i] * 255 + 15) \div 31]
  BY DEF Centre, KeyCenter
<1>5. \A v \in 0 .. 31 : (v * 255 + 15) \div 31 \in 0 .. 255
  OBVIOUS
<1> HIDE DEF ColorKey
<1>6. QED
  BY <1>3, <1>4, <1>5

LEMMA CountedTyped ==
    ASSUME NEW x \in Counted
    PROVE  /\ x \in [1 .. 3 -> 0 .. 255]
           /\ \A i \in 1 .. 3 : x[i] \in 0 .. 255 /\ x[i] \in Nat
           /\ x[1] \in Int /\ x[2] \in Int /\ x[3] \in Int
<1>1. x \in [1 .. 3 -> 0 .. 255]
  <2>1. CASE Seen = {}
    <3>1. <<0, 0, 0>> \in [1 .. 3 -> 0 .. 255]
      OBVIOUS
    <3>2. QED
      BY <2>1, <3>1 DEF Counted
  <2>2. CASE Seen # {}
    BY <2>2, CentreTyped DEF Counted, Centres, Seen
  <2>3. QED
    BY <2>1, <2>2
<1>2. \A i \in 1 .. 3 : x[i] \in 0 .. 255
  BY <1>1
<1>3. QED
  BY <1>1, <1>2

LEMMA SeenFinite == IsFiniteSet(Seen) /\ IsFiniteSet(Pixels) /\ Seen \subseteq ImageColours
<1>1. Seen \in SUBSET ImageColours
  BY DEF Seen
<1>2. IsFiniteSet(Seen)
  BY <1>1, PixelsAssumption, FS_Subset
<1>3. IsFiniteSet(1 .. MostOf)
  BY PixelsAssumption, FS_Interval
<1>4. IsFiniteSet(Seen \X (1 .. MostOf))
  BY <1>2, <1>3, FS_Product
<1>5. Pixels \in SUBSET (Seen \X (1 .. MostOf))
  BY DEF Pixels
<1>6. QED
  BY <1>1, <1>2, <1>4, <1>5, FS_Subset

LEMMA TotalNatural ==
    ASSUME NEW box
    PROVE  Total(box) \in Nat
<1>1. {p \in Pixels : Centre(p[1]) \in box} \in SUBSET Pixels
  OBVIOUS
<1>2. QED
  BY <1>1, SeenFinite, FS_Subset, FS_CardinalityType DEF Total

LEMMA TotalPositive ==
    ASSUME counts \in [ImageColours -> 0 .. MostOf], NEW box, NEW x \in box, x \in Centres
    PROVE  Total(box) \in Nat \ {0}
<1>1. PICK c \in Seen : x = Centre(c)
  BY DEF Centres
<1>2. counts[c] \in 0 .. MostOf /\ counts[c] > 0
  BY <1>1 DEF Seen
<1>3. <<c, 1>> \in Pixels
  BY <1>2, PixelsAssumption DEF Pixels
<1> DEFINE S == {p \in Pixels : Centre(p[1]) \in box}
<1>4. <<c, 1>> \in S
  BY <1>1, <1>3
<1>5. S \in SUBSET Pixels
  OBVIOUS
<1>6. Total(box) = Cardinality(S)
  BY DEF Total
<1> HIDE DEF S
<1>7. IsFiniteSet(S)
  BY <1>5, SeenFinite, FS_Subset
<1>8. QED
  BY <1>4, <1>6, <1>7, FS_EmptySet, FS_CardinalityType

LEMMA SideTyped ==
    ASSUME NEW box \in SUBSET Counted, box # {}, NEW i \in 1 .. 3
    PROVE  /\ Side(box, i) \in 0 .. 255
           /\ Side(box, i) = 0 => \A x, y \in box : x[i] = y[i]
<1> DEFINE S == {c[i] : c \in box}
<1>1. S \subseteq Nat /\ S # {} /\ \A y \in S : y \in 0 .. 255 /\ y <= 255
  <2>1. \A c \in box : c[i] \in 0 .. 255
    BY CountedTyped
  <2>2. QED
    BY <2>1
<1>2. Side(box, i) = Most(S) - Least(S)
  BY DEF Side
<1>3. \A x \in box : x[i] \in S
  OBVIOUS
<1> HIDE DEF S
<1>4. Most(S) \in S /\ Least(S) \in S /\ \A y \in S : Least(S) <= y /\ y <= Most(S)
  BY <1>1, MostIs, LeastIs
<1>5. Most(S) \in 0 .. 255 /\ Least(S) \in 0 .. 255 /\ Least(S) <= Most(S)
  BY <1>1, <1>4
<1>5a. Side(box, i) \in 0 .. 255
  BY <1>2, <1>5
<1>6. ASSUME Side(box, i) = 0, NEW x \in box, NEW y \in box
      PROVE  x[i] = y[i]
  <2>1. Most(S) = Least(S)
    BY <1>2, <1>5, <1>6
  <2>2. x[i] \in S /\ y[i] \in S
    BY <1>3
  <2>3. x[i] \in 0 .. 255 /\ y[i] \in 0 .. 255
    BY <1>1, <2>2
  <2>4. x[i] <= Most(S) /\ Most(S) <= x[i] /\ y[i] <= Most(S) /\ Most(S) <= y[i]
    BY <1>4, <2>1, <2>2
  <2>5. \A u, v, m \in 0 .. 255 : u <= m /\ m <= u /\ v <= m /\ m <= v => u = v
    OBVIOUS
  <2>6. QED
    BY <1>5, <2>3, <2>4, <2>5, Zenon
<1>7. QED
  BY <1>5a, <1>6

ScoreBound == 16711425
LEMMA ScoreTyped ==
    ASSUME NEW box \in SUBSET Counted, box # {}
    PROVE  /\ Score(box) \in Nat /\ Score(box) <= ScoreBound
           /\ Score(box) = 0 /\ Total(box) # 0 => \A x, y \in box : x = y
<1> DEFINE L == {Side(box, i) : i \in 1 .. 3}
           n == IF Total(box) < 65535 THEN Total(box) ELSE 65535
<1>1. L \subseteq Nat /\ L # {} /\ \A y \in L : y \in 0 .. 255 /\ y <= 255
  <2>1. \A i \in 1 .. 3 : Side(box, i) \in 0 .. 255
    BY SideTyped
  <2>2. 1 \in 1 .. 3
    OBVIOUS
  <2>3. QED
    BY <2>1, <2>2
<1>2. LongestSide(box) = Most(L) /\ \A i \in 1 .. 3 : Side(box, i) \in L
  BY DEF LongestSide
<1> HIDE DEF L
<1>3. LongestSide(box) \in 0 .. 255 /\ \A i \in 1 .. 3 : Side(box, i) <= LongestSide(box)
  BY <1>1, <1>2, MostIs
<1>4. n \in Nat /\ n <= 65535 /\ (n = 0 => Total(box) = 0)
  BY TotalNatural
<1>5. Score(box) = LongestSide(box) * n
  BY DEF Score
<1> HIDE DEF n
<1>6. ASSUME NEW l \in Nat, NEW m \in Nat, l <= 255, m <= 65535
      PROVE  l * m \in Nat /\ l * m <= ScoreBound /\ (l * m = 0 => l = 0 \/ m = 0)
  <2>1. l * m <= 255 * m
    BY <1>6
  <2>2. 255 * m <= ScoreBound /\ ScoreBound \in Int
    BY <1>6 DEF ScoreBound
  <2>3. l * m \in Nat /\ (l * m = 0 => l = 0 \/ m = 0)
    OBVIOUS
  <2>4. \A a, b, c \in Int : a <= b /\ b <= c => a <= c
    OBVIOUS
  <2>5. QED
    BY <2>1, <2>2, <2>3, <2>4
<1>7a. LongestSide(box) \in Nat /\ n \in Nat /\ LongestSide(box) <= 255 /\ n <= 65535
  BY <1>3, <1>4
<1>7. Score(box) \in Nat /\ Score(box) <= ScoreBound
  BY <1>5, <1>6, <1>7a
<1>8. ASSUME Score(box) = 0, Total(box) # 0, NEW x \in box, NEW y \in box
      PROVE  x = y
  <2>1. LongestSide(box) = 0
    BY <1>4, <1>5, <1>6, <1>7a, <1>8
  <2>2. \A i \in 1 .. 3 : Side(box, i) = 0
    <3>1. \A i \in 1 .. 3 : Side(box, i) \in 0 .. 255
      BY SideTyped
    <3>2. QED
      BY <1>3, <2>1, <3>1
  <2>3. \A i \in 1 .. 3 : x[i] = y[i]
    BY <2>2, SideTyped
  <2>4. x \in [1 .. 3 -> 0 .. 255] /\ y \in [1 .. 3 -> 0 .. 255]
    BY CountedTyped
  <2>5. QED
    BY <2>3, <2>4
<1>9. QED
  BY <1>7, <1>8

LEMMA BestIsBox ==
    ASSUME Boxed, Cuttable # {}
    PROVE  Best \in 1 .. Len(boxes)
<1> DEFINE R == {Score(boxes[i]) : i \in Cuttable}
           N == {i \in Cuttable : \A j \in Cuttable : Score(boxes[j]) <= Score(boxes[i])}
<1>1. DOMAIN boxes = 1 .. Len(boxes) /\ \A i \in 1 .. Len(boxes) : boxes[i] \in SUBSET Counted /\ boxes[i] # {}
  BY DEF Boxed
<1>2. Cuttable \subseteq 1 .. Len(boxes)
  BY <1>1 DEF Cuttable
<1>3. \A i \in Cuttable : Score(boxes[i]) \in Nat /\ Score(boxes[i]) <= ScoreBound
  BY <1>1, <1>2, ScoreTyped
<1>4. R \subseteq Nat /\ R # {} /\ \A y \in R : y <= ScoreBound
  BY <1>3
<1>5. PICK i \in Cuttable : \A j \in Cuttable : Score(boxes[j]) <= Score(boxes[i])
  <2>1. \A j \in Cuttable : Score(boxes[j]) \in R
    OBVIOUS
  <2>2. \A r \in R : \E i \in Cuttable : r = Score(boxes[i])
    OBVIOUS
  <2> HIDE DEF R
  <2>3. Most(R) \in R /\ \A y \in R : y <= Most(R)
    <3>1. ScoreBound \in Nat /\ \A y \in R : y <= ScoreBound
      BY <1>4 DEF ScoreBound
    <3>2. R \subseteq Nat /\ R # {}
      BY <1>4
    <3>3. QED
      BY <3>1, <3>2, MostIs
  <2>4. QED
    BY <2>1, <2>2, <2>3
<1>6. N # {} /\ N \subseteq Cuttable /\ N \subseteq Nat
  <2>1. Cuttable \subseteq Nat
    BY <1>2
  <2>2. QED
    BY <1>5, <2>1
<1>7. Best = Least(N)
  BY DEF Best
<1> HIDE DEF N
<1>8. QED
  BY <1>2, <1>6, <1>7, LeastIs

LEMMA StartPaletteBoxes ==
    ASSUME counts \in [ImageColours -> 0 .. MostOf], StartPalette
    PROVE  Boxed'
<1>1. counts' = counts
  BY DEF StartPalette
<1>2. boxes' = <<Counted>>
  BY DEF StartPalette, Counted, Centres
<1>3. Counted' = Counted
  BY <1>1 DEF Counted, Centres, Seen
<1>4. Counted # {}
  BY DEF Counted, Centres
<1>5. <<Counted>> \in Seq(SUBSET Counted) /\ Len(<<Counted>>) = 1 /\ <<Counted>>[1] = Counted
  OBVIOUS
<1>6. 1 \in 1 .. PaletteSize
  BY PixelsAssumption
<1> DEFINE bs == <<Counted>>
           m == Counted
<1> HIDE DEF bs, m
<1>7. bs = boxes' /\ m = Counted /\ bs \in Seq(SUBSET m) /\ Len(bs) = 1 /\ bs[1] = m /\ m # {}
  BY <1>2, <1>4, <1>5 DEF bs, m
<1>8. /\ bs \in Seq(SUBSET m) /\ Len(bs) \in 1 .. PaletteSize
      /\ \A k \in 1 .. Len(bs) : bs[k] # {}
      /\ \A k, l \in 1 .. Len(bs) : k # l => bs[k] \cap bs[l] = {}
      /\ \A x \in m : \E k \in 1 .. Len(bs) : x \in bs[k]
  BY <1>6, <1>7
<1>9. QED
  BY <1>1, <1>3, <1>7, <1>8 DEF Boxed

LEMMA CutBoxBoxes ==
    ASSUME Boxed, CutBox
    PROVE  Boxed'
<1>1. counts' = counts /\ Len(boxes) < PaletteSize /\ Cuttable # {}
  BY DEF CutBox
<1>2. PICK left \in SUBSET boxes[Best] :
         /\ IsCut(boxes[Best], left)
         /\ boxes' = Append([boxes EXCEPT ![Best] = left], boxes[Best] \ left)
  BY DEF CutBox
<1> DEFINE b == Best
           n == Len(boxes)
           right == boxes[b] \ left
           cut == [boxes EXCEPT ![b] = left]
           bs == Append(cut, right)
           m == Counted
<1>3. b \in 1 .. n /\ n \in 1 .. PaletteSize /\ n + 1 <= PaletteSize
  BY <1>1, BestIsBox, PixelsAssumption DEF Boxed
<1>4. left # {} /\ right # {} /\ left \subseteq boxes[b]
  BY <1>2 DEF IsCut
<1>5. Counted' = Counted
  BY <1>1 DEF Counted, Centres, Seen
<1>6. /\ boxes \in Seq(SUBSET m)
      /\ \A k \in 1 .. n : boxes[k] # {} /\ boxes[k] \subseteq m
      /\ \A k, l \in 1 .. n : k # l => boxes[k] \cap boxes[l] = {}
      /\ \A x \in m : \E k \in 1 .. n : x \in boxes[k]
  BY DEF Boxed
<1> HIDE DEF b, m
<1>7. cut \in Seq(SUBSET m) /\ Len(cut) = n /\ cut[b] = left /\ \A k \in 1 .. n : k # b => cut[k] = boxes[k]
  BY <1>3, <1>4, <1>6
<1>8. right \in SUBSET m
  BY <1>3, <1>6
<1> HIDE DEF cut, right
<1>9. /\ bs \in Seq(SUBSET m) /\ Len(bs) = n + 1 /\ bs[n + 1] = right
      /\ bs[b] = left /\ \A k \in 1 .. n : k # b => bs[k] = boxes[k]
  BY <1>3, <1>7, <1>8
<1>10. boxes' = bs
  BY <1>2 DEF b, cut, right
<1> HIDE DEF bs, n
<1>11. \A k \in 1 .. n + 1 : k = n + 1 \/ k = b \/ (k \in 1 .. n /\ k # b)
  BY <1>3
<1>12. \A k \in 1 .. n + 1 : bs[k] # {}
  BY <1>4, <1>6, <1>9, <1>11
<1>13. left \cap right = {} /\ right \subseteq boxes[b] /\ \A x \in boxes[b] : x \in left \/ x \in right
  BY DEF right
<1>14. ASSUME NEW k \in 1 .. n + 1, NEW l \in 1 .. n + 1, k # l
       PROVE  bs[k] \cap bs[l] = {}
  <2>1. ASSUME NEW i \in 1 .. n + 1
        PROVE  /\ i = n + 1 => bs[i] = right
               /\ i = b => bs[i] = left
               /\ i # n + 1 /\ i # b => i \in 1 .. n /\ bs[i] = boxes[i] /\ bs[i] \cap boxes[b] = {}
    BY <1>3, <1>6, <1>9, <1>11
  <2>2. CASE k \in {b, n + 1} /\ l \in {b, n + 1}
    BY <1>13, <1>14, <2>1, <2>2
  <2>3. CASE k \notin {b, n + 1} /\ l \in {b, n + 1}
    BY <1>4, <1>13, <2>1, <2>3
  <2>4. CASE k \in {b, n + 1} /\ l \notin {b, n + 1}
    BY <1>4, <1>13, <2>1, <2>4
  <2>5. CASE k \notin {b, n + 1} /\ l \notin {b, n + 1}
    BY <1>6, <1>14, <2>1, <2>5
  <2>6. QED
    BY <2>2, <2>3, <2>4, <2>5
<1>15. ASSUME NEW x \in m
       PROVE  \E k \in 1 .. n + 1 : x \in bs[k]
  <2>1. PICK k \in 1 .. n : x \in boxes[k]
    BY <1>6
  <2>2. b \in 1 .. n + 1 /\ n + 1 \in 1 .. n + 1 /\ k \in 1 .. n + 1
    BY <1>3
  <2>3. CASE k = b
    BY <1>9, <1>13, <2>1, <2>2, <2>3
  <2>4. CASE k # b
    BY <1>9, <2>1, <2>2, <2>4
  <2>5. QED
    BY <2>3, <2>4
<1>16. n + 1 \in 1 .. PaletteSize
  BY <1>3, PixelsAssumption
<1>17. QED
  BY <1>1, <1>5, <1>9, <1>10, <1>12, <1>14, <1>15, <1>16 DEF Boxed, m

LEMMA CentresFinite == IsFiniteSet(Centres) /\ Cardinality(Centres) \in Nat
<1> DEFINE f == [c \in Seen |-> Centre(c)]
<1>1. f \in Surjection(Seen, Centres)
  BY DEF Surjection, Centres
<1>2. IsFiniteSet(Centres)
  BY <1>1, SeenFinite, FS_Surjection
<1>3. QED
  BY <1>2, FS_CardinalityType

\* With as many boxes as colours, no box has two.
LEMMA AsManyBoxes ==
    ASSUME Boxed, Seen # {}, Cardinality(Centres) <= Len(boxes),
           NEW k \in 1 .. Len(boxes), NEW x \in boxes[k], NEW y \in boxes[k]
    PROVE  x = y
<1> SUFFICES ASSUME x # y PROVE FALSE
  OBVIOUS
<1> DEFINE n == Len(boxes)
           T == Centres \ {y}
           f == [j \in 1 .. n |-> IF j = k THEN x ELSE CHOOSE z \in boxes[j] : TRUE]
<1>1. /\ n \in Nat /\ Counted = Centres
      /\ \A j \in 1 .. n : boxes[j] # {} /\ boxes[j] \subseteq Centres
      /\ \A j, l \in 1 .. n : j # l => boxes[j] \cap boxes[l] = {}
  BY DEF Boxed, Counted
<1>2. \A j \in 1 .. n : f[j] \in boxes[j] /\ (j = k => f[j] = x)
  BY <1>1
<1> HIDE DEF f, n
<1>3. f \in [1 .. n -> T]
  <2>1. \A j \in 1 .. n : f[j] \in T
    <3> TAKE j \in 1 .. n
    <3>1. f[j] \in Centres
      BY <1>1, <1>2
    <3>2. f[j] # y
      <4>1. CASE j = k
        BY <1>2, <4>1
      <4>2. CASE j # k
        <5>1. y \notin boxes[j]
          BY <1>1, <4>2 DEF n
        <5>2. QED
          BY <1>2, <5>1
      <4>3. QED
        BY <4>1, <4>2
    <3>3. QED
      BY <3>1, <3>2
  <2>2. f = [j \in 1 .. n |-> f[j]]
    BY DEF f
  <2>3. QED
    BY <2>1, <2>2
<1>4. y \in Centres
  BY <1>1 DEF n
<1>5. IsFiniteSet(T) /\ Cardinality(T) = Cardinality(Centres) - 1
  BY <1>4, CentresFinite, FS_RemoveElement
<1>6. IsFiniteSet(1 .. n) /\ Cardinality(1 .. n) = n
  <2>0. n \in Int /\ 1 \in Int
    BY <1>1
  <2>1. IsFiniteSet(1 .. n) /\ Cardinality(1 .. n) = IF 1 > n THEN 0 ELSE n - 1 + 1
    BY <2>0, FS_Interval
  <2>2. QED
    BY <1>1, <2>1
<1>7. Cardinality(T) < Cardinality(1 .. n)
  BY <1>1, <1>5, <1>6, CentresFinite DEF n
<1> HIDE DEF T
<1>8. PICK i, j \in 1 .. n : i # j /\ f[i] = f[j]
  BY <1>3, <1>5, <1>6, <1>7, FS_PigeonHole
<1>9. f[i] \in boxes[i] \cap boxes[j]
  BY <1>2, <1>8
<1>10. QED
  BY <1>1, <1>8, <1>9

LEMMA AverageOfOne ==
    ASSUME counts \in [ImageColours -> 0 .. MostOf], NEW x \in Centres
    PROVE  Average({x}) = x
<1>1. Seen # {} /\ Counted = Centres
  BY DEF Counted, Centres
<1>2. /\ x \in [1 .. 3 -> 0 .. 255] /\ \A i \in 1 .. 3 : x[i] \in Nat
      /\ x[1] \in Int /\ x[2] \in Int /\ x[3] \in Int
  BY <1>1, CountedTyped
<1> DEFINE t == Total({x})
<1>3. t \in Nat \ {0}
  BY TotalPositive
<1>4. Most({1, t}) = t
  <2>1. \E u \in {1, t} : \A v \in {1, t} : v <= u
    BY <1>3
  <2>2. Most({1, t}) \in {1, t} /\ \A v \in {1, t} : v <= Most({1, t})
    BY <2>1 DEF Most
  <2>3. QED
    BY <1>3, <2>2
<1>5. ASSUME NEW i \in 1 .. 3
      PROVE  FoldSet(LAMBDA c, n : n + c[i] * Total({c}), 0, {x}) \div Most({1, Total({x})}) = x[i]
  <2>1. FoldSet(LAMBDA c, n : n + c[i] * Total({c}), 0, {x}) = x[i] * t
    <3>1. Total({x}) \in Int
      BY <1>3
    <3>2. FoldSet(LAMBDA c, n : n + c[i] * Total({c}), 0, {x}) = x[i] * Total({x})
      BY <1>2, <3>1, FoldOfOne, Zenon
    <3>3. QED
      BY <3>2, Zenon
  <2>2. x[i] \in Nat
    BY <1>2
  <2> HIDE DEF t
  <2>3. (x[i] * t) \div t = x[i]
    BY <1>3, <2>2
  <2>4. Total({x}) = t
    BY DEF t
  <2>5. QED
    BY <1>4, <2>1, <2>3, <2>4, Zenon
<1>6. Average({x}) = [i \in 1 .. 3 |-> x[i]]
  BY <1>5 DEF Average
<1>7. QED
  BY <1>2, <1>6

LEMMA FewColours ==
    ASSUME Boxed, Len(boxes) = PaletteSize \/ Cuttable = {}, Cardinality(Centres) <= PaletteSize
    PROVE  \A c \in Seen : PaletteEntry(PaletteMap(ColorKey(c))) = Centre(c)
<1> TAKE c \in Seen
<1> DEFINE n == Len(boxes)
           x == Centre(c)
           d == [k \in 1 .. PaletteSize |-> Distance(KeyCenter(ColorKey(c)), PaletteEntry(k))]
           m == NearestOf(d)
<1>1. Seen # {} /\ x \in Centres /\ Counted = Centres /\ KeyCenter(ColorKey(c)) = x
  BY DEF Counted, Centres, Centre
<1>2. /\ n \in 1 .. PaletteSize /\ PaletteSize \in Nat /\ DOMAIN boxes = 1 .. n
      /\ \A k \in 1 .. n : boxes[k] # {} /\ boxes[k] \in SUBSET Counted
      /\ \E k \in 1 .. n : x \in boxes[k]
      /\ counts \in [ImageColours -> 0 .. MostOf]
  BY <1>1, PixelsAssumption DEF Boxed
<1>3. ASSUME NEW k \in 1 .. n
      PROVE  \E z \in Centres : boxes[k] = {z}
  <2>1. \A u, v \in boxes[k] : u = v
    <3>1. CASE n = PaletteSize
      <4>1. Cardinality(Centres) <= Len(boxes)
        BY <3>1
      <4>2. QED
        BY <1>1, <4>1, AsManyBoxes
    <3>2. CASE Cuttable = {}
      <4>1. Score(boxes[k]) \in Nat /\ ~(Score(boxes[k]) > 0)
        BY <1>2, <3>2, ScoreTyped DEF Cuttable
      <4>2. Score(boxes[k]) = 0
        BY <4>1
      <4>3. Total(boxes[k]) # 0
        BY <1>1, <1>2, TotalPositive
      <4>4. QED
        BY <1>2, <4>2, <4>3, ScoreTyped
    <3>3. QED
      BY <3>1, <3>2
  <2>2. PICK z \in boxes[k] : TRUE
    BY <1>2
  <2>3. boxes[k] = {z}
    BY <2>1, <2>2
  <2>4. QED
    BY <1>1, <1>2, <2>2, <2>3
<1>4. \A z \in Centres : z \in [1 .. 3 -> 0 .. 255] /\ \A i \in 1 .. 3 : z[i] \in Nat
  BY <1>1, CountedTyped
<1>5. ASSUME NEW k \in 1 .. PaletteSize
      PROVE  PaletteEntry(k) \in Centres
  <2> DEFINE l == IF k <= Len(boxes) THEN k ELSE Len(boxes)
  <2>1. l \in 1 .. n
    <3>1. n \in 1 .. PaletteSize /\ PaletteSize \in Nat
      BY <1>2
    <3>2. QED
      BY <3>1
  <2>2. PaletteEntry(k) = Average(boxes[l])
    BY DEF PaletteEntry
  <2> HIDE DEF l
  <2>3. QED
    BY <1>2, <1>3, <2>1, <2>2, AverageOfOne
<1>6. PICK k \in 1 .. n : x \in boxes[k]
  BY <1>2
<1>7. k \in 1 .. PaletteSize /\ PaletteEntry(k) = x
  <2>1. boxes[k] = {x}
    BY <1>3, <1>6
  <2>2. k \in 1 .. PaletteSize /\ k <= Len(boxes)
    <3>1. n \in 1 .. PaletteSize /\ PaletteSize \in Nat
      BY <1>2
    <3>2. QED
      BY <3>1
  <2>3. PaletteEntry(k) = Average({x})
    BY <2>1, <2>2 DEF PaletteEntry
  <2>4. QED
    BY <1>1, <1>2, <2>2, <2>3, AverageOfOne
<1>8. /\ DOMAIN d = 1 .. PaletteSize
      /\ \A j \in 1 .. PaletteSize : d[j] = Distance(x, PaletteEntry(j))
  BY <1>1
<1> HIDE DEF x
<1>9. \A j \in 1 .. PaletteSize : \A i \in 1 .. 3 : x[i] \in Int /\ PaletteEntry(j)[i] \in Int
  BY <1>1, <1>4, <1>5
<1>10. /\ \A j \in 1 .. PaletteSize : Distance(x, PaletteEntry(j)) \in Nat
       /\ \A j \in 1 .. PaletteSize : Distance(x, PaletteEntry(j)) = 0 => \A i \in 1 .. 3 : x[i] = PaletteEntry(j)[i]
       /\ Distance(x, PaletteEntry(k)) = 0
  <2>1. ASSUME NEW j \in 1 .. PaletteSize
        PROVE  /\ Distance(x, PaletteEntry(j)) \in Nat
               /\ Distance(x, PaletteEntry(j)) = 0 => \A i \in 1 .. 3 : x[i] = PaletteEntry(j)[i]
    BY <1>9, DistanceNatural
  <2>2. Distance(x, PaletteEntry(k)) = 0
    BY <1>7, <1>9, DistanceNatural
  <2>3. QED
    BY <2>1, <2>2
<1>11. PaletteMap(ColorKey(c)) = m
  BY DEF PaletteMap
<1> HIDE DEF d
<1>12. DOMAIN d \subseteq Nat /\ DOMAIN d # {} /\ \A j \in DOMAIN d : d[j] \in Nat
  BY <1>7, <1>8, <1>10
<1>13. m \in DOMAIN d /\ d[m] <= d[k]
  BY <1>7, <1>8, <1>12, NearestIs
<1> HIDE DEF m
<1>14. m \in 1 .. PaletteSize /\ Distance(x, PaletteEntry(m)) = 0
  BY <1>7, <1>8, <1>10, <1>13
<1>15. \A i \in 1 .. 3 : x[i] = PaletteEntry(m)[i]
  BY <1>10, <1>14
<1>16. x = PaletteEntry(m)
  <2>1. x \in [1 .. 3 -> 0 .. 255] /\ PaletteEntry(m) \in [1 .. 3 -> 0 .. 255]
    BY <1>1, <1>4, <1>5, <1>14
  <2>2. QED
    BY <1>15, <2>1
<1>17. QED
  BY <1>11, <1>16 DEF x

-----------------------------------------------------------------------------
PixelsInv ==
    /\ stage \in {"texels", "compressed", "block", "faded", "decoded", "image", "cutting", "palette"}
    /\ stage = "texels" => texels \in AllKinds
    /\ stage = "block" => block \in Dxt1Blocks
    /\ stage = "image" => counts \in [ImageColours -> 0 .. MostOf]
    /\ IF stage \in {"cutting", "palette"} THEN Boxed ELSE boxes = << >>
    /\ stage = "palette" => Len(boxes) = PaletteSize \/ Cuttable = {}
    /\ BlockIsNear /\ LightStays /\ OpaqueStays

LEMMA PixelsInvImplies == PixelsInv => ColoursSurvive
<1> SUFFICES ASSUME PixelsInv PROVE ColoursSurvive
  OBVIOUS
<1>1. PixelsTypeOK
  <2>1. CASE stage \in {"cutting", "palette"}
    BY <2>1, PixelsAssumption DEF PixelsInv, PixelsTypeOK, Boxed
  <2>2. CASE boxes = << >>
    BY <2>2, PixelsAssumption DEF PixelsInv, PixelsTypeOK
  <2>3. QED
    BY <2>1, <2>2 DEF PixelsInv
<1>2. FewColoursStay
  <2> SUFFICES ASSUME stage = "palette", Cardinality({Centre(c) : c \in Seen}) <= PaletteSize
               PROVE  \A c \in Seen : PaletteEntry(PaletteMap(ColorKey(c))) = Centre(c)
    BY DEF FewColoursStay
  <2>1. Boxed /\ (Len(boxes) = PaletteSize \/ Cuttable = {}) /\ Cardinality(Centres) <= PaletteSize
    BY DEF PixelsInv, Centres
  <2>2. QED
    BY <2>1, FewColours
<1>3. QED
  BY <1>1, <1>2 DEF PixelsInv, ColoursSurvive

LEMMA PixelsStart == PixelsInit => PixelsInv
  BY DEF PixelsInit, PixelsInv, BlockIsNear, LightStays, OpaqueStays

LEMMA PixelsStep == PixelsInv /\ PixelsNext => PixelsInv'
<1> SUFFICES ASSUME PixelsInv, PixelsNext PROVE PixelsInv'
  OBVIOUS
<1>1. CASE CompressBlock
  <2>1. texels \in AllKinds /\ stage' = "compressed" /\ boxes = << >> /\ UNCHANGED <<counts, boxes>>
    BY <1>1 DEF CompressBlock, PixelsInv
  <2>2. BlockIsNear'
    BY <1>1, <2>1, CompressBlockIsNear
  <2>3. QED
    BY <2>1, <2>2 DEF PixelsInv, LightStays, OpaqueStays
<1>2. CASE Dxt1ToDxt5LumaAlpha
  <2>1. block \in Dxt1Blocks /\ stage' = "faded" /\ boxes = << >> /\ UNCHANGED <<counts, boxes>>
    BY <1>2 DEF Dxt1ToDxt5LumaAlpha, PixelsInv
  <2>2. LightStays'
    BY <1>2, <2>1, LumaAlphaStays
  <2>3. QED
    BY <2>1, <2>2 DEF PixelsInv, BlockIsNear, OpaqueStays
<1>3. CASE DecodeDxtMip
  <2>1. block \in Dxt1Blocks /\ stage' = "decoded" /\ boxes = << >> /\ UNCHANGED <<counts, boxes>>
    BY <1>3 DEF DecodeDxtMip, PixelsInv
  <2>2. OpaqueStays'
    BY <1>3, <2>1, DecodeDxtMipStays
  <2>3. QED
    BY <2>1, <2>2 DEF PixelsInv, BlockIsNear, LightStays
<1>4. CASE StartPalette
  <2>1. counts \in [ImageColours -> 0 .. MostOf] /\ stage' = "cutting"
    BY <1>4 DEF StartPalette, PixelsInv
  <2>2. Boxed'
    BY <1>4, <2>1, StartPaletteBoxes
  <2>3. QED
    BY <2>1, <2>2 DEF PixelsInv, BlockIsNear, LightStays, OpaqueStays
<1>5. CASE CutBox
  <2>1. Boxed /\ stage' = "cutting"
    BY <1>5 DEF CutBox, PixelsInv
  <2>2. Boxed'
    BY <1>5, <2>1, CutBoxBoxes
  <2>3. QED
    BY <2>1, <2>2 DEF PixelsInv, BlockIsNear, LightStays, OpaqueStays
<1>6. CASE FinishPalette
  <2>1. Boxed /\ stage' = "palette" /\ UNCHANGED <<counts, boxes>> /\ (Len(boxes) = PaletteSize \/ Cuttable = {})
    BY <1>6 DEF FinishPalette, PixelsInv
  <2>2. UNCHANGED <<Boxed, Cuttable>>
    BY <2>1 DEF Boxed, Counted, Centres, Seen, Cuttable, Score, Total, Pixels
  <2>2a. Boxed' /\ (Len(boxes) = PaletteSize \/ Cuttable = {})'
    BY <2>1, <2>2
  <2>3. QED
    BY <2>1, <2>2a DEF PixelsInv, BlockIsNear, LightStays, OpaqueStays
<1>7. QED
  BY <1>1, <1>2, <1>3, <1>4, <1>5, <1>6 DEF PixelsNext

(* Whatever is converted, as often as it may be: the levels that a file     *)
(* names are the pictures of its source, and its pixels lose only what the  *)
(* format cannot hold.                                                      *)
THEOREM PicturesSurviveAlways == TextureSpec => []PicturesSurvive
<1> DEFINE Inv == FilesInv /\ PixelsInv
<1>1. FilesInit /\ PixelsInit => Inv
  BY FilesStart, PixelsStart
<1>2. Inv /\ [(FilesNext /\ UNCHANGED pixelVars) \/ (PixelsNext /\ UNCHANGED fileVars)]_<<fileVars, pixelVars>> => Inv'
  <2> SUFFICES ASSUME Inv, [(FilesNext /\ UNCHANGED pixelVars) \/ (PixelsNext /\ UNCHANGED fileVars)]_<<fileVars, pixelVars>>
               PROVE  Inv'
    OBVIOUS
  <2>1. UNCHANGED pixelVars => PixelsInv'
    <3> SUFFICES ASSUME UNCHANGED pixelVars PROVE PixelsInv'
      OBVIOUS
    <3>1. UNCHANGED <<stage, texels, block, counts, boxes>>
      BY DEF pixelVars
    <3>2. UNCHANGED <<BlockIsNear, LightStays, OpaqueStays, Boxed, Cuttable>>
      BY <3>1 DEF BlockIsNear, LightStays, OpaqueStays, Boxed, Counted, Centres, Seen, Cuttable, Score, Total, Pixels
    <3>3. QED
      BY <3>1, <3>2 DEF PixelsInv
  <2>2. UNCHANGED fileVars => FilesInv'
    <3> SUFFICES ASSUME UNCHANGED fileVars PROVE FilesInv'
      OBVIOUS
    <3>1. UNCHANGED <<asset, job, done, texture>>
      BY DEF fileVars
    <3>2. QED
      BY <3>1 DEF FilesInv, AssetInv, Converting, CapJob, TranscodeJob, DdsJob, ComponentJob
  <2>3. QED
    BY <2>1, <2>2, FilesStep, PixelsStep
<1>3. Inv => PicturesSurvive
  BY FilesInvImplies, PixelsInvImplies DEF PicturesSurvive
<1>4. QED
  BY <1>1, <1>2, <1>3, PTL DEF TextureSpec
===============================================================================
