----------------------------- MODULE ImageFetch -----------------------------
(***************************************************************************)
(* How Ensure gets an image: Resolve of internal/sysroot/registry.go turns *)
(* a tag into one verified manifest, and the layer loop of Ensure takes    *)
(* every layer through the blob cache that all calls share (fetchBlob of   *)
(* internal/sysroot/manager.go), without a lock of its own.                *)
(*                                                                         *)
(* Callers are calls of Ensure in processes of their own, each with a      *)
(* client and a token of its own.  What is found on disk or comes from the *)
(* registry is checked against the digest it was asked for; a body is a    *)
(* model value, and its own digest.                                        *)
(***************************************************************************)
EXTENDS Integers, Sequences

CONSTANTS
    Callers,
    Wants,          \* the platform each caller asks for
    Tagged,         \* the objects the tag may name
    Objects,        \* objects of the registry by digest
    Layers,         \* digests of layers
    Junk,           \* a body that is nothing that was asked for
    Budget          \* how often each fault may happen (model bound)

\* Digests of objects, those an index names without there being such an object
\* included.
Names == DOMAIN Objects \cup
         UNION {{Objects[o].entries[k].digest : k \in DOMAIN Objects[o].entries} :
                o \in DOMAIN Objects}

ASSUME RegistryAssumption ==
    /\ Tagged \subseteq DOMAIN Objects
    /\ \A o \in DOMAIN Objects :
         Objects[o].layers \in Seq([digest : Layers, size : {"right", "none", "wrong"}])
ASSUME JunkAssumption == Junk \notin Layers \cup Names /\ "none" \notin Layers \cup {Junk}

Faults == {"move", "damage", "loss", "wrong", "error", "expiry", "rename"}

ASSUME BudgetAssumption == Budget \in [Faults -> Nat]

VARIABLES
    tag,            \* the object the tag names
    blob,           \* the blob cache: the content at the path of each layer
    call,           \* the callers
    left            \* faults that may still happen

vars == <<tag, blob, call, left>>

Idle == [
    pc |-> "idle",
    step |-> "send",        \* of the request under way
    token |-> "none",       \* "none", "valid" or "expired"
    image |-> Junk,         \* the manifest, once it is selected
    temp |-> "none",        \* the content of the temporary file
    at |-> 1,               \* the layer under way
    root |-> <<>>,          \* the contents extracted
    \* What the properties need to know:
    named |-> {},           \* what the tag has named during the call
    harmed |-> {},          \* faults that have met this call
    outcome |-> "none"]

Requesting == {"tag", "manifest", "config", "download"}
Fetching   == {"stat", "verify", "remove", "temp", "download", "rename", "extract"}

Calls == [
    pc : Requesting \cup Fetching \cup {"idle", "locking"},
    step : {"send", "sent", "token", "resent"},
    token : {"none", "valid", "expired"},
    image : Names \cup {Junk},
    temp : Layers \cup {"none", "empty"},
    at : Nat \ {0},
    root : Seq(Layers \cup {Junk}),
    named : SUBSET Tagged,
    harmed : SUBSET (Faults \cup {"removed"}),
    outcome : {"none", "failed", "done"}]

Init ==
    /\ tag \in Tagged
    /\ blob = [d \in Layers |-> "none"]
    /\ call = [p \in Callers |-> Idle]
    /\ left = Budget

-----------------------------------------------------------------------------
(* Selection and descriptors.                                              *)

\* A descriptor has a digest and may list a size, the right one or not.
Fits(d, body) == body = d.digest /\ d.size # "wrong"

Offers(entry, want) ==
    /\ entry.platform.arch = want.arch
    /\ want.variant # "any" => entry.platform.variant = want.variant

\* selectPlatform: the first entry for the platform, that of the variant if there
\* is one; none or one index.
Selected(entries, want) ==
    LET candidates == {k \in DOMAIN entries : Offers(entries[k], want)}
        exact      == {k \in candidates : entries[k].platform.variant = want.variant}
        among      == IF exact # {} THEN exact ELSE candidates
    IN  {k \in among : \A j \in among : k <= j}

IsConfigFor(platform, want) ==
    /\ platform.arch = want.arch
    /\ want.variant # "any" => platform.variant = want.variant

Layer(p) == Objects[call[p].image].layers[call[p].at]
Path(p)  == Layer(p).digest

-----------------------------------------------------------------------------
(* Steps of a caller.                                                      *)

Goes(p, pc) == call' = [call EXCEPT ![p].pc = pc]

\* What a call becomes when it fails; the temporary file goes with it.
Failed(c) == [c EXCEPT !.pc = "idle", !.temp = "none", !.outcome = "failed"]
Fail(p)   == call' = [call EXCEPT ![p] = Failed(@)]

Start(p) ==
    /\ call[p].pc = "idle" /\ call[p].outcome = "none"
    /\ call' = [call EXCEPT ![p].pc = "tag", ![p].named = {tag}]
    /\ UNCHANGED <<tag, blob, left>>

\* A request is sent, with the token there is.
Ask(p) ==
    /\ call[p].pc \in Requesting /\ call[p].step = "send"
    /\ call' = [call EXCEPT ![p].step = "sent"]
    /\ UNCHANGED <<tag, blob, left>>

Answerable(p) == call[p].pc \in Requesting /\ call[p].step \in {"sent", "resent"}

\* The registry takes no other token than one that has not expired.
Denied(p) ==
    /\ Answerable(p) /\ call[p].token # "valid"
    /\ IF call[p].step = "sent"
         THEN call' = [call EXCEPT ![p].step = "token"]
         ELSE Fail(p)
    /\ UNCHANGED <<tag, blob, left>>

\* Mutant: a token that is there is not asked for again.
FetchTokenOnce(p) ==
    /\ call[p].step = "token"
    /\ call' = [call EXCEPT ![p].token = IF @ = "none" THEN "valid" ELSE @,
                            ![p].step = "resent"]
    /\ UNCHANGED <<tag, blob, left>>

\* A token is fetched for the challenge and the request sent once more.
FetchToken(p) ==
    /\ call[p].step = "token"
    /\ call' = [call EXCEPT ![p].token = "valid", ![p].step = "resent"]
    /\ UNCHANGED <<tag, blob, left>>

\* The request, or that for a token, fails or takes too long.
RequestFails(p) ==
    /\ Answerable(p) \/ call[p].step = "token"
    /\ left["error"] > 0
    /\ left' = [left EXCEPT !["error"] = @ - 1]
    /\ LET c == [call[p] EXCEPT !.harmed = @ \cup {"error"}]
       IN  call' = [call EXCEPT ![p] = Failed(c)]
    /\ UNCHANGED <<tag, blob>>

\* The body that answers the request for a digest may be another.
Answers(p, digest, body) ==
    /\ Answerable(p) /\ call[p].token = "valid"
    /\ \/ body = digest /\ UNCHANGED left
       \/ body # digest /\ left["wrong"] > 0 /\ left' = [left EXCEPT !["wrong"] = @ - 1]
    /\ UNCHANGED <<tag, blob>>

\* c has had its answer; it was wrong when the body is not the one asked for.
Answered(c, digest, body) ==
    [c EXCEPT !.step = "send",
              !.harmed = IF body = digest THEN @ ELSE @ \cup {"wrong"}]

IsImage(o) == o.kind = "manifest" /\ o.layers # <<>>

\* The manifest of the tag: an image, or an index that leads to one.
GetTag(p) ==
    /\ call[p].pc = "tag"
    /\ Answers(p, tag, tag)
    /\ LET c == Answered(call[p], tag, tag)
           o == Objects[tag]
           s == Selected(o.entries, Wants[p])
       IN  \/ /\ o.kind = "index"
              /\ \E k \in s : call' = [call EXCEPT
                    ![p] = [c EXCEPT !.pc = "manifest", !.image = o.entries[k].digest]]
           \/ /\ IsImage(o)
              /\ call' = [call EXCEPT ![p] = [c EXCEPT !.pc = "config", !.image = tag]]
           \/ /\ IF o.kind = "index" THEN s = {} ELSE ~IsImage(o)
              /\ call' = [call EXCEPT ![p] = Failed(c)]

\* Mutant: the manifest is not hashed.
GetManifestUnhashed(p) ==
    /\ call[p].pc = "manifest"
    /\ \E body \in DOMAIN Objects \cup {Junk} :
         /\ Answers(p, call[p].image, body)
         /\ LET c == Answered(call[p], call[p].image, body)
            IN  call' = [call EXCEPT ![p] =
                    IF body # Junk /\ IsImage(Objects[body])
                    THEN [c EXCEPT !.pc = "config", !.image = body] ELSE Failed(c)]

\* The manifest the index names, by its digest.
GetManifest(p) ==
    /\ call[p].pc = "manifest"
    /\ \E body \in DOMAIN Objects \cup {Junk} :
         /\ Answers(p, call[p].image, body)
         /\ LET c == Answered(call[p], call[p].image, body)
            IN  call' = [call EXCEPT ![p] =
                    IF body = c.image /\ IsImage(Objects[body])
                    THEN [c EXCEPT !.pc = "config"] ELSE Failed(c)]

\* The configuration must be the one the manifest names, of the platform
\* asked for.
GetConfig(p) ==
    /\ call[p].pc = "config"
    /\ \E body \in {call[p].image, Junk} :      \* an image has one config
         /\ Answers(p, call[p].image, body)
         /\ LET c == Answered(call[p], call[p].image, body)
                o == Objects[call[p].image]
            IN  call' = [call EXCEPT ![p] =
                    IF /\ body = c.image /\ o.size # "wrong"
                       /\ IsConfigFor(o.platform, Wants[p])
                    THEN [c EXCEPT !.pc = "locking"] ELSE Failed(c)]

\* The lock file of the digest keeps other calls for this image out.
Lock(p) ==
    /\ call[p].pc = "locking"
    /\ \A q \in Callers : call[q].image = call[p].image => call[q].pc \notin Fetching
    /\ Goes(p, "stat")
    /\ UNCHANGED <<tag, blob, left>>

\* fetchBlob: a blob that is there is verified, ...
Stat(p) ==
    /\ call[p].pc = "stat"
    /\ Goes(p, IF blob[Path(p)] = "none" THEN "temp" ELSE "verify")
    /\ UNCHANGED <<tag, blob, left>>

\* Mutant: a blob that is not the one meant is looked at again.
VerifyAgain(p) ==
    /\ call[p].pc = "verify"
    /\ IF blob[Path(p)] = "none" THEN Fail(p)
       ELSE Goes(p, IF Fits(Layer(p), blob[Path(p)]) THEN "extract" ELSE "stat")
    /\ UNCHANGED <<tag, blob, left>>

\* Mutant: a cached blob is taken for what its name says.
VerifyNothing(p) ==
    /\ call[p].pc = "verify"
    /\ IF blob[Path(p)] = "none" THEN Fail(p) ELSE Goes(p, "extract")
    /\ UNCHANGED <<tag, blob, left>>

Verify(p) ==
    /\ call[p].pc = "verify"
    /\ IF blob[Path(p)] = "none" THEN Fail(p)
       ELSE Goes(p, IF Fits(Layer(p), blob[Path(p)]) THEN "extract" ELSE "remove")
    /\ UNCHANGED <<tag, blob, left>>

\* The blob d goes, or is spoilt, between a call's look at it and its use.
Loses(q, d)    == call[q].pc \in {"verify", "remove", "extract"} /\ Path(q) = d
Mistakes(q, d) == call[q].pc = "extract" /\ Path(q) = d
Harmed(qs, fault) ==
    [q \in Callers |-> IF q \in qs THEN [call[q] EXCEPT !.harmed = @ \cup {fault}]
                                   ELSE call[q]]

\* ... removed if it is not the one meant, by its path, ...
Remove(p) ==
    /\ call[p].pc = "remove"
    /\ IF blob[Path(p)] = "none"
         THEN Fail(p) /\ UNCHANGED blob
         ELSE /\ blob' = [blob EXCEPT ![Path(p)] = "none"]
              /\ call' = [Harmed({q \in Callers \ {p} : Loses(q, Path(p))}, "removed")
                            EXCEPT ![p].pc = "temp"]
    /\ UNCHANGED <<tag, left>>

MakeTemp(p) ==
    /\ call[p].pc = "temp"
    /\ call' = [call EXCEPT ![p].pc = "download", ![p].temp = "empty"]
    /\ UNCHANGED <<tag, blob, left>>

\* ... downloaded next to its place, hashed on the way, ...
Download(p) ==
    /\ call[p].pc = "download"
    /\ \E body \in {Path(p), Junk} :
         /\ Answers(p, Path(p), body)
         /\ LET c == Answered(call[p], Path(p), body)
            IN  call' = [call EXCEPT ![p] =
                    IF Fits(Layer(p), body) THEN [c EXCEPT !.pc = "rename", !.temp = body]
                                            ELSE Failed(c)]

\* ... and put in its place.
Rename(p) ==
    /\ call[p].pc = "rename"
    /\ blob' = [blob EXCEPT ![Path(p)] = call[p].temp]
    /\ call' = [call EXCEPT ![p].pc = "extract", ![p].temp = "none"]
    /\ UNCHANGED <<tag, left>>

\* When that fails a blob that is there is taken, whatever it holds.
RenameFails(p) ==
    /\ call[p].pc = "rename" /\ left["rename"] > 0
    /\ left' = [left EXCEPT !["rename"] = @ - 1]
    /\ LET c == [call[p] EXCEPT !.temp = "none", !.harmed = @ \cup {"rename"}]
       IN  call' = [call EXCEPT ![p] =
               IF blob[Path(p)] = "none" THEN Failed(c) ELSE [c EXCEPT !.pc = "extract"]]
    /\ UNCHANGED <<tag, blob>>

\* applyLayer opens the blob again, and may fail if that is no layer.
Extract(p) ==
    /\ call[p].pc = "extract"
    /\ LET last == call[p].at = Len(Objects[call[p].image].layers)
       IN  \/ blob[Path(p)] \in {"none", Junk} /\ Fail(p)
           \/ /\ blob[Path(p)] # "none"
              /\ call' = [call EXCEPT
                    ![p].root = Append(@, blob[Path(p)]),
                    ![p].at = IF last THEN @ ELSE @ + 1,
                    ![p].pc = IF last THEN "idle" ELSE "stat",
                    ![p].outcome = IF last THEN "done" ELSE @]
    /\ UNCHANGED <<tag, blob, left>>

Step(p) ==
    \/ Start(p) \/ Ask(p) \/ Denied(p) \/ FetchToken(p)
    \/ GetTag(p) \/ GetManifest(p) \/ GetConfig(p) \/ Lock(p)
    \/ Stat(p) \/ Verify(p) \/ Remove(p) \/ MakeTemp(p) \/ Download(p)
    \/ Rename(p) \/ Extract(p)

-----------------------------------------------------------------------------
(* The registry and the disk.                                              *)

Suffers(fault) == left[fault] > 0 /\ left' = [left EXCEPT ![fault] = @ - 1]

MoveTag(t) ==
    /\ Suffers("move")
    /\ t # tag /\ tag' = t
    /\ call' = [p \in Callers |-> IF call[p].pc = "tag"
                   THEN [call[p] EXCEPT !.named = @ \cup {t}] ELSE call[p]]
    /\ UNCHANGED blob

Expire(p) ==
    /\ Suffers("expiry")
    /\ call[p].token = "valid"
    /\ call' = [call EXCEPT
            ![p].token = "expired",
            ![p].harmed = IF call[p].step = "resent" THEN @ \cup {"expiry"} ELSE @]
    /\ UNCHANGED <<tag, blob>>

\* A blob is spoilt, or deleted, outside miruri.
Spoil(d) ==
    /\ Suffers("damage")
    /\ blob[d] = d
    /\ blob' = [blob EXCEPT ![d] = Junk]
    /\ call' = Harmed({q \in Callers : Mistakes(q, d)}, "damage")
    /\ UNCHANGED tag

Lose(d) ==
    /\ Suffers("loss")
    /\ blob[d] # "none"
    /\ blob' = [blob EXCEPT ![d] = "none"]
    /\ call' = Harmed({q \in Callers : Loses(q, d)}, "loss")
    /\ UNCHANGED tag

Happens ==
    \/ \E t \in Tagged : MoveTag(t)
    \/ \E p \in Callers : Expire(p) \/ RequestFails(p) \/ RenameFails(p)
    \/ \E d \in Layers : Spoil(d) \/ Lose(d)

Next == (\E p \in Callers : Step(p)) \/ Happens

Spec == Init /\ [][Next]_vars

\* The registry answers or the deadline of the call fails the request.
FairSpec == Spec /\ \A p \in Callers : WF_vars(Step(p))

-----------------------------------------------------------------------------
(* Properties.                                                             *)

\* The states of a call fit together: a temporary file, a lock and a layer
\* under way belong to a resolved image, and no call that is over holds them.
TypeOK ==
    /\ tag \in Tagged
    /\ blob \in [Layers -> Layers \cup {"none", Junk}]
    /\ \A d \in Layers : blob[d] \in {"none", Junk, d}
    /\ call \in [Callers -> Calls]
    /\ \A p \in Callers :
         /\ call[p].pc \in Fetching =>
               /\ call[p].image \in DOMAIN Objects
               /\ call[p].at <= Len(Objects[call[p].image].layers)
         /\ call[p].temp # "none" <=> call[p].pc \in {"download", "rename"}
    /\ left \in [Faults -> Nat]

\* What a call may take for its image: what the tag named during the call, or
\* what an index it named then offers for the platform.
MayBe(p, i) == \E t \in call[p].named :
    \/ i = t /\ Objects[t].kind = "manifest"
    \/ \E k \in DOMAIN Objects[t].entries :
         Objects[t].entries[k].digest = i /\ Offers(Objects[t].entries[k], Wants[p])

\* Layers are only extracted of an image the tag has named during the call and
\* that is of the platform asked for, however the tag moves and whatever the
\* registry sends instead (Resolve, verifyImageConfig).
ResolvesWhatTagNames ==
    \A p \in Callers : call[p].root # <<>> =>
        /\ MayBe(p, call[p].image)
        /\ IsConfigFor(Objects[call[p].image].platform, Wants[p])

\* What is extracted is what the manifest lists, in order, unless the cached
\* blob changes between its verification and its extraction, or an unverified
\* one is taken after a rename that failed (fetchBlob, applyLayer).
ExtractsVerified ==
    \A p \in Callers : call[p].harmed \cap {"damage", "rename"} = {} =>
        \A i \in DOMAIN call[p].root :
            call[p].root[i] = Objects[call[p].image].layers[i].digest

\* A blob that is spoilt is replaced by the next call that needs it.
\* Other calls may fail only when it goes while they depend on it: an expired
\* token, a spoilt cache and the other caller's downloads are no reason.
Sound(o) == IsImage(o) /\ o.size # "wrong" /\ \A k \in DOMAIN o.layers : o.layers[k].size # "wrong"

FailsForAReason ==
    \A p \in Callers : call[p].outcome = "failed" =>
        \/ call[p].harmed # {}
        \/ \E t \in call[p].named : IF Objects[t].kind = "index"
                                     THEN Selected(Objects[t].entries, Wants[p]) = {}
                                     ELSE ~IsImage(Objects[t])
        \/ \E i \in DOMAIN Objects : MayBe(p, i) /\
              (~Sound(Objects[i]) \/ ~IsConfigFor(Objects[i].platform, Wants[p]))

\* Every call comes back, however tokens expire and blobs are spoilt under it.
Completes == \A p \in Callers : <>(call[p].outcome # "none")
=============================================================================
