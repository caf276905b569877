-------------------------- MODULE ImageFetchProofs --------------------------
(***************************************************************************)
(* Theorems about ImageFetch for any callers, registry and cache.  The     *)
(* first invariant says what a single call may look like (Shaped) and what *)
(* the blob it is about to extract may hold (Ready).  The second (Traced)  *)
(* follows an image back to the tag and a failure back to its reason.      *)
(***************************************************************************)
EXTENDS ImageFetch, TLAPS

Digest(c) == Objects[c.image].layers[c.at].digest
Clean(c)  == c.harmed \cap {"damage", "rename"} = {}

\* From its image on a call works on an image there is; it has extracted the
\* layers before the one under way, and these are those of the manifest.
Shaped(c) ==
    /\ c.pc # "idle" => c.outcome = "none"
    /\ c.pc = "manifest" => c.image \in Names
    /\ c.pc \in {"config", "locking"} \cup Fetching =>
           c.image \in DOMAIN Objects /\ IsImage(Objects[c.image])
    /\ c.pc \in Fetching =>
           c.at = Len(c.root) + 1 /\ c.at <= Len(Objects[c.image].layers)
    /\ c.outcome = "none" /\ c.pc \notin Fetching => c.root = <<>> /\ c.at = 1
    /\ c.temp # "none" <=> c.pc \in {"download", "rename"}
    /\ c.pc = "rename" => c.temp = Digest(c)
    /\ Clean(c) => \A i \in DOMAIN c.root : c.root[i] = Objects[c.image].layers[i].digest

\* What has been verified is what it should be, or gone.
Ready(c, b) == c.pc = "extract" /\ Clean(c) => b[Digest(c)] \in {Digest(c), "none"}

Typed ==
    /\ tag \in Tagged
    /\ blob \in [Layers -> Layers \cup {"none", Junk}]
    /\ \A d \in Layers : blob[d] \in {"none", Junk, d}
    /\ call \in [Callers -> Calls]
    /\ left \in [Faults -> Nat]

Inv == Typed /\ \A p \in Callers : Shaped(call[p]) /\ Ready(call[p], blob)

-----------------------------------------------------------------------------
(* Calls.                                                                  *)

LEMMA FailedShaped ==
    ASSUME NEW c \in Calls, Shaped(c)
    PROVE  Failed(c) \in Calls /\ Shaped(Failed(c)) /\ Failed(c).pc = "idle"
<1>1. Failed(c) \in Calls /\ Failed(c).pc = "idle" /\ Failed(c).outcome = "failed"
      /\ Failed(c).temp = "none" /\ Failed(c).root = c.root /\ Failed(c).image = c.image
      /\ Failed(c).harmed = c.harmed
  BY DEF Failed, Calls
<1> QED BY <1>1 DEF Shaped, Clean, Fetching

\* A fault that is remembered changes nothing else.
LEMMA HarmShaped ==
    ASSUME NEW c \in Calls, Shaped(c), NEW f \in Faults \cup {"removed"}
    PROVE  LET h == [c EXCEPT !.harmed = @ \cup {f}]
           IN  /\ h \in Calls /\ Shaped(h)
               /\ \A b : Ready(c, b) => Ready(h, b)
               /\ h.harmed = c.harmed \cup {f} /\ h.pc = c.pc
               /\ h.image = c.image /\ h.at = c.at
<1> DEFINE h == [c EXCEPT !.harmed = @ \cup {f}]
<1>1. h \in Calls
  BY DEF Calls
<1>2. /\ h.pc = c.pc /\ h.image = c.image /\ h.at = c.at /\ h.root = c.root
      /\ h.temp = c.temp /\ h.outcome = c.outcome /\ h.harmed = c.harmed \cup {f}
  BY DEF Calls
<1> HIDE DEF h
<1>3. Clean(h) => Clean(c)
  BY <1>2 DEF Clean
<1>4. Shaped(h)
  BY <1>2, <1>3 DEF Shaped, Digest
<1>5. \A b : Ready(c, b) => Ready(h, b)
  BY <1>2, <1>3 DEF Ready, Digest
<1> QED BY <1>1, <1>2, <1>4, <1>5 DEF h

\* So does an answer, or a token.
LEMMA AnsweredShaped ==
    ASSUME NEW c \in Calls, Shaped(c), NEW digest, NEW body
    PROVE  LET a == Answered(c, digest, body)
           IN  /\ a \in Calls /\ Shaped(a)
               /\ a.pc = c.pc /\ a.image = c.image /\ a.at = c.at /\ a.root = c.root
               /\ a.temp = c.temp /\ a.outcome = c.outcome
<1> DEFINE a == Answered(c, digest, body)
<1>1. a \in Calls
  BY DEF Calls, Answered, Faults
<1>2. /\ a.pc = c.pc /\ a.image = c.image /\ a.at = c.at /\ a.root = c.root
      /\ a.temp = c.temp /\ a.outcome = c.outcome /\ c.harmed \subseteq a.harmed
  BY DEF Calls, Answered
<1> HIDE DEF a
<1>3. Clean(a) => Clean(c)
  BY <1>2 DEF Clean
<1>4. Shaped(a)
  BY <1>2, <1>3 DEF Shaped, Digest
<1> QED BY <1>1, <1>2, <1>4 DEF a

\* A step of p that turns its record into c and leaves the cache alone.
LEMMA CallStep ==
    ASSUME Inv, NEW p \in Callers, NEW c \in Calls, Shaped(c), Ready(c, blob),
           call' = [call EXCEPT ![p] = c], UNCHANGED <<tag, blob>>,
           left' \in [Faults -> Nat]
    PROVE  Inv'
<1>1. call' \in [Callers -> Calls] /\ call'[p] = c
      /\ \A q \in Callers \ {p} : call'[q] = call[q]
  BY DEF Inv, Typed
<1>2. Typed'
  BY <1>1 DEF Inv, Typed
<1>3. \A q \in Callers : Shaped(call'[q]) /\ Ready(call'[q], blob)
  BY <1>1 DEF Inv
<1> QED BY <1>2, <1>3 DEF Inv

LEMMA FailStep ==
    ASSUME Inv, NEW p \in Callers, NEW c \in Calls, Shaped(c),
           call' = [call EXCEPT ![p] = Failed(c)], UNCHANGED <<tag, blob>>,
           left' \in [Faults -> Nat]
    PROVE  Inv'
<1>1. Failed(c) \in Calls /\ Shaped(Failed(c)) /\ Ready(Failed(c), blob)
  BY FailedShaped DEF Ready
<1> QED BY <1>1, CallStep

LEMMA SuffersTyped ==
    ASSUME Typed, NEW f \in Faults, left[f] > 0, left' = [left EXCEPT ![f] = @ - 1]
    PROVE  left' \in [Faults -> Nat]
<1>1. left[f] \in Nat /\ left[f] - 1 \in Nat
  BY DEF Typed
<1> QED BY <1>1 DEF Typed

LEMMA AnswersTyped ==
    ASSUME Typed, NEW p \in Callers, NEW digest, NEW body, Answers(p, digest, body)
    PROVE  left' \in [Faults -> Nat] /\ UNCHANGED <<tag, blob>>
BY SuffersTyped DEF Answers, Typed, Faults

LEMMA InitInv == Init => Inv
<1> SUFFICES ASSUME Init PROVE Inv
  OBVIOUS
<1>1. Idle \in Calls
  BY DEF Idle, Calls
<1>2. Shaped(Idle) /\ Ready(Idle, blob)
  BY DEF Idle, Shaped, Ready, Fetching
<1> QED BY <1>1, <1>2, RegistryAssumption, BudgetAssumption DEF Init, Inv, Typed

-----------------------------------------------------------------------------
(* Resolve.                                                                *)

LEMMA ElementTyped ==
    ASSUME NEW S, NEW s \in Seq(S), NEW i \in 1..Len(s)
    PROVE  s[i] \in S
OBVIOUS

LEMMA LayerTyped ==
    ASSUME NEW c \in Calls, Shaped(c), c.pc \in Fetching
    PROVE  /\ Digest(c) \in Layers
           /\ Objects[c.image].layers \in Seq([digest : Layers, size : {"right", "none", "wrong"}])
           /\ c.at \in 1..Len(Objects[c.image].layers)
<1>1. c.image \in DOMAIN Objects /\ c.at \in Nat \ {0} /\ c.at <= Len(Objects[c.image].layers)
  BY DEF Shaped, Calls
<1>2. Objects[c.image].layers \in Seq([digest : Layers, size : {"right", "none", "wrong"}])
  BY <1>1, RegistryAssumption
<1>3. c.at \in 1..Len(Objects[c.image].layers)
  BY <1>1, <1>2
<1>4. Objects[c.image].layers[c.at] \in [digest : Layers, size : {"right", "none", "wrong"}]
  BY <1>2, <1>3, ElementTyped
<1> QED BY <1>2, <1>3, <1>4 DEF Digest

\* Steps of a request, which leave the call where it is.
LEMMA RequestInv ==
    ASSUME Inv, NEW p \in Callers, Ask(p) \/ Denied(p) \/ FetchToken(p) \/ RequestFails(p)
    PROVE  Inv'
<1>0. call[p] \in Calls /\ Shaped(call[p]) /\ Ready(call[p], blob) /\ left \in [Faults -> Nat]
  BY DEF Inv, Typed
<1>1. ASSUME NEW step \in {"sent", "token", "resent"}, NEW token \in {call[p].token, "valid"},
             call' = [call EXCEPT ![p] = [call[p] EXCEPT !.step = step, !.token = token]],
             UNCHANGED <<tag, blob, left>>
      PROVE  Inv'
  <2> DEFINE c == [call[p] EXCEPT !.step = step, !.token = token]
  <2>1. c \in Calls
    BY <1>0 DEF Calls
  <2>2. /\ c.pc = call[p].pc /\ c.image = call[p].image /\ c.at = call[p].at
        /\ c.root = call[p].root /\ c.temp = call[p].temp /\ c.outcome = call[p].outcome
        /\ c.harmed = call[p].harmed
    BY <1>0 DEF Calls
  <2>3. call' = [call EXCEPT ![p] = c]
    BY <1>1
  <2> HIDE DEF c
  <2>4. Shaped(c) /\ Ready(c, blob)
    BY <1>0, <2>2 DEF Shaped, Ready, Clean, Digest
  <2> QED BY <1>0, <1>1, <2>1, <2>3, <2>4, CallStep
<1>2. CASE Ask(p)
  <2>1. call' = [call EXCEPT ![p] = [call[p] EXCEPT !.step = "sent", !.token = call[p].token]]
    BY <1>0, <1>2 DEF Ask, Calls
  <2> QED BY <1>1, <1>2, <2>1 DEF Ask
<1>3. CASE Denied(p)
  <2>1. CASE call[p].step = "sent"
    <3>1. call' = [call EXCEPT ![p] = [call[p] EXCEPT !.step = "token", !.token = call[p].token]]
      BY <1>0, <1>3, <2>1 DEF Denied, Calls
    <3> QED BY <1>1, <1>3, <3>1 DEF Denied
  <2>2. CASE call[p].step # "sent"
    <3>1. call' = [call EXCEPT ![p] = Failed(call[p])] /\ UNCHANGED <<tag, blob, left>>
      BY <1>3, <2>2 DEF Denied, Fail
    <3> QED BY <1>0, <3>1, FailStep
  <2> QED BY <2>1, <2>2
<1>4. CASE FetchToken(p)
  <2>1. call' = [call EXCEPT ![p] = [call[p] EXCEPT !.step = "resent", !.token = "valid"]]
    BY <1>0, <1>4 DEF FetchToken, Calls
  <2> QED BY <1>1, <1>4, <2>1 DEF FetchToken
<1>5. CASE RequestFails(p)
  <2> DEFINE h == [call[p] EXCEPT !.harmed = @ \cup {"error"}]
  <2>1. h \in Calls /\ Shaped(h)
    BY <1>0, HarmShaped DEF Faults
  <2>2. call' = [call EXCEPT ![p] = Failed(h)] /\ UNCHANGED <<tag, blob>>
    BY <1>0, <1>5 DEF RequestFails, Inv, Typed
  <2>3. left' \in [Faults -> Nat]
    BY <1>5, SuffersTyped DEF RequestFails, Inv, Faults
  <2> HIDE DEF h
  <2> QED BY <2>1, <2>2, <2>3, FailStep
<1> QED BY <1>2, <1>3, <1>4, <1>5

LEMMA StartInv ==
    ASSUME Inv, NEW p \in Callers, Start(p) \/ Lock(p)
    PROVE  Inv'
<1>0. call[p] \in Calls /\ Shaped(call[p]) /\ tag \in Tagged /\ left \in [Faults -> Nat]
  BY DEF Inv, Typed
<1>1. CASE Start(p)
  <2> DEFINE c == [call[p] EXCEPT !.pc = "tag", !.named = {tag}]
  <2>1. c \in Calls /\ call' = [call EXCEPT ![p] = c]
    BY ZenonT(30), <1>0, <1>1 DEF Start, Calls, Requesting
  <2>2. /\ c.pc = "tag" /\ c.image = call[p].image /\ c.at = call[p].at
        /\ c.root = call[p].root /\ c.temp = call[p].temp /\ c.outcome = call[p].outcome
        /\ c.harmed = call[p].harmed
    BY <1>0 DEF Calls
  <2> HIDE DEF c
  <2>3. Shaped(c) /\ Ready(c, blob)
    BY <1>0, <1>1, <2>2 DEF Start, Shaped, Ready, Clean, Fetching
  <2> QED BY <1>0, <1>1, <2>1, <2>3, CallStep DEF Start
<1>2. CASE Lock(p)
  <2> DEFINE c == [call[p] EXCEPT !.pc = "stat"]
  <2>1. c \in Calls /\ call' = [call EXCEPT ![p] = c]
    BY <1>0, <1>2 DEF Lock, Goes, Calls, Fetching
  <2>2. /\ c.pc = "stat" /\ c.image = call[p].image /\ c.at = call[p].at
        /\ c.root = call[p].root /\ c.temp = call[p].temp /\ c.outcome = call[p].outcome
        /\ c.harmed = call[p].harmed
    BY <1>0 DEF Calls
  <2>3. /\ call[p].pc = "locking" /\ call[p].outcome = "none" /\ call[p].root = <<>>
        /\ call[p].at = 1 /\ call[p].image \in DOMAIN Objects
        /\ Objects[call[p].image].layers # <<>>
    BY <1>0, <1>2 DEF Lock, Shaped, Fetching, IsImage
  <2>4. 1 <= Len(Objects[call[p].image].layers)
    <3>1. Objects[call[p].image].layers \in Seq([digest : Layers, size : {"right", "none", "wrong"}])
      BY <2>3, RegistryAssumption
    <3> QED BY <2>3, <3>1
  <2> HIDE DEF c
  <2>5. Shaped(c) /\ Ready(c, blob)
    BY <1>0, <1>2, <2>2, <2>3, <2>4 DEF Shaped, Ready, Clean, Fetching, Digest
  <2> QED BY <1>0, <1>2, <2>1, <2>5, CallStep DEF Lock
<1> QED BY <1>1, <1>2

\* What the three answers of Resolve make of a call: it has an image, or failed.
LEMMA ImageInv ==
    ASSUME Inv, NEW p \in Callers, GetTag(p) \/ GetManifest(p) \/ GetConfig(p)
    PROVE  Inv'
<1>0. /\ call[p] \in Calls /\ Shaped(call[p]) /\ tag \in DOMAIN Objects /\ Typed
      /\ Junk \notin Names
  BY RegistryAssumption, JunkAssumption DEF Inv, Typed
<1>1. PICK digest, body :
        /\ Answers(p, digest, body)
        /\ LET c == Answered(call[p], digest, body)
           IN  \/ call' = [call EXCEPT ![p] = Failed(c)]
              \/ \E pc \in {"manifest", "config", "locking"}, image \in Names :
                   /\ pc # "manifest" => image \in DOMAIN Objects /\ IsImage(Objects[image])
                   /\ call' = [call EXCEPT ![p] = [c EXCEPT !.pc = pc, !.image = image]]
  <2>1. CASE GetTag(p)
    <3> DEFINE c == Answered(call[p], tag, tag)
               o == Objects[tag]
    <3>1. Answers(p, tag, tag)
      BY <2>1 DEF GetTag
    <3>2. \/ call' = [call EXCEPT ![p] = Failed(c)]
          \/ IsImage(o) /\ call' = [call EXCEPT ![p] = [c EXCEPT !.pc = "config", !.image = tag]]
          \/ \E k \in Selected(o.entries, Wants[p]) : call' = [call EXCEPT
                   ![p] = [c EXCEPT !.pc = "manifest", !.image = o.entries[k].digest]]
      BY <2>1 DEF GetTag
    <3>3. \A k \in Selected(o.entries, Wants[p]) : o.entries[k].digest \in Names
      BY <1>0 DEF Selected, Names
    <3>4. tag \in Names
      BY <1>0 DEF Names
    <3> HIDE DEF c
    <3>5. \/ call' = [call EXCEPT ![p] = Failed(c)]
          \/ \E pc \in {"manifest", "config", "locking"}, image \in Names :
                /\ pc # "manifest" => image \in DOMAIN Objects /\ IsImage(Objects[image])
                /\ call' = [call EXCEPT ![p] = [c EXCEPT !.pc = pc, !.image = image]]
      BY <1>0, <3>2, <3>3, <3>4
    <3> QED BY <3>1, <3>5 DEF c
  <2>2. CASE GetManifest(p)
    <3>1. PICK body \in DOMAIN Objects \cup {Junk} :
            /\ Answers(p, call[p].image, body)
            /\ LET c == Answered(call[p], call[p].image, body)
               IN  call' = [call EXCEPT ![p] =
                       IF body = c.image /\ IsImage(Objects[body])
                       THEN [c EXCEPT !.pc = "config"] ELSE Failed(c)]
      BY <2>2 DEF GetManifest
    <3> DEFINE c == Answered(call[p], call[p].image, body)
    <3>2. c \in Calls /\ c.image = call[p].image
      BY <1>0, AnsweredShaped
    <3>3. CASE body = c.image /\ IsImage(Objects[body]) /\ body \in DOMAIN Objects
      <4>1. [c EXCEPT !.pc = "config"] = [c EXCEPT !.pc = "config", !.image = body]
        BY <3>2, <3>3 DEF Calls
      <4>2. body \in Names
        BY <3>3 DEF Names
      <4> HIDE DEF c
      <4>3. call' = [call EXCEPT ![p] = [c EXCEPT !.pc = "config", !.image = body]]
        BY <3>1, <3>3, <4>1 DEF c
      <4>4. \E pc \in {"manifest", "config", "locking"}, image \in Names :
              /\ pc # "manifest" => image \in DOMAIN Objects /\ IsImage(Objects[image])
              /\ call' = [call EXCEPT ![p] = [c EXCEPT !.pc = pc, !.image = image]]
        BY <3>3, <4>2, <4>3
      <4> QED BY <3>1, <4>4 DEF c
    <3>4. CASE ~(body = c.image /\ IsImage(Objects[body]))
      BY <3>1, <3>4
    <3>5. CASE body = Junk /\ body = c.image
      <4>1. call[p].pc = "manifest" /\ call[p].image = Junk
        BY <2>2, <3>2, <3>5 DEF GetManifest
      <4>2. Junk \in Names
        BY <1>0, <4>1 DEF Shaped
      <4> QED BY <1>0, <4>2
    <3> QED BY <3>1, <3>3, <3>4, <3>5
  <2>3. CASE GetConfig(p)
    <3>1. PICK body \in {call[p].image, Junk} :
            /\ Answers(p, call[p].image, body)
            /\ LET c == Answered(call[p], call[p].image, body)
                   o == Objects[call[p].image]
               IN  call' = [call EXCEPT ![p] =
                       IF /\ body = c.image /\ o.size # "wrong"
                          /\ IsConfigFor(o.platform, Wants[p])
                       THEN [c EXCEPT !.pc = "locking"] ELSE Failed(c)]
      BY <2>3 DEF GetConfig
    <3> DEFINE c == Answered(call[p], call[p].image, body)
               image == call[p].image
    <3>2. c \in Calls /\ c.image = image
      BY <1>0, AnsweredShaped
    <3>3. image \in DOMAIN Objects /\ IsImage(Objects[image]) /\ image \in Names
      BY <1>0, <2>3 DEF GetConfig, Shaped, Names
    <3>4. [c EXCEPT !.pc = "locking"] = [c EXCEPT !.pc = "locking", !.image = image]
      BY <3>2 DEF Calls
    <3> HIDE DEF c, image
    <3>5. \/ call' = [call EXCEPT ![p] = Failed(c)]
          \/ call' = [call EXCEPT ![p] = [c EXCEPT !.pc = "locking", !.image = image]]
      BY <3>1, <3>4 DEF c
    <3>6. \/ call' = [call EXCEPT ![p] = Failed(c)]
          \/ \E pc \in {"manifest", "config", "locking"}, im \in Names :
                /\ pc # "manifest" => im \in DOMAIN Objects /\ IsImage(Objects[im])
                /\ call' = [call EXCEPT ![p] = [c EXCEPT !.pc = pc, !.image = im]]
      BY <3>3, <3>5
    <3> QED BY <3>1, <3>6 DEF c
  <2> QED BY <2>1, <2>2, <2>3
<1>2. call[p].pc \in {"tag", "manifest", "config"}
  BY DEF GetTag, GetManifest, GetConfig
<1>3. left' \in [Faults -> Nat] /\ UNCHANGED <<tag, blob>>
  BY <1>0, <1>1, AnswersTyped
<1> DEFINE c == Answered(call[p], digest, body)
<1>4. /\ c \in Calls /\ Shaped(c)
      /\ c.pc = call[p].pc /\ c.image = call[p].image /\ c.at = call[p].at
      /\ c.root = call[p].root /\ c.temp = call[p].temp /\ c.outcome = call[p].outcome
  BY <1>0, AnsweredShaped
<1>5. \/ call' = [call EXCEPT ![p] = Failed(c)]
      \/ \E pc \in {"manifest", "config", "locking"}, image \in Names :
           /\ pc # "manifest" => image \in DOMAIN Objects /\ IsImage(Objects[image])
           /\ call' = [call EXCEPT ![p] = [c EXCEPT !.pc = pc, !.image = image]]
  BY <1>1
<1> HIDE DEF c
<1>6. CASE call' = [call EXCEPT ![p] = Failed(c)]
  BY <1>3, <1>4, <1>6, FailStep
<1>7. ASSUME NEW pc \in {"manifest", "config", "locking"}, NEW image \in Names,
             pc # "manifest" => image \in DOMAIN Objects /\ IsImage(Objects[image]),
             call' = [call EXCEPT ![p] = [c EXCEPT !.pc = pc, !.image = image]]
      PROVE  Inv'
  <2> DEFINE d == [c EXCEPT !.pc = pc, !.image = image]
  <2>1. d \in Calls
    BY <1>4 DEF Calls, Requesting
  <2>2. /\ d.pc = pc /\ d.image = image /\ d.at = c.at /\ d.root = c.root
        /\ d.temp = c.temp /\ d.outcome = c.outcome
    BY <1>4 DEF Calls
  <2>3. c.outcome = "none" /\ c.root = <<>> /\ c.at = 1 /\ c.temp = "none"
    BY <1>2, <1>4 DEF Shaped, Fetching
  <2> HIDE DEF d
  <2>4. Shaped(d) /\ Ready(d, blob)
    BY <1>7, <2>2, <2>3 DEF Shaped, Ready, Fetching
  <2> QED BY <1>3, <1>7, <2>1, <2>4, CallStep DEF d
<1> QED BY <1>5, <1>6, <1>7

-----------------------------------------------------------------------------
(* fetchBlob and applyLayer.                                               *)

\* A call that stays at its layer.
Moved(c, pc, temp) == [c EXCEPT !.pc = pc, !.temp = temp]

LEMMA FetchShaped ==
    ASSUME NEW c \in Calls, Shaped(c), c.pc \in Fetching,
           NEW pc \in Fetching, NEW temp \in Layers \cup {"none", "empty"},
           temp # "none" <=> pc \in {"download", "rename"},
           pc = "rename" => temp = Digest(c),
           NEW d, d = Moved(c, pc, temp)
    PROVE  /\ d \in Calls /\ Shaped(d)
           /\ d.pc = pc /\ d.harmed = c.harmed /\ Digest(d) = Digest(c)
<1>1. d \in Calls
  BY DEF Calls, Moved
<1>2. /\ d.pc = pc /\ d.image = c.image /\ d.at = c.at /\ d.root = c.root
      /\ d.temp = temp /\ d.outcome = c.outcome /\ d.harmed = c.harmed
  BY DEF Calls, Moved
<1>3. c.outcome = "none"
  BY DEF Shaped, Fetching
<1>4. Digest(d) = Digest(c) /\ (Clean(d) <=> Clean(c))
  BY <1>2 DEF Digest, Clean
<1>5. Shaped(d)
  BY <1>2, <1>3, <1>4 DEF Shaped, Fetching
<1> QED BY <1>1, <1>2, <1>4, <1>5

\* A step of p within its layer that leaves the cache alone.
LEMMA FetchStep ==
    ASSUME Inv, NEW p \in Callers, NEW c \in Calls, Shaped(c), c.pc \in Fetching,
           NEW pc \in Fetching, NEW temp \in Layers \cup {"none", "empty"},
           temp # "none" <=> pc \in {"download", "rename"},
           pc = "rename" => temp = Digest(c),
           pc = "extract" /\ Clean(c) => blob[Digest(c)] \in {Digest(c), "none"},
           call' = [call EXCEPT ![p] = Moved(c, pc, temp)],
           UNCHANGED <<tag, blob>>, left' \in [Faults -> Nat]
    PROVE  Inv'
<1>0. PICK d : d = Moved(c, pc, temp)
  OBVIOUS
<1>1. d \in Calls /\ Shaped(d) /\ d.pc = pc /\ d.harmed = c.harmed /\ Digest(d) = Digest(c)
  BY <1>0, FetchShaped
<1>2. Ready(d, blob)
  BY <1>1 DEF Ready, Clean
<1>3. call' = [call EXCEPT ![p] = d]
  BY <1>0
<1> QED BY <1>1, <1>2, <1>3, CallStep

LEMMA LookInv ==
    ASSUME Inv, NEW p \in Callers, Stat(p) \/ Verify(p) \/ MakeTemp(p)
    PROVE  Inv'
<1>0. /\ call[p] \in Calls /\ Shaped(call[p]) /\ call[p].pc \in Fetching \ {"download", "rename"}
      /\ call[p].temp = "none" /\ left \in [Faults -> Nat] /\ Path(p) = Digest(call[p])
      /\ UNCHANGED <<tag, blob, left>>
  BY DEF Inv, Typed, Stat, Verify, MakeTemp, Fetching, Shaped, Path, Layer, Digest
<1>1. ASSUME NEW pc \in Fetching \ {"download", "rename"}, Goes(p, pc),
             pc = "extract" => blob[Path(p)] = Path(p)
      PROVE  Inv'
  <2>1. call' = [call EXCEPT ![p] = Moved(call[p], pc, "none")]
    BY ZenonT(30), <1>0, <1>1 DEF Goes, Calls, Moved
  <2> QED BY <1>0, <1>1, <2>1, FetchStep
<1>2. CASE Stat(p)
  BY <1>1, <1>2 DEF Stat, Fetching
<1>3. CASE Verify(p)
  <2>1. CASE Fail(p)
    BY <1>0, <2>1, FailStep DEF Fail
  <2>2. CASE ~Fail(p)
    BY <1>1, <1>3, <2>2 DEF Verify, Fits, Path, Fetching
  <2> QED BY <2>1, <2>2
<1>4. CASE MakeTemp(p)
  <2>1. call' = [call EXCEPT ![p] = Moved(call[p], "download", "empty")]
    BY <1>0, <1>4 DEF MakeTemp, Calls, Moved
  <2> QED BY <1>0, <2>1, JunkAssumption, FetchStep DEF Fetching
<1> QED BY <1>2, <1>3, <1>4

LEMMA DownloadInv ==
    ASSUME Inv, NEW p \in Callers, Download(p)
    PROVE  Inv'
<1>0. /\ call[p] \in Calls /\ Shaped(call[p]) /\ call[p].pc = "download"
      /\ "download" \in Fetching /\ "rename" \in Fetching
      /\ Typed /\ Path(p) = Digest(call[p])
  BY DEF Inv, Typed, Download, Fetching, Path, Layer, Digest
<1>1. PICK body \in {Path(p), Junk} :
        /\ Answers(p, Path(p), body)
        /\ LET c == Answered(call[p], Path(p), body)
           IN  call' = [call EXCEPT ![p] =
                   IF Fits(Layer(p), body) THEN [c EXCEPT !.pc = "rename", !.temp = body]
                                           ELSE Failed(c)]
  BY DEF Download
<1> DEFINE c == Answered(call[p], Path(p), body)
<1>2. /\ c \in Calls /\ Shaped(c)
      /\ c.pc = call[p].pc /\ c.image = call[p].image /\ c.at = call[p].at
  BY <1>0, AnsweredShaped
<1>3. call' = [call EXCEPT ![p] = IF Fits(Layer(p), body)
                                    THEN [c EXCEPT !.pc = "rename", !.temp = body]
                                    ELSE Failed(c)]
  BY <1>1
<1> HIDE DEF c
<1>4. left' \in [Faults -> Nat] /\ UNCHANGED <<tag, blob>>
  BY <1>0, <1>1, AnswersTyped
<1>5. CASE Fits(Layer(p), body)
  <2>1. body = Digest(c) /\ Digest(c) \in Layers
    BY <1>0, <1>2, <1>5, LayerTyped DEF Fits, Path, Digest
  <2>2. call' = [call EXCEPT ![p] = Moved(c, "rename", body)]
    BY <1>3, <1>5 DEF Moved
  <2>3. c.pc \in Fetching /\ body # "none" /\ body \in Layers
    BY <1>0, <1>2, <2>1, JunkAssumption
  <2> QED BY <1>0, <1>2, <1>4, <2>1, <2>2, <2>3, FetchStep
<1>6. CASE ~Fits(Layer(p), body)
  BY <1>2, <1>3, <1>4, <1>6, FailStep
<1> QED BY <1>5, <1>6

\* A call that remembers a fault.
Hit(c, f) == [c EXCEPT !.harmed = @ \cup {f}]

\* The cache changes at one digest; the calls not in P are harmed at most.
Changes(d, content, f, P) ==
    /\ blob' = [blob EXCEPT ![d] = content] /\ tag' = tag /\ left' \in [Faults -> Nat]
    /\ call' \in [Callers -> Calls]
    /\ \A p \in P : Shaped(call'[p]) /\ Ready(call'[p], blob')
    /\ \A q \in Callers \ P : call'[q] \in {call[q], Hit(call[q], f)}
    /\ \A q \in Callers \ P : content = Junk /\ Mistakes(q, d) =>
           f = "damage" /\ call'[q] = Hit(call[q], f)

LEMMA BlobStep ==
    ASSUME Inv, NEW d \in Layers, NEW content \in {"none", Junk, d},
           NEW f \in Faults \cup {"removed"}, NEW P \in SUBSET Callers,
           Changes(d, content, f, P)
    PROVE  Inv'
<1> USE DEF Changes
<1>1. Typed'
  <2>1. blob' \in [Layers -> Layers \cup {"none", Junk}]
    BY DEF Inv, Typed
  <2>2. \A e \in Layers : blob'[e] \in {"none", Junk, e}
    BY DEF Inv, Typed
  <2> QED BY <2>1, <2>2 DEF Inv, Typed
<1>2. ASSUME NEW q \in Callers \ P PROVE Shaped(call'[q]) /\ Ready(call'[q], blob')
  <2>0. call[q] \in Calls /\ Shaped(call[q]) /\ Ready(call[q], blob)
    BY DEF Inv, Typed
  <2>1. /\ Shaped(call'[q]) /\ Ready(call'[q], blob)
        /\ call'[q].pc = call[q].pc /\ call'[q].image = call[q].image
        /\ call'[q].at = call[q].at
    <3>1. CASE call'[q] = call[q]
      BY <2>0, <3>1
    <3>2. CASE call'[q] = Hit(call[q], f)
      BY SMTT(30), <2>0, <3>2, HarmShaped DEF Hit
    <3> QED BY <3>1, <3>2
  <2>2. Ready(call'[q], blob')
    <3>1. SUFFICES ASSUME call'[q].pc = "extract", Clean(call'[q])
                   PROVE  blob'[Digest(call'[q])] \in {Digest(call'[q]), "none"}
      BY DEF Ready
    <3>2. Digest(call'[q]) = Path(q) /\ Digest(call'[q]) = Digest(call[q])
      BY <2>1 DEF Digest, Path, Layer
    <3>3. Path(q) \in Layers
      BY <2>0, <2>1, <3>1, <3>2, LayerTyped DEF Fetching
    <3>4. CASE Path(q) # d
      BY <2>1, <3>1, <3>2, <3>3, <3>4 DEF Ready, Inv, Typed
    <3>5. CASE Path(q) = d /\ content = Junk
      <4>1. Mistakes(q, d)
        BY <2>1, <3>1, <3>5 DEF Mistakes
      <4>2. call'[q].harmed = call[q].harmed \cup {"damage"}
        <5>1. f = "damage" /\ call'[q] = Hit(call[q], f)
          BY <3>5, <4>1
        <5> QED BY <2>0, <5>1 DEF Calls, Hit
      <4> QED BY <3>1, <4>2 DEF Clean
    <3>6. CASE Path(q) = d /\ content # Junk
      BY <3>2, <3>3, <3>6 DEF Inv, Typed
    <3> QED BY <3>4, <3>5, <3>6
  <2> QED BY <2>1, <2>2
<1> QED BY <1>1, <1>2 DEF Inv

LEMMA HarmedTyped ==
    ASSUME Inv, NEW f \in Faults \cup {"removed"}, NEW qs \in SUBSET Callers
    PROVE  /\ Harmed(qs, f) \in [Callers -> Calls]
           /\ \A q \in qs : Harmed(qs, f)[q] = Hit(call[q], f)
           /\ \A q \in Callers \ qs : Harmed(qs, f)[q] = call[q]
<1>1. \A q \in Callers : call[q] \in Calls /\ Shaped(call[q])
  BY DEF Inv, Typed
<1>2. \A q \in Callers : Hit(call[q], f) \in Calls
  BY <1>1, HarmShaped DEF Hit
<1>3. Harmed(qs, f) = [q \in Callers |-> IF q \in qs THEN Hit(call[q], f) ELSE call[q]]
  BY DEF Harmed, Hit
<1> QED BY <1>1, <1>2, <1>3

LEMMA RemoveInv ==
    ASSUME Inv, NEW p \in Callers, Remove(p)
    PROVE  Inv'
<1>0. /\ call[p] \in Calls /\ Shaped(call[p]) /\ call[p].pc = "remove"
      /\ call[p].pc \in Fetching /\ "temp" \in Fetching /\ call[p].temp = "none"
      /\ left \in [Faults -> Nat] /\ Path(p) = Digest(call[p]) /\ Path(p) \in Layers
      /\ UNCHANGED <<tag, left>>
  BY LayerTyped DEF Inv, Typed, Remove, Fetching, Shaped, Path, Layer, Digest
<1>1. CASE Fail(p) /\ UNCHANGED blob
  BY <1>0, <1>1, FailStep DEF Fail
<1>2. CASE ~(Fail(p) /\ UNCHANGED blob)
  <2> DEFINE qs == {q \in Callers \ {p} : Loses(q, Path(p))}
             h  == Harmed(qs, "removed")
  <2>1. blob' = [blob EXCEPT ![Path(p)] = "none"] /\ call' = [h EXCEPT ![p].pc = "temp"]
    BY <1>2 DEF Remove
  <2>2. /\ h \in [Callers -> Calls]
        /\ h[p] = call[p]
        /\ \A q \in Callers \ {p} : h[q] \in {call[q], Hit(call[q], "removed")}
    <3>1. qs \in SUBSET Callers /\ p \notin qs
      OBVIOUS
    <3> HIDE DEF qs
    <3> QED BY <3>1, HarmedTyped
  <2> HIDE DEF h
  <2>3. PICK d : d = Moved(call[p], "temp", "none")
    OBVIOUS
  <2>4. call' = [h EXCEPT ![p] = d]
    <3>1. d = [h[p] EXCEPT !.pc = "temp"]
      BY <1>0, <2>2, <2>3 DEF Calls, Moved
    <3> QED BY <2>1, <3>1
  <2>5. d \in Calls /\ Shaped(d) /\ d.pc = "temp"
    BY <1>0, <2>3, FetchShaped
  <2>6. /\ call' \in [Callers -> Calls] /\ call'[p] = d
        /\ \A q \in Callers \ {p} : call'[q] \in {call[q], Hit(call[q], "removed")}
    BY <2>2, <2>4, <2>5
  <2>7. \A q \in {p} : Shaped(call'[q]) /\ Ready(call'[q], blob')
    BY <2>5, <2>6 DEF Ready
  <2>8. "none" # Junk /\ left' \in [Faults -> Nat] /\ tag' = tag /\ {p} \in SUBSET Callers
    BY <1>0, JunkAssumption
  <2>9. \A q \in Callers \ {p} : "none" = Junk /\ Mistakes(q, Path(p)) =>
            "removed" = "damage" /\ call'[q] = Hit(call[q], "removed")
    BY <2>8
  <2>10. Changes(Path(p), "none", "removed", {p})
    BY <1>0, <2>1, <2>6, <2>7, <2>8, <2>9 DEF Changes
  <2> QED BY <1>0, <2>8, <2>10, BlobStep
<1> QED BY <1>1, <1>2

LEMMA RenameInv ==
    ASSUME Inv, NEW p \in Callers, Rename(p)
    PROVE  Inv'
<1>0. /\ call[p] \in Calls /\ Shaped(call[p]) /\ call[p].pc = "rename"
      /\ call[p].pc \in Fetching /\ "extract" \in Fetching /\ call[p].temp = Digest(call[p])
      /\ left \in [Faults -> Nat] /\ Path(p) = Digest(call[p]) /\ Path(p) \in Layers
      /\ UNCHANGED <<tag, left>>
  BY LayerTyped DEF Inv, Typed, Rename, Fetching, Shaped, Path, Layer, Digest
<1>1. PICK d : d = Moved(call[p], "extract", "none")
  OBVIOUS
<1>2. /\ call' = [call EXCEPT ![p] = d]
      /\ blob' = [blob EXCEPT ![Path(p)] = Path(p)]
  BY ZenonT(30), <1>0, <1>1 DEF Rename, Calls, Moved
<1>3. d \in Calls /\ Shaped(d) /\ d.pc = "extract" /\ Digest(d) = Path(p)
  BY <1>0, <1>1, FetchShaped
<1>4. /\ call' \in [Callers -> Calls] /\ call'[p] = d
      /\ \A q \in Callers \ {p} : call'[q] = call[q]
  BY <1>2, <1>3 DEF Inv, Typed
<1>5. Path(p) # Junk /\ blob'[Path(p)] = Path(p)
  BY <1>0, <1>2, JunkAssumption DEF Inv, Typed
<1>6. \A q \in {p} : Shaped(call'[q]) /\ Ready(call'[q], blob')
  BY <1>3, <1>4, <1>5 DEF Ready
<1>7. left' \in [Faults -> Nat] /\ tag' = tag /\ {p} \in SUBSET Callers /\ "removed" \in Faults \cup {"removed"}
  BY <1>0
<1>8. \A q \in Callers \ {p} : Path(p) = Junk /\ Mistakes(q, Path(p)) =>
          "removed" = "damage" /\ call'[q] = Hit(call[q], "removed")
  BY <1>5
<1>9. \A q \in Callers \ {p} : call'[q] \in {call[q], Hit(call[q], "removed")}
  BY <1>4
<1>10. Changes(Path(p), Path(p), "removed", {p})
  BY <1>0, <1>2, <1>4, <1>6, <1>7, <1>8, <1>9 DEF Changes
<1> QED BY <1>0, <1>7, <1>10, BlobStep

LEMMA RenameFailsInv ==
    ASSUME Inv, NEW p \in Callers, RenameFails(p)
    PROVE  Inv'
<1>0. /\ call[p] \in Calls /\ Shaped(call[p]) /\ call[p].pc = "rename"
      /\ "rename" \in Fetching /\ "extract" \in Fetching /\ "rename" \in Faults
      /\ UNCHANGED <<tag, blob>>
  BY DEF Inv, Typed, RenameFails, Fetching, Faults
<1>1. left' \in [Faults -> Nat]
  BY <1>0, SuffersTyped DEF RenameFails, Inv
<1>2. PICK h : h = [call[p] EXCEPT !.harmed = @ \cup {"rename"}]
  OBVIOUS
<1>3. /\ h \in Calls /\ Shaped(h) /\ h.pc = "rename"
      /\ h.harmed = call[p].harmed \cup {"rename"}
  BY <1>0, <1>2, HarmShaped
<1>4. [call[p] EXCEPT !.temp = "none", !.harmed = @ \cup {"rename"}] = [h EXCEPT !.temp = "none"]
  BY <1>0, <1>2 DEF Calls
<1>5. Failed([h EXCEPT !.temp = "none"]) = Failed(h)
  BY <1>3 DEF Failed, Calls
<1>6. [[h EXCEPT !.temp = "none"] EXCEPT !.pc = "extract"] = Moved(h, "extract", "none")
  BY <1>3 DEF Moved, Calls
<1>7. \/ call' = [call EXCEPT ![p] = Failed(h)]
      \/ call' = [call EXCEPT ![p] = Moved(h, "extract", "none")]
  BY <1>4, <1>5, <1>6 DEF RenameFails
<1>8. CASE call' = [call EXCEPT ![p] = Failed(h)]
  BY <1>0, <1>1, <1>3, <1>8, FailStep
<1>9. CASE call' = [call EXCEPT ![p] = Moved(h, "extract", "none")]
  BY <1>0, <1>1, <1>3, <1>9, FetchStep DEF Clean
<1> QED BY <1>7, <1>8, <1>9

\* The layer is added to the root; the call goes on, or is done.
LEMMA ExtractInv ==
    ASSUME Inv, NEW p \in Callers, Extract(p)
    PROVE  Inv'
<1> DEFINE n == Len(Objects[call[p].image].layers)
           content == blob[Digest(call[p])]
<1>0. /\ call[p] \in Calls /\ Shaped(call[p]) /\ Ready(call[p], blob)
      /\ call[p].pc = "extract" /\ call[p].pc \in Fetching /\ "stat" \in Fetching
      /\ left \in [Faults -> Nat] /\ Path(p) = Digest(call[p])
      /\ UNCHANGED <<tag, blob, left>>
  BY DEF Inv, Typed, Extract, Fetching, Path, Layer, Digest
<1>1. Digest(call[p]) \in Layers /\ n \in Nat
  BY <1>0, LayerTyped
<1>2. CASE Fail(p)
  BY <1>0, <1>2, FailStep DEF Fail
<1>3. CASE ~Fail(p)
  <2>1. content \in Layers \cup {Junk}
    BY <1>0, <1>1, <1>3 DEF Extract, Inv, Typed
  <2>2. /\ call[p].root \in Seq(Layers \cup {Junk}) /\ call[p].at = Len(call[p].root) + 1
        /\ call[p].at <= n /\ call[p].at \in Nat \ {0} /\ call[p].outcome = "none"
        /\ call[p].temp = "none" /\ call[p].image \in DOMAIN Objects
        /\ IsImage(Objects[call[p].image])
    BY <1>0 DEF Shaped, Calls
  <2> DEFINE root == Append(call[p].root, content)
  <2>3. /\ root \in Seq(Layers \cup {Junk}) /\ Len(root) = Len(call[p].root) + 1
        /\ root[Len(call[p].root) + 1] = content
        /\ \A i \in DOMAIN call[p].root : root[i] = call[p].root[i]
        /\ \A i \in DOMAIN root : i \in DOMAIN call[p].root \/ i = call[p].at
    BY <2>1, <2>2
  <2>4. Clean(call[p]) =>
            \A i \in DOMAIN root : root[i] = Objects[call[p].image].layers[i].digest
    <3>1. SUFFICES ASSUME Clean(call[p]), NEW i \in DOMAIN root
                   PROVE  root[i] = Objects[call[p].image].layers[i].digest
      OBVIOUS
    <3>2. CASE i \in DOMAIN call[p].root
      BY <1>0, <2>3, <3>1, <3>2 DEF Shaped
    <3>3. CASE i = call[p].at
      <4>1. content = Digest(call[p])
        BY <1>0, <1>1, <1>3, <3>1 DEF Ready, Extract
      <4> QED BY <2>2, <2>3, <3>3, <4>1 DEF Digest
    <3> QED BY <2>3, <3>2, <3>3
  <2> HIDE DEF root
  <2>5. ASSUME NEW pc \in {"idle", "stat"}, NEW at \in Nat \ {0}, NEW outcome \in {"none", "done"},
               pc = "stat" => at = call[p].at + 1 /\ at <= n /\ outcome = "none",
               pc = "idle" => outcome = "done",
               call' = [call EXCEPT ![p] = [call[p] EXCEPT !.root = root, !.at = at,
                                                           !.pc = pc, !.outcome = outcome]]
        PROVE  Inv'
    <3>1. PICK c : c = [call[p] EXCEPT !.root = root, !.at = at, !.pc = pc, !.outcome = outcome]
      OBVIOUS
    <3>2. c \in Calls
      BY <1>0, <2>3, <2>5, <3>1 DEF Calls, Fetching
    <3>3. /\ c.pc = pc /\ c.at = at /\ c.root = root /\ c.outcome = outcome
          /\ c.image = call[p].image /\ c.temp = "none" /\ c.harmed = call[p].harmed
      BY <1>0, <2>2, <3>1 DEF Calls
    <3>4. c.pc \in Fetching => c.at = Len(c.root) + 1
      BY <2>2, <2>3, <2>5, <3>3 DEF Fetching
    <3>5. Shaped(c)
      BY <2>2, <2>4, <2>5, <3>3, <3>4 DEF Shaped, Clean, Fetching
    <3>6. Ready(c, blob)
      BY <3>3 DEF Ready
    <3>7. call' = [call EXCEPT ![p] = c]
      BY <2>5, <3>1
    <3> QED BY <1>0, <3>2, <3>5, <3>6, <3>7, CallStep
  <2>6. CASE call[p].at = n
    <3>1. call' = [call EXCEPT ![p].root = root, ![p].at = call[p].at,
                               ![p].pc = "idle", ![p].outcome = "done"]
      BY <1>0, <1>3, <2>6 DEF Extract, root
    <3>2. call' = [call EXCEPT ![p] = [call[p] EXCEPT !.root = root, !.at = call[p].at,
                                                      !.pc = "idle", !.outcome = "done"]]
      BY <1>0, <3>1 DEF Calls, Inv, Typed
    <3> QED BY <2>2, <2>5, <3>2
  <2>7. CASE call[p].at # n
    <3>1. call' = [call EXCEPT ![p] = [call[p] EXCEPT !.root = root, !.at = call[p].at + 1,
                                                      !.pc = "stat", !.outcome = "none"]]
      BY <1>0, <1>3, <2>2, <2>7 DEF Extract, Calls, Inv, Typed, root
    <3>2. call[p].at + 1 \in Nat \ {0} /\ call[p].at + 1 <= n
      BY <1>1, <2>2, <2>7
    <3> QED BY <2>5, <3>1, <3>2
  <2> QED BY <2>6, <2>7
<1> QED BY <1>2, <1>3

-----------------------------------------------------------------------------
(* The registry and the disk.                                              *)

\* What the registry does to a call is in its token and its memory.
LEMMA TokenShaped ==
    ASSUME NEW c \in Calls, Shaped(c), NEW b, Ready(c, b), NEW d \in Calls,
           d.pc = c.pc, d.image = c.image, d.at = c.at, d.root = c.root, d.temp = c.temp,
           d.outcome = c.outcome, c.harmed \subseteq d.harmed
    PROVE  Shaped(d) /\ Ready(d, b)
<1>1. Clean(d) => Clean(c)
  BY DEF Clean
<1> QED BY <1>1 DEF Shaped, Ready, Digest

\* A token that expires, with what the call remembers of it.
LEMMA ExpiredTyped ==
    ASSUME NEW c \in Calls, NEW h \in SUBSET (Faults \cup {"removed"})
    PROVE  [c EXCEPT !.token = "expired", !.harmed = h] \in Calls
BY DEF Calls

LEMMA RegistryInv ==
    ASSUME Inv, (\E t \in Tagged : MoveTag(t)) \/ (\E p \in Callers : Expire(p))
    PROVE  Inv'
<1>0. \A q \in Callers : call[q] \in Calls /\ Shaped(call[q]) /\ Ready(call[q], blob)
  BY DEF Inv, Typed
<1>1. CASE \E t \in Tagged : MoveTag(t)
  <2>1. PICK t \in Tagged : MoveTag(t)
    BY <1>1
  <2>2. left' \in [Faults -> Nat]
    BY <2>1, SuffersTyped DEF MoveTag, Suffers, Inv, Faults
  <2>3. ASSUME NEW q \in Callers
        PROVE  call'[q] \in Calls /\ Shaped(call'[q]) /\ Ready(call'[q], blob)
    <3>1. CASE call'[q] = call[q]
      BY <1>0, <3>1
    <3>2. CASE call'[q] = [call[q] EXCEPT !.named = @ \cup {t}]
      <4>1. call'[q] \in Calls
        BY <1>0, <3>2 DEF Calls
      <4>2. /\ call'[q].pc = call[q].pc /\ call'[q].image = call[q].image
            /\ call'[q].at = call[q].at /\ call'[q].root = call[q].root
            /\ call'[q].temp = call[q].temp /\ call'[q].outcome = call[q].outcome
            /\ call'[q].harmed = call[q].harmed
        BY <1>0, <3>2 DEF Calls
      <4> QED BY <1>0, <4>1, <4>2, TokenShaped
    <3> QED BY <2>1, <3>1, <3>2 DEF MoveTag
  <2>4. call' \in [Callers -> Calls]
    <3>1. call' = [q \in Callers |-> call'[q]]
      BY <2>1 DEF MoveTag
    <3> QED BY <2>3, <3>1
  <2>5. blob' = blob /\ tag' \in Tagged
    BY <2>1 DEF MoveTag
  <2> QED BY <2>2, <2>3, <2>4, <2>5 DEF Inv, Typed
<1>2. CASE \E p \in Callers : Expire(p)
  <2>1. PICK p \in Callers : Expire(p)
    BY <1>2
  <2>2. left' \in [Faults -> Nat]
    BY <2>1, SuffersTyped DEF Expire, Suffers, Inv, Faults
  <2>3. PICK h : h = IF call[p].step = "resent" THEN call[p].harmed \cup {"expiry"}
                                               ELSE call[p].harmed
    OBVIOUS
  <2>4. /\ h \in SUBSET (Faults \cup {"removed"})
        /\ call[p].harmed \subseteq h
    BY <1>0, <2>3 DEF Calls, Faults
  <2>5. PICK d : d = [call[p] EXCEPT !.token = "expired", !.harmed = h]
    OBVIOUS
  <2>6. d \in Calls
    BY <1>0, <2>4, <2>5, ExpiredTyped
  <2>7. call' = [call EXCEPT ![p] = d] /\ UNCHANGED <<tag, blob>>
    BY ZenonT(30), <1>0, <2>1, <2>3, <2>5 DEF Expire, Calls, Inv, Typed
  <2>8. /\ d.pc = call[p].pc /\ d.image = call[p].image /\ d.at = call[p].at
        /\ d.root = call[p].root /\ d.temp = call[p].temp /\ d.outcome = call[p].outcome
        /\ call[p].harmed \subseteq d.harmed
    BY <1>0, <2>4, <2>5 DEF Calls
  <2>9. Shaped(d) /\ Ready(d, blob)
    BY <1>0, <2>6, <2>8, TokenShaped
  <2> QED BY <2>2, <2>6, <2>7, <2>9, CallStep
<1> QED BY <1>1, <1>2

LEMMA DiskInv ==
    ASSUME Inv, NEW d \in Layers, Spoil(d) \/ Lose(d)
    PROVE  Inv'
<1>1. CASE Spoil(d)
  <2> DEFINE qs == {q \in Callers : Mistakes(q, d)}
  <2>1. left' \in [Faults -> Nat] /\ tag' = tag /\ blob' = [blob EXCEPT ![d] = Junk]
    BY <1>1, SuffersTyped DEF Spoil, Suffers, Inv, Faults
  <2>2. call' = Harmed(qs, "damage")
    BY <1>1 DEF Spoil
  <2>3. /\ call' \in [Callers -> Calls]
        /\ \A q \in Callers : call'[q] \in {call[q], Hit(call[q], "damage")}
        /\ \A q \in Callers : Mistakes(q, d) =>
               call'[q] = Hit(call[q], "damage")
    BY <2>2, HarmedTyped DEF Faults
  <2>4. {} \in SUBSET Callers /\ "damage" \in Faults
    BY DEF Faults
  <2>5. /\ \A q \in {} : Shaped(call'[q]) /\ Ready(call'[q], blob')
        /\ \A q \in Callers \ {} : call'[q] \in {call[q], Hit(call[q], "damage")}
        /\ \A q \in Callers \ {} : Junk = Junk /\ Mistakes(q, d) =>
              "damage" = "damage" /\ call'[q] = Hit(call[q], "damage")
    BY <2>3
  <2>6. Changes(d, Junk, "damage", {})
    BY <2>1, <2>3, <2>5 DEF Changes
  <2> QED BY <2>4, <2>6, BlobStep
<1>2. CASE Lose(d)
  <2> DEFINE qs == {q \in Callers : Loses(q, d)}
  <2>1. left' \in [Faults -> Nat] /\ tag' = tag /\ blob' = [blob EXCEPT ![d] = "none"]
    BY <1>2, SuffersTyped DEF Lose, Suffers, Inv, Faults
  <2>2. call' = Harmed(qs, "loss")
    BY <1>2 DEF Lose
  <2>3. /\ call' \in [Callers -> Calls]
        /\ \A q \in Callers : call'[q] \in {call[q], Hit(call[q], "loss")}
    BY <2>2, HarmedTyped DEF Faults
  <2>4. "none" # Junk /\ {} \in SUBSET Callers /\ "loss" \in Faults
    BY JunkAssumption DEF Faults
  <2>5. Changes(d, "none", "loss", {})
    BY <2>1, <2>3, <2>4 DEF Changes
  <2> QED BY <2>4, <2>5, BlobStep
<1> QED BY <1>1, <1>2

LEMMA NextInv == Inv /\ [Next]_vars => Inv'
<1> SUFFICES ASSUME Inv, [Next]_vars PROVE Inv'
  OBVIOUS
<1>1. ASSUME NEW p \in Callers, Step(p) PROVE Inv'
  BY <1>1, StartInv, RequestInv, ImageInv, LookInv, RemoveInv, DownloadInv, RenameInv,
     ExtractInv DEF Step
<1>2. CASE Happens
  BY <1>2, RegistryInv, RequestInv, RenameFailsInv, DiskInv DEF Happens
<1>3. CASE UNCHANGED vars
  BY <1>3 DEF vars, Inv, Typed, Path, Layer
<1> QED BY <1>1, <1>2, <1>3 DEF Next

\* A temporary file, a lock and a layer under way belong to a call that works on
\* an image it has resolved; one that is over holds none of them (fetchBlob).
THEOREM TypeCorrect == Spec => []TypeOK
<1>1. Inv => TypeOK
  BY DEF Inv, Typed, Shaped, TypeOK, Fetching
<1> QED BY InitInv, NextInv, <1>1, PTL DEF Spec

\* However many calls share the cache, whatever the registry sends and the disk
\* loses: what is extracted is what the manifest lists, in order, unless the
\* blob is spoilt after its verification or an unverified one is taken.
THEOREM VerifiedExtracted == Spec => []ExtractsVerified
<1>1. Inv => ExtractsVerified
  BY DEF Inv, Shaped, Clean, ExtractsVerified
<1> QED BY InitInv, NextInv, <1>1, PTL DEF Spec

-----------------------------------------------------------------------------
(* Where an image comes from, and why a call fails.                        *)

\* The tag has led the call to image i.
Led(c, want, i) == \E t \in c.named :
    \/ i = t /\ Objects[t].kind = "manifest"
    \/ \E k \in DOMAIN Objects[t].entries :
         Objects[t].entries[k].digest = i /\ Offers(Objects[t].entries[k], want)

\* What the call may fail for.
Blamed(c, want) ==
    \/ c.harmed # {}
    \/ \E t \in c.named : IF Objects[t].kind = "index"
                            THEN Selected(Objects[t].entries, want) = {}
                            ELSE ~IsImage(Objects[t])
    \/ \E i \in DOMAIN Objects : Led(c, want, i) /\
          (~Sound(Objects[i]) \/ ~IsConfigFor(Objects[i].platform, want))

\* From the manifest on the tag has led to the image, from the lock on it is of
\* the platform; what the call has seen of its blob holds, or the call is harmed.
Traced(c, want, t, b) ==
    /\ c.pc = "tag" => t \in c.named
    /\ c.pc \in {"manifest", "config", "locking"} \cup Fetching => Led(c, want, c.image)
    /\ c.pc \in {"locking"} \cup Fetching => IsConfigFor(Objects[c.image].platform, want)
    /\ c.root # <<>> => Led(c, want, c.image) /\ IsConfigFor(Objects[c.image].platform, want)
    /\ c.outcome = "failed" => Blamed(c, want)
    /\ c.step = "resent" => c.token = "valid" \/ c.harmed # {}
    /\ c.pc \in {"verify", "remove"} /\ c.harmed = {} => b[Digest(c)] # "none"
    /\ c.pc = "extract" /\ c.harmed = {} => b[Digest(c)] = Digest(c)

Tracing == \A p \in Callers : Traced(call[p], Wants[p], tag, blob)

\* A call that stays where it is and remembers more.
LEMMA CarryTraced ==
    ASSUME NEW c, NEW d, NEW w, NEW t, NEW s, NEW b, Traced(c, w, t, b),
           d.pc = c.pc, d.image = c.image, d.at = c.at, d.root = c.root,
           d.outcome = c.outcome, c.named \subseteq d.named, c.harmed \subseteq d.harmed,
           d.pc = "tag" => s \in d.named,
           d.step = "resent" => d.token = "valid" \/ d.harmed # {}
    PROVE  Traced(d, w, s, b)
<1>1. Led(c, w, c.image) => Led(d, w, d.image)
  BY DEF Led
<1>2. Blamed(c, w) => Blamed(d, w)
  BY DEF Led, Blamed
<1>3. d.harmed = {} => c.harmed = {}
  OBVIOUS
<1> QED BY <1>1, <1>2, <1>3 DEF Traced, Digest

LEMMA FailTraced ==
    ASSUME NEW c \in Calls, NEW w, NEW t, NEW b, Traced(c, w, t, b), Blamed(c, w)
    PROVE  Traced(Failed(c), w, t, b)
<1>1. PICK d : d = Failed(c)
  OBVIOUS
<1>2. /\ d.pc = "idle" /\ d.outcome = "failed" /\ d.root = c.root /\ d.image = c.image
      /\ d.named = c.named /\ d.harmed = c.harmed /\ d.step = c.step /\ d.token = c.token
  BY <1>1 DEF Failed, Calls
<1>3. Blamed(d, w) /\ (Led(c, w, c.image) => Led(d, w, d.image))
  BY <1>2 DEF Blamed, Led
<1>4. Traced(d, w, t, b)
  BY <1>2, <1>3 DEF Traced, Fetching
<1> QED BY <1>1, <1>4

\* A call that goes on within its layer.
LEMMA MovedTraced ==
    ASSUME NEW c \in Calls, NEW w, NEW t, NEW a, NEW b, Traced(c, w, t, a),
           c.pc \in Fetching, NEW pc \in Fetching, NEW temp, NEW d, d = Moved(c, pc, temp),
           pc \in {"verify", "remove"} /\ c.harmed = {} => b[Digest(c)] # "none",
           pc = "extract" /\ c.harmed = {} => b[Digest(c)] = Digest(c)
    PROVE  Traced(d, w, t, b)
<1>1. /\ d.pc = pc /\ d.outcome = c.outcome /\ d.root = c.root /\ d.image = c.image
      /\ d.named = c.named /\ d.harmed = c.harmed /\ d.step = c.step /\ d.token = c.token
      /\ d.at = c.at
  BY DEF Moved, Calls
<1>2. /\ Led(c, w, c.image) => Led(d, w, d.image)
      /\ Blamed(c, w) => Blamed(d, w)
      /\ Digest(d) = Digest(c)
  BY <1>1 DEF Blamed, Led, Digest
<1> QED BY <1>1, <1>2 DEF Traced, Fetching

LEMMA AnsweredTraced ==
    ASSUME NEW c \in Calls, NEW w, NEW t, NEW b, Traced(c, w, t, b), NEW digest, NEW body
    PROVE  LET a == Answered(c, digest, body)
           IN  /\ Traced(a, w, t, b)
               /\ a.named = c.named
               /\ body # digest => Blamed(a, w)
<1>1. PICK a : a = Answered(c, digest, body)
  OBVIOUS
<1>2. /\ a.pc = c.pc /\ a.image = c.image /\ a.at = c.at /\ a.root = c.root
      /\ a.outcome = c.outcome /\ a.named = c.named /\ a.step = "send"
      /\ a.harmed = IF body = digest THEN c.harmed ELSE c.harmed \cup {"wrong"}
  BY <1>1 DEF Answered, Calls
<1>3. c.pc = "tag" => t \in a.named
  BY <1>2 DEF Traced
<1>4. Traced(a, w, t, b)
  BY <1>2, <1>3, CarryTraced
<1>5. body # digest => Blamed(a, w)
  BY <1>2 DEF Blamed
<1> QED BY <1>1, <1>2, <1>4, <1>5

\* A step of p that turns its record into d and leaves tag and cache alone.
LEMMA AloneTracing ==
    ASSUME Inv, Tracing, NEW p \in Callers, NEW d, Traced(d, Wants[p], tag, blob),
           call' = [call EXCEPT ![p] = d], UNCHANGED <<tag, blob>>
    PROVE  Tracing'
<1>1. call'[p] = d /\ \A q \in Callers \ {p} : call'[q] = call[q]
  BY DEF Inv, Typed
<1> QED BY <1>1 DEF Tracing

LEMMA FailTracing ==
    ASSUME Inv, Tracing, NEW p \in Callers, NEW c \in Calls, Traced(c, Wants[p], tag, blob),
           Blamed(c, Wants[p]), call' = [call EXCEPT ![p] = Failed(c)], UNCHANGED <<tag, blob>>
    PROVE  Tracing'
BY FailTraced, AloneTracing

LEMMA RequestTracing ==
    ASSUME Inv, Tracing, NEW p \in Callers,
           Ask(p) \/ Denied(p) \/ FetchToken(p) \/ RequestFails(p)
    PROVE  Tracing'
<1>0. call[p] \in Calls /\ Traced(call[p], Wants[p], tag, blob)
  BY DEF Inv, Typed, Tracing
<1>1. ASSUME NEW step \in {"sent", "token", "resent"}, NEW token \in {call[p].token, "valid"},
             step = "resent" => token = "valid",
             call' = [call EXCEPT ![p] = [call[p] EXCEPT !.step = step, !.token = token]],
             UNCHANGED <<tag, blob>>
      PROVE  Tracing'
  <2>1. PICK d : d = [call[p] EXCEPT !.step = step, !.token = token]
    OBVIOUS
  <2>2. /\ d.pc = call[p].pc /\ d.image = call[p].image /\ d.at = call[p].at
        /\ d.root = call[p].root /\ d.outcome = call[p].outcome
        /\ d.named = call[p].named /\ d.harmed = call[p].harmed
        /\ d.step = step /\ d.token = token
    BY <1>0, <2>1 DEF Calls
  <2>3. d.pc = "tag" => tag \in d.named
    BY <1>0, <2>2 DEF Traced
  <2>4. Traced(d, Wants[p], tag, blob)
    BY <1>0, <1>1, <2>2, <2>3, CarryTraced
  <2> QED BY <1>1, <2>1, <2>4, AloneTracing
<1>2. CASE Ask(p)
  <2>1. call' = [call EXCEPT ![p] = [call[p] EXCEPT !.step = "sent", !.token = call[p].token]]
    BY <1>0, <1>2 DEF Ask, Calls
  <2> QED BY <1>1, <1>2, <2>1 DEF Ask
<1>3. CASE Denied(p)
  <2>1. CASE call[p].step = "sent"
    <3>1. call' = [call EXCEPT ![p] = [call[p] EXCEPT !.step = "token", !.token = call[p].token]]
      BY <1>0, <1>3, <2>1 DEF Denied, Calls
    <3> QED BY <1>1, <1>3, <3>1 DEF Denied
  <2>2. CASE call[p].step # "sent"
    <3>1. call' = [call EXCEPT ![p] = Failed(call[p])] /\ UNCHANGED <<tag, blob>>
      BY <1>3, <2>2 DEF Denied, Fail
    <3>2. Blamed(call[p], Wants[p])
      BY <1>0, <1>3, <2>2 DEF Denied, Answerable, Traced, Blamed
    <3> QED BY <1>0, <3>1, <3>2, FailTracing
  <2> QED BY <2>1, <2>2
<1>4. CASE FetchToken(p)
  <2>1. call' = [call EXCEPT ![p] = [call[p] EXCEPT !.step = "resent", !.token = "valid"]]
    BY <1>0, <1>4 DEF FetchToken, Calls
  <2> QED BY <1>1, <1>4, <2>1 DEF FetchToken
<1>5. CASE RequestFails(p)
  <2>1. PICK h : h = Hit(call[p], "error")
    OBVIOUS
  <2>2. /\ h \in Calls /\ h.harmed = call[p].harmed \cup {"error"}
        /\ h.pc = call[p].pc /\ h.image = call[p].image /\ h.at = call[p].at
        /\ h.root = call[p].root /\ h.outcome = call[p].outcome /\ h.named = call[p].named
    BY <1>0, <2>1 DEF Hit, Calls, Faults
  <2>3. h.pc = "tag" => tag \in h.named
    BY <1>0, <2>2 DEF Traced
  <2>4. Traced(h, Wants[p], tag, blob)
    BY <1>0, <2>2, <2>3, CarryTraced
  <2>5. Blamed(h, Wants[p])
    BY <2>2 DEF Blamed
  <2>6. call' = [call EXCEPT ![p] = Failed(h)] /\ UNCHANGED <<tag, blob>>
    BY <1>0, <1>5, <2>1 DEF RequestFails, Hit, Inv, Typed
  <2> QED BY <2>2, <2>4, <2>5, <2>6, FailTracing
<1> QED BY <1>2, <1>3, <1>4, <1>5

LEMMA StartTracing ==
    ASSUME Inv, Tracing, NEW p \in Callers, Start(p) \/ Lock(p)
    PROVE  Tracing'
<1>0. /\ call[p] \in Calls /\ Shaped(call[p]) /\ Traced(call[p], Wants[p], tag, blob)
      /\ UNCHANGED <<tag, blob>>
  BY DEF Inv, Typed, Tracing, Start, Lock
<1>1. CASE Start(p)
  <2>1. PICK d : d = [call[p] EXCEPT !.pc = "tag", !.named = {tag}]
    OBVIOUS
  <2>2. call' = [call EXCEPT ![p] = d]
    BY <1>0, <1>1, <2>1 DEF Start, Calls
  <2>3. /\ d.pc = "tag" /\ d.named = {tag} /\ d.root = <<>> /\ d.outcome = "none"
        /\ d.step = call[p].step /\ d.token = call[p].token /\ d.harmed = call[p].harmed
    BY <1>0, <1>1, <2>1 DEF Start, Calls, Shaped, Fetching
  <2>4. Traced(d, Wants[p], tag, blob)
    BY <1>0, <2>3 DEF Traced, Fetching
  <2> QED BY <1>0, <2>2, <2>4, AloneTracing
<1>2. CASE Lock(p)
  <2>1. PICK d : d = [call[p] EXCEPT !.pc = "stat"]
    OBVIOUS
  <2>2. call' = [call EXCEPT ![p] = d]
    BY <1>0, <1>2, <2>1 DEF Lock, Goes, Calls
  <2>3. /\ d.pc = "stat" /\ d.named = call[p].named /\ d.root = call[p].root
        /\ d.outcome = call[p].outcome /\ d.image = call[p].image
        /\ d.step = call[p].step /\ d.token = call[p].token /\ d.harmed = call[p].harmed
    BY <1>0, <2>1 DEF Calls
  <2>4. call[p].pc = "locking" /\ call[p].outcome = "none"
    BY <1>0, <1>2 DEF Lock, Shaped
  <2>5. Led(call[p], Wants[p], call[p].image) => Led(d, Wants[p], d.image)
    BY <2>3 DEF Led
  <2>6. Traced(d, Wants[p], tag, blob)
    BY <1>0, <2>3, <2>4, <2>5 DEF Traced, Fetching
  <2> QED BY <1>0, <2>2, <2>6, AloneTracing
<1> QED BY <1>1, <1>2

\* The answers of Resolve.
LEMMA TagTracing ==
    ASSUME Inv, Tracing, NEW p \in Callers, GetTag(p)
    PROVE  Tracing'
<1> DEFINE o == Objects[tag]
<1>0. /\ call[p] \in Calls /\ Shaped(call[p]) /\ Traced(call[p], Wants[p], tag, blob)
      /\ call[p].pc = "tag" /\ tag \in DOMAIN Objects
      /\ UNCHANGED <<tag, blob>>
  BY RegistryAssumption DEF Inv, Typed, Tracing, GetTag, Answers
<1>1. PICK c : c = Answered(call[p], tag, tag)
  OBVIOUS
<1>2. /\ c \in Calls /\ Traced(c, Wants[p], tag, blob) /\ c.named = call[p].named
      /\ c.pc = "tag" /\ c.root = <<>> /\ c.outcome = "none"
  BY <1>0, <1>1, AnsweredShaped, AnsweredTraced DEF Shaped, Fetching
<1>3. tag \in c.named
  BY <1>2 DEF Traced
<1>4. \/ /\ o.kind = "index"
         /\ \E k \in Selected(o.entries, Wants[p]) : call' = [call EXCEPT
               ![p] = [c EXCEPT !.pc = "manifest", !.image = o.entries[k].digest]]
      \/ /\ IsImage(o)
         /\ call' = [call EXCEPT ![p] = [c EXCEPT !.pc = "config", !.image = tag]]
      \/ /\ IF o.kind = "index" THEN Selected(o.entries, Wants[p]) = {} ELSE ~IsImage(o)
         /\ call' = [call EXCEPT ![p] = Failed(c)]
  BY <1>1 DEF GetTag
<1>5. ASSUME NEW pc \in {"manifest", "config"}, NEW image, Led(c, Wants[p], image),
             call' = [call EXCEPT ![p] = [c EXCEPT !.pc = pc, !.image = image]]
      PROVE  Tracing'
  <2>1. PICK d : d = [c EXCEPT !.pc = pc, !.image = image]
    OBVIOUS
  <2>2. /\ d.pc = pc /\ d.image = image /\ d.named = c.named /\ d.root = <<>>
        /\ d.outcome = "none" /\ d.step = c.step /\ d.token = c.token /\ d.harmed = c.harmed
    BY <1>2, <2>1 DEF Calls
  <2>3. Led(d, Wants[p], d.image)
    BY <1>5, <2>2 DEF Led
  <2>4. Traced(d, Wants[p], tag, blob)
    BY <1>2, <2>2, <2>3 DEF Traced, Fetching
  <2> QED BY <1>0, <1>5, <2>1, <2>4, AloneTracing
<1>6. ASSUME NEW k \in Selected(o.entries, Wants[p])
      PROVE  Led(c, Wants[p], o.entries[k].digest)
  <2>1. k \in DOMAIN o.entries /\ Offers(o.entries[k], Wants[p])
    BY <1>6 DEF Selected
  <2> QED BY <1>3, <2>1 DEF Led
<1>7. IsImage(o) => Led(c, Wants[p], tag)
  BY <1>3 DEF Led, IsImage
<1>8. (IF o.kind = "index" THEN Selected(o.entries, Wants[p]) = {} ELSE ~IsImage(o))
          => Blamed(c, Wants[p])
  BY <1>3 DEF Blamed
<1> HIDE DEF o
<1> QED BY <1>0, <1>2, <1>4, <1>5, <1>6, <1>7, <1>8, FailTracing

LEMMA ManifestTracing ==
    ASSUME Inv, Tracing, NEW p \in Callers, GetManifest(p)
    PROVE  Tracing'
<1>0. /\ call[p] \in Calls /\ Shaped(call[p]) /\ Traced(call[p], Wants[p], tag, blob)
      /\ call[p].pc = "manifest" /\ Junk \notin Names
  BY JunkAssumption DEF Inv, Typed, Tracing, GetManifest
<1>1. PICK body \in DOMAIN Objects \cup {Junk} :
        /\ Answers(p, call[p].image, body)
        /\ LET c == Answered(call[p], call[p].image, body)
           IN  call' = [call EXCEPT ![p] =
                   IF body = c.image /\ IsImage(Objects[body])
                   THEN [c EXCEPT !.pc = "config"] ELSE Failed(c)]
  BY DEF GetManifest
<1>2. PICK c : c = Answered(call[p], call[p].image, body)
  OBVIOUS
<1>3. /\ c \in Calls /\ Traced(c, Wants[p], tag, blob) /\ c.named = call[p].named
      /\ c.pc = "manifest" /\ c.root = <<>> /\ c.outcome = "none" /\ c.image = call[p].image
      /\ (body # c.image => Blamed(c, Wants[p]))
  BY <1>0, <1>2, AnsweredShaped, AnsweredTraced DEF Shaped, Fetching
<1>4. /\ call' = [call EXCEPT ![p] = IF body = c.image /\ IsImage(Objects[body])
                                      THEN [c EXCEPT !.pc = "config"] ELSE Failed(c)]
      /\ UNCHANGED <<tag, blob>>
  BY <1>1, <1>2 DEF Answers
<1>5. Led(c, Wants[p], c.image)
  BY <1>3 DEF Traced
<1>6. CASE body = c.image /\ IsImage(Objects[body])
  <2>1. PICK d : d = [c EXCEPT !.pc = "config"]
    OBVIOUS
  <2>2. /\ d.pc = "config" /\ d.image = c.image /\ d.named = c.named /\ d.root = <<>>
        /\ d.outcome = "none" /\ d.step = c.step /\ d.token = c.token /\ d.harmed = c.harmed
    BY <1>3, <2>1 DEF Calls
  <2>3. Led(d, Wants[p], d.image)
    BY <1>5, <2>2 DEF Led
  <2>4. Traced(d, Wants[p], tag, blob)
    BY <1>3, <2>2, <2>3 DEF Traced, Fetching
  <2> QED BY <1>4, <1>6, <2>1, <2>4, AloneTracing
<1>7. CASE ~(body = c.image /\ IsImage(Objects[body]))
  <2>1. c.image # Junk
    BY <1>0, <1>3 DEF Shaped
  <2>2. body = c.image => Blamed(c, Wants[p])
    BY <1>1, <1>5, <1>7, <2>1 DEF Blamed, Sound
  <2> QED BY <1>3, <1>4, <1>7, <2>2, FailTracing
<1> QED BY <1>6, <1>7

LEMMA ConfigTracing ==
    ASSUME Inv, Tracing, NEW p \in Callers, GetConfig(p)
    PROVE  Tracing'
<1>0. /\ call[p] \in Calls /\ Shaped(call[p]) /\ Traced(call[p], Wants[p], tag, blob)
      /\ call[p].pc = "config" /\ call[p].image \in DOMAIN Objects
  BY DEF Inv, Typed, Tracing, GetConfig, Shaped
<1>1. PICK body \in {call[p].image, Junk} :
        /\ Answers(p, call[p].image, body)
        /\ LET c == Answered(call[p], call[p].image, body)
               o == Objects[call[p].image]
           IN  call' = [call EXCEPT ![p] =
                   IF /\ body = c.image /\ o.size # "wrong"
                      /\ IsConfigFor(o.platform, Wants[p])
                   THEN [c EXCEPT !.pc = "locking"] ELSE Failed(c)]
  BY DEF GetConfig
<1>2. PICK c : c = Answered(call[p], call[p].image, body)
  OBVIOUS
<1>3. /\ c \in Calls /\ Traced(c, Wants[p], tag, blob) /\ c.named = call[p].named
      /\ c.pc = "config" /\ c.root = <<>> /\ c.outcome = "none" /\ c.image = call[p].image
      /\ (body # c.image => Blamed(c, Wants[p]))
  BY <1>0, <1>2, AnsweredShaped, AnsweredTraced DEF Shaped, Fetching
<1>4. PICK o : o = Objects[c.image]
  OBVIOUS
<1>5. /\ call' = [call EXCEPT ![p] = IF /\ body = c.image /\ o.size # "wrong"
                                         /\ IsConfigFor(o.platform, Wants[p])
                                      THEN [c EXCEPT !.pc = "locking"] ELSE Failed(c)]
      /\ UNCHANGED <<tag, blob>>
  BY <1>1, <1>2, <1>3, <1>4 DEF Answers
<1>6. Led(c, Wants[p], c.image)
  BY <1>3 DEF Traced
<1>7. CASE body = c.image /\ o.size # "wrong" /\ IsConfigFor(o.platform, Wants[p])
  <2>1. PICK d : d = [c EXCEPT !.pc = "locking"]
    OBVIOUS
  <2>2. /\ d.pc = "locking" /\ d.image = c.image /\ d.named = c.named /\ d.root = <<>>
        /\ d.outcome = "none" /\ d.step = c.step /\ d.token = c.token /\ d.harmed = c.harmed
    BY <1>3, <2>1 DEF Calls
  <2>3. Led(d, Wants[p], d.image)
    BY <1>6, <2>2 DEF Led
  <2>4. Traced(d, Wants[p], tag, blob)
    BY <1>3, <1>4, <1>7, <2>2, <2>3 DEF Traced, Fetching
  <2> QED BY <1>5, <1>7, <2>1, <2>4, AloneTracing
<1>8. CASE ~(body = c.image /\ o.size # "wrong" /\ IsConfigFor(o.platform, Wants[p]))
  <2>1. body = c.image => Blamed(c, Wants[p])
    BY <1>0, <1>3, <1>4, <1>6, <1>8 DEF Blamed, Sound
  <2> QED BY <1>3, <1>5, <1>8, <2>1, FailTracing
<1> QED BY <1>7, <1>8

\* fetchBlob.
LEMMA LookTracing ==
    ASSUME Inv, Tracing, NEW p \in Callers, Stat(p) \/ Verify(p) \/ MakeTemp(p)
    PROVE  Tracing'
<1>0. /\ call[p] \in Calls /\ Traced(call[p], Wants[p], tag, blob) /\ call[p].pc \in Fetching
      /\ Path(p) = Digest(call[p]) /\ call[p].temp = "none"
      /\ UNCHANGED <<tag, blob>>
  BY DEF Inv, Typed, Shaped, Tracing, Stat, Verify, MakeTemp, Fetching, Path, Layer, Digest
<1>1. ASSUME NEW pc \in Fetching, NEW temp, call' = [call EXCEPT ![p] = Moved(call[p], pc, temp)],
             pc \in {"verify", "remove"} => blob[Path(p)] # "none",
             pc = "extract" => blob[Path(p)] = Path(p)
      PROVE  Tracing'
  <2>1. PICK d : d = Moved(call[p], pc, temp)
    OBVIOUS
  <2>2. Traced(d, Wants[p], tag, blob)
    BY <1>0, <1>1, <2>1, MovedTraced
  <2> QED BY <1>0, <1>1, <2>1, <2>2, AloneTracing
<1>2. ASSUME NEW pc \in Fetching, Goes(p, pc),
             pc \in {"verify", "remove"} => blob[Path(p)] # "none",
             pc = "extract" => blob[Path(p)] = Path(p)
      PROVE  Tracing'
  <2>1. call' = [call EXCEPT ![p] = Moved(call[p], pc, "none")]
    BY <1>0, <1>2 DEF Goes, Calls, Moved
  <2> QED BY <1>1, <1>2, <2>1
<1>3. CASE Stat(p)
  BY <1>2, <1>3 DEF Stat, Fetching
<1>4. CASE Verify(p)
  <2>1. CASE blob[Path(p)] = "none"
    <3>1. call' = [call EXCEPT ![p] = Failed(call[p])] /\ call[p].pc = "verify"
      BY <1>4, <2>1 DEF Verify, Fail
    <3>2. Blamed(call[p], Wants[p])
      BY <1>0, <2>1, <3>1 DEF Traced, Blamed
    <3> QED BY <1>0, <3>1, <3>2, FailTracing
  <2>2. CASE blob[Path(p)] # "none"
    BY <1>2, <1>4, <2>2 DEF Verify, Fits, Path, Fetching
  <2> QED BY <2>1, <2>2
<1>5. CASE MakeTemp(p)
  <2>1. call' = [call EXCEPT ![p] = Moved(call[p], "download", "empty")]
    BY <1>0, <1>5 DEF MakeTemp, Calls, Moved
  <2> QED BY <1>1, <2>1 DEF Fetching
<1> QED BY <1>3, <1>4, <1>5

LEMMA DownloadTracing ==
    ASSUME Inv, Tracing, NEW p \in Callers, Download(p)
    PROVE  Tracing'
<1>0. /\ call[p] \in Calls /\ Shaped(call[p]) /\ Traced(call[p], Wants[p], tag, blob)
      /\ call[p].pc = "download" /\ "download" \in Fetching /\ "rename" \in Fetching
      /\ Path(p) = Digest(call[p])
  BY DEF Inv, Typed, Tracing, Download, Fetching, Path, Layer, Digest
<1>1. PICK body \in {Path(p), Junk} :
        /\ Answers(p, Path(p), body)
        /\ LET c == Answered(call[p], Path(p), body)
           IN  call' = [call EXCEPT ![p] =
                   IF Fits(Layer(p), body) THEN [c EXCEPT !.pc = "rename", !.temp = body]
                                           ELSE Failed(c)]
  BY DEF Download
<1>2. PICK c : c = Answered(call[p], Path(p), body)
  OBVIOUS
<1>3. /\ c \in Calls /\ Shaped(c) /\ Traced(c, Wants[p], tag, blob)
      /\ c.pc = "download" /\ c.image = call[p].image /\ c.at = call[p].at
      /\ (body # Path(p) => Blamed(c, Wants[p]))
  BY <1>0, <1>2, AnsweredShaped, AnsweredTraced
<1>4. /\ call' = [call EXCEPT ![p] = IF Fits(Layer(p), body) THEN Moved(c, "rename", body)
                                                             ELSE Failed(c)]
      /\ UNCHANGED <<tag, blob>>
  BY <1>1, <1>2 DEF Answers, Moved
<1>5. CASE Fits(Layer(p), body)
  <2>1. PICK d : d = Moved(c, "rename", body)
    OBVIOUS
  <2>2. Traced(d, Wants[p], tag, blob)
    BY <1>0, <1>3, <2>1, MovedTraced
  <2> QED BY <1>4, <1>5, <2>1, <2>2, AloneTracing
<1>6. CASE ~Fits(Layer(p), body)
  <2>1. ASSUME body = Path(p) PROVE Blamed(c, Wants[p])
    <3>1. Objects[c.image].layers[c.at].size = "wrong"
      BY <1>3, <1>6, <2>1 DEF Fits, Path, Layer
    <3>2. c.image \in DOMAIN Objects /\ c.at \in DOMAIN Objects[c.image].layers
      <4>1. c.at \in 1..Len(Objects[c.image].layers)
            /\ Objects[c.image].layers \in Seq([digest : Layers, size : {"right", "none", "wrong"}])
        BY <1>0, <1>3, LayerTyped
      <4> QED BY <1>0, <1>3, <4>1 DEF Shaped
    <3>3. Led(c, Wants[p], c.image)
      BY <1>0, <1>3 DEF Traced
    <3>4. ~Sound(Objects[c.image])
      BY <3>1, <3>2 DEF Sound
    <3> QED BY <3>2, <3>3, <3>4 DEF Blamed
  <2> QED BY <1>3, <1>4, <1>6, <2>1, FailTracing
<1> QED BY <1>5, <1>6

LEMMA RenameFailsTracing ==
    ASSUME Inv, Tracing, NEW p \in Callers, RenameFails(p)
    PROVE  Tracing'
<1>0. /\ call[p] \in Calls /\ Traced(call[p], Wants[p], tag, blob) /\ call[p].pc = "rename"
      /\ "rename" \in Fetching /\ "extract" \in Fetching
      /\ UNCHANGED <<tag, blob>>
  BY DEF Inv, Typed, Tracing, RenameFails, Fetching
<1>1. PICK h : h = Hit(call[p], "rename")
  OBVIOUS
<1>2. /\ h \in Calls /\ h.harmed = call[p].harmed \cup {"rename"}
      /\ h.pc = "rename" /\ h.image = call[p].image /\ h.at = call[p].at
      /\ h.root = call[p].root /\ h.outcome = call[p].outcome /\ h.named = call[p].named
  BY <1>0, <1>1 DEF Hit, Calls, Faults
<1>3. Traced(h, Wants[p], tag, blob)
  BY <1>0, <1>2, CarryTraced
<1>4. [call[p] EXCEPT !.temp = "none", !.harmed = @ \cup {"rename"}] = [h EXCEPT !.temp = "none"]
  BY <1>0, <1>1 DEF Calls, Hit
<1>5. Failed([h EXCEPT !.temp = "none"]) = Failed(h)
  BY <1>2 DEF Failed, Calls
<1>6. [[h EXCEPT !.temp = "none"] EXCEPT !.pc = "extract"] = Moved(h, "extract", "none")
  BY <1>2 DEF Moved, Calls
<1>7. \/ call' = [call EXCEPT ![p] = Failed(h)]
      \/ call' = [call EXCEPT ![p] = Moved(h, "extract", "none")]
  BY <1>4, <1>5, <1>6 DEF RenameFails
<1>8. CASE call' = [call EXCEPT ![p] = Failed(h)]
  BY <1>0, <1>2, <1>3, <1>8, FailTracing DEF Blamed
<1>9. CASE call' = [call EXCEPT ![p] = Moved(h, "extract", "none")]
  <2>1. PICK d : d = Moved(h, "extract", "none")
    OBVIOUS
  <2>2. h.harmed # {}
    BY <1>2
  <2>3. Traced(d, Wants[p], tag, blob)
    BY ZenonT(30), <1>0, <1>2, <1>3, <2>1, <2>2, MovedTraced
  <2> QED BY <1>0, <1>9, <2>1, <2>3, AloneTracing
<1> QED BY <1>7, <1>8, <1>9

LEMMA ExtractTracing ==
    ASSUME Inv, Tracing, NEW p \in Callers, Extract(p)
    PROVE  Tracing'
<1>0. /\ call[p] \in Calls /\ Shaped(call[p]) /\ Traced(call[p], Wants[p], tag, blob)
      /\ call[p].pc = "extract" /\ call[p].pc \in Fetching /\ Path(p) = Digest(call[p])
      /\ call[p].outcome = "none" /\ UNCHANGED <<tag, blob>>
  BY DEF Inv, Typed, Tracing, Shaped, Extract, Fetching, Path, Layer, Digest
<1>1. CASE blob[Path(p)] \in {"none", Junk} /\ Fail(p)
  <2>1. Digest(call[p]) \in Layers /\ Digest(call[p]) \notin {"none", Junk}
    BY <1>0, LayerTyped, JunkAssumption
  <2>2. Blamed(call[p], Wants[p])
    BY <1>0, <1>1, <2>1 DEF Traced, Blamed
  <2> QED BY <1>0, <1>1, <2>2, FailTracing DEF Fail
<1>2. CASE call' = [call EXCEPT
               ![p].root = Append(@, blob[Path(p)]),
               ![p].at = IF call[p].at = Len(Objects[call[p].image].layers) THEN @ ELSE @ + 1,
               ![p].pc = IF call[p].at = Len(Objects[call[p].image].layers) THEN "idle" ELSE "stat",
               ![p].outcome = IF call[p].at = Len(Objects[call[p].image].layers) THEN "done" ELSE @]
  <2>1. PICK d : d = call'[p]
    OBVIOUS
  <2>2. /\ d.pc \in {"idle", "stat"} /\ d.outcome \in {"none", "done"}
        /\ d.image = call[p].image /\ d.named = call[p].named
        /\ d.step = call[p].step /\ d.token = call[p].token /\ d.harmed = call[p].harmed
    BY <1>0, <1>2, <2>1 DEF Inv, Typed, Calls
  <2>3. Led(call[p], Wants[p], call[p].image) => Led(d, Wants[p], d.image)
    BY <2>2 DEF Led
  <2>4. Traced(d, Wants[p], tag, blob)
    BY <1>0, <2>2, <2>3 DEF Traced, Fetching
  <2>5. call' = [call EXCEPT ![p] = d]
    BY <1>0, <1>2, <2>1 DEF Inv, Typed
  <2> QED BY <1>0, <2>4, <2>5, AloneTracing
<1> QED BY <1>1, <1>2 DEF Extract

\* The cache changes at digest d; the calls not in P see nothing of it, or are
\* harmed.
LEMMA BlobTracing ==
    ASSUME Inv, Tracing, NEW d \in Layers, NEW content, NEW f, NEW P \in SUBSET Callers,
           blob' = [blob EXCEPT ![d] = content], tag' = tag,
           \A p \in P : Traced(call'[p], Wants[p], tag, blob'),
           \A q \in Callers \ P : call'[q] \in {call[q], Hit(call[q], f)},
           \A q \in Callers \ P : call'[q] # Hit(call[q], f) /\ Loses(q, d) =>
               content # "none" /\ (content = d \/ ~Mistakes(q, d))
    PROVE  Tracing'
<1>1. ASSUME NEW q \in Callers \ P PROVE Traced(call'[q], Wants[q], tag, blob')
  <2>0. call[q] \in Calls /\ Shaped(call[q]) /\ Traced(call[q], Wants[q], tag, blob)
    BY DEF Inv, Typed, Tracing
  <2>1. CASE call'[q] = Hit(call[q], f)
    <3>1. PICK h : h = Hit(call[q], f)
      OBVIOUS
    <3>2. /\ h.harmed = call[q].harmed \cup {f} /\ h.token = call[q].token
          /\ h.pc = call[q].pc /\ h.image = call[q].image /\ h.at = call[q].at
          /\ h.root = call[q].root /\ h.outcome = call[q].outcome /\ h.named = call[q].named
      BY <2>0, <3>1 DEF Hit, Calls
    <3>3. h.pc = "tag" => tag \in h.named
      BY <2>0, <3>2 DEF Traced
    <3>4. Traced(h, Wants[q], tag, blob)
      BY <2>0, <3>2, <3>3, CarryTraced
    <3>5. Traced(h, Wants[q], tag, blob')
      BY <3>2, <3>4 DEF Traced
    <3> QED BY <2>1, <3>1, <3>5
  <2>2. CASE call'[q] = call[q] /\ call'[q] # Hit(call[q], f)
    <3>1. CASE call[q].pc \notin {"verify", "remove", "extract"}
      BY <2>0, <2>2, <3>1 DEF Traced
    <3>2. CASE call[q].pc \in {"verify", "remove", "extract"}
      <4>1. Digest(call[q]) = Path(q) /\ Digest(call[q]) \in Layers
        BY <2>0, <3>2, LayerTyped DEF Fetching, Digest, Path, Layer
      <4>2. CASE Path(q) # d
        <5>1. blob'[Digest(call[q])] = blob[Digest(call[q])]
          BY <4>1, <4>2
        <5> QED BY <2>0, <2>2, <5>1 DEF Traced
      <4>3. CASE Path(q) = d
        <5>1. Loses(q, d) /\ (call[q].pc = "extract" => Mistakes(q, d))
          BY <3>2, <4>3 DEF Loses, Mistakes
        <5>2. blob'[Digest(call[q])] = content
          BY <4>1, <4>3 DEF Inv, Typed
        <5> QED BY <2>0, <2>2, <4>1, <4>3, <5>1, <5>2 DEF Traced
      <4> QED BY <4>2, <4>3
    <3> QED BY <3>1, <3>2
  <2> QED BY <2>1, <2>2
<1> QED BY <1>1 DEF Tracing

LEMMA RenameTracing ==
    ASSUME Inv, Tracing, NEW p \in Callers, Rename(p)
    PROVE  Tracing'
<1>0. /\ call[p] \in Calls /\ Shaped(call[p]) /\ Traced(call[p], Wants[p], tag, blob)
      /\ call[p].pc = "rename" /\ call[p].pc \in Fetching /\ "extract" \in Fetching
      /\ call[p].temp = Digest(call[p]) /\ Path(p) = Digest(call[p]) /\ Path(p) \in Layers
      /\ tag' = tag
  BY LayerTyped DEF Inv, Typed, Tracing, Rename, Fetching, Shaped, Path, Layer, Digest
<1>1. PICK d : d = Moved(call[p], "extract", "none")
  OBVIOUS
<1>2. /\ call' = [call EXCEPT ![p] = d]
      /\ blob' = [blob EXCEPT ![Path(p)] = Path(p)]
  BY ZenonT(30), <1>0, <1>1 DEF Rename, Calls, Moved
<1>3. blob'[Digest(call[p])] = Digest(call[p])
  BY <1>0, <1>2 DEF Inv, Typed
<1>4. Traced(d, Wants[p], tag, blob')
  BY <1>0, <1>1, <1>3, MovedTraced
<1>5. call'[p] = d /\ \A q \in Callers \ {p} : call'[q] = call[q]
  BY <1>2 DEF Inv, Typed
<1>6. Path(p) # "none" /\ {p} \in SUBSET Callers
  BY <1>0, JunkAssumption
<1>7. \A q \in {p} : Traced(call'[q], Wants[q], tag, blob')
  BY <1>4, <1>5
<1> QED BY ZenonT(30), <1>0, <1>2, <1>5, <1>6, <1>7, BlobTracing

LEMMA RemoveTracing ==
    ASSUME Inv, Tracing, NEW p \in Callers, Remove(p)
    PROVE  Tracing'
<1>0. /\ call[p] \in Calls /\ Shaped(call[p]) /\ Traced(call[p], Wants[p], tag, blob)
      /\ call[p].pc = "remove" /\ call[p].pc \in Fetching /\ "temp" \in Fetching
      /\ call[p].temp = "none" /\ Path(p) = Digest(call[p]) /\ Path(p) \in Layers
      /\ tag' = tag
  BY LayerTyped DEF Inv, Typed, Tracing, Remove, Fetching, Shaped, Path, Layer, Digest
<1>1. CASE blob[Path(p)] = "none"
  <2>1. call' = [call EXCEPT ![p] = Failed(call[p])] /\ UNCHANGED <<tag, blob>>
    BY <1>0, <1>1 DEF Remove, Fail
  <2>2. Blamed(call[p], Wants[p])
    BY <1>0, <1>1 DEF Traced, Blamed
  <2> QED BY <1>0, <2>1, <2>2, FailTracing
<1>2. CASE blob[Path(p)] # "none"
  <2> DEFINE qs == {q \in Callers \ {p} : Loses(q, Path(p))}
             h  == Harmed(qs, "removed")
  <2>1. blob' = [blob EXCEPT ![Path(p)] = "none"] /\ call' = [h EXCEPT ![p].pc = "temp"]
    BY <1>2 DEF Remove
  <2>2. /\ h \in [Callers -> Calls]
        /\ h[p] = call[p]
        /\ \A q \in qs : h[q] = Hit(call[q], "removed")
        /\ \A q \in Callers \ qs : h[q] = call[q]
    <3>1. qs \in SUBSET Callers /\ p \notin qs
      OBVIOUS
    <3> HIDE DEF qs
    <3> QED BY <3>1, HarmedTyped
  <2>3. /\ \A q \in Callers \ {p} : h[q] \in {call[q], Hit(call[q], "removed")}
        /\ \A q \in Callers \ {p} : Loses(q, Path(p)) => h[q] = Hit(call[q], "removed")
    BY <2>2
  <2> HIDE DEF h, qs
  <2>4. PICK d : d = Moved(call[p], "temp", "none")
    OBVIOUS
  <2>5. d = [h[p] EXCEPT !.pc = "temp"]
    BY <1>0, <2>2, <2>4 DEF Calls, Moved
  <2>6. call'[p] = d /\ \A q \in Callers \ {p} : call'[q] = h[q]
    BY <2>1, <2>2, <2>5
  <2>7. Traced(d, Wants[p], tag, blob')
    BY <1>0, <2>4, MovedTraced
  <2>8. {p} \in SUBSET Callers /\ \A q \in {p} : Traced(call'[q], Wants[q], tag, blob')
    BY <2>6, <2>7
  <2>9. /\ \A q \in Callers \ {p} : call'[q] \in {call[q], Hit(call[q], "removed")}
        /\ \A q \in Callers \ {p} : call'[q] # Hit(call[q], "removed") /\ Loses(q, Path(p)) =>
               "none" # "none" /\ ("none" = Path(p) \/ ~Mistakes(q, Path(p)))
    BY <2>3, <2>6
  <2> QED BY ZenonT(30), <1>0, <2>1, <2>8, <2>9, BlobTracing
<1> QED BY <1>1, <1>2

LEMMA DiskTracing ==
    ASSUME Inv, Tracing, NEW d \in Layers, Spoil(d) \/ Lose(d)
    PROVE  Tracing'
<1>0. {} \in SUBSET Callers /\ tag' = tag /\ "none" # Junk
  BY JunkAssumption DEF Spoil, Lose
<1>1. CASE Spoil(d)
  <2> DEFINE qs == {q \in Callers : Mistakes(q, d)}
  <2>1. blob' = [blob EXCEPT ![d] = Junk] /\ call' = Harmed(qs, "damage")
    BY <1>1 DEF Spoil
  <2>2. /\ \A q \in Callers : call'[q] \in {call[q], Hit(call[q], "damage")}
        /\ \A q \in Callers : Mistakes(q, d) => call'[q] = Hit(call[q], "damage")
    BY <2>1, HarmedTyped DEF Faults
  <2>3. /\ \A q \in {} : Traced(call'[q], Wants[q], tag, blob')
        /\ \A q \in Callers \ {} : call'[q] \in {call[q], Hit(call[q], "damage")}
        /\ \A q \in Callers \ {} : call'[q] # Hit(call[q], "damage") /\ Loses(q, d) =>
               Junk # "none" /\ (Junk = d \/ ~Mistakes(q, d))
    BY <1>0, <2>2
  <2> QED BY <1>0, <2>1, <2>3, BlobTracing
<1>2. CASE Lose(d)
  <2> DEFINE qs == {q \in Callers : Loses(q, d)}
  <2>1. blob' = [blob EXCEPT ![d] = "none"] /\ call' = Harmed(qs, "loss")
    BY <1>2 DEF Lose
  <2>2. /\ \A q \in Callers : call'[q] \in {call[q], Hit(call[q], "loss")}
        /\ \A q \in Callers : Loses(q, d) => call'[q] = Hit(call[q], "loss")
    BY <2>1, HarmedTyped DEF Faults
  <2>3. /\ \A q \in {} : Traced(call'[q], Wants[q], tag, blob')
        /\ \A q \in Callers \ {} : call'[q] \in {call[q], Hit(call[q], "loss")}
        /\ \A q \in Callers \ {} : call'[q] # Hit(call[q], "loss") /\ Loses(q, d) =>
               "none" # "none" /\ ("none" = d \/ ~Mistakes(q, d))
    BY <2>2
  <2> QED BY <1>0, <2>1, <2>3, BlobTracing
<1> QED BY <1>1, <1>2

LEMMA RegistryTracing ==
    ASSUME Inv, Tracing, (\E t \in Tagged : MoveTag(t)) \/ (\E p \in Callers : Expire(p))
    PROVE  Tracing'
<1>0. \A q \in Callers : call[q] \in Calls /\ Traced(call[q], Wants[q], tag, blob)
  BY DEF Inv, Typed, Tracing
<1>1. ASSUME NEW t \in Tagged, MoveTag(t) PROVE Tracing'
  <2>1. /\ tag' = t /\ blob' = blob
        /\ \A q \in Callers : call'[q] = IF call[q].pc = "tag"
               THEN [call[q] EXCEPT !.named = @ \cup {t}] ELSE call[q]
    BY <1>1 DEF MoveTag
  <2>2. ASSUME NEW q \in Callers PROVE Traced(call'[q], Wants[q], t, blob)
    <3>1. PICK d : d = call'[q]
      OBVIOUS
    <3>2. /\ d.pc = call[q].pc /\ d.image = call[q].image /\ d.at = call[q].at
          /\ d.root = call[q].root /\ d.outcome = call[q].outcome
          /\ call[q].named \subseteq d.named /\ d.harmed = call[q].harmed
          /\ d.step = call[q].step /\ d.token = call[q].token
          /\ d.pc = "tag" => t \in d.named
      <4>1. CASE call[q].pc = "tag"
        <5>1. d = [call[q] EXCEPT !.named = call[q].named \cup {t}]
          BY <2>1, <3>1, <4>1
        <5> QED BY <1>0, <5>1 DEF Calls
      <4>2. CASE call[q].pc # "tag"
        BY <2>1, <3>1, <4>2
      <4> QED BY <4>1, <4>2
    <3>3. d.step = "resent" => d.token = "valid" \/ d.harmed # {}
      BY <1>0, <3>2 DEF Traced
    <3> QED BY <1>0, <3>1, <3>2, <3>3, CarryTraced
  <2> QED BY <2>1, <2>2 DEF Tracing
<1>2. ASSUME NEW p \in Callers, Expire(p) PROVE Tracing'
  <2>1. PICK d : d = [call[p] EXCEPT !.token = "expired",
                          !.harmed = IF call[p].step = "resent" THEN @ \cup {"expiry"} ELSE @]
    OBVIOUS
  <2>2. call' = [call EXCEPT ![p] = d] /\ UNCHANGED <<tag, blob>>
    BY ZenonT(30), <1>0, <1>2, <2>1 DEF Expire, Calls, Inv, Typed
  <2>3. /\ d.pc = call[p].pc /\ d.image = call[p].image /\ d.at = call[p].at
        /\ d.root = call[p].root /\ d.outcome = call[p].outcome /\ d.named = call[p].named
        /\ call[p].harmed \subseteq d.harmed /\ d.step = call[p].step
        /\ d.step = "resent" => d.harmed # {}
    BY ZenonT(30), <1>0, <2>1 DEF Calls
  <2>4. d.pc = "tag" => tag \in d.named
    BY <1>0, <2>3 DEF Traced
  <2>5. Traced(d, Wants[p], tag, blob)
    BY <1>0, <2>3, <2>4, CarryTraced
  <2> QED BY <2>2, <2>5, AloneTracing
<1> QED BY <1>1, <1>2

LEMMA InitTracing == Init => Tracing
<1> SUFFICES ASSUME Init, NEW p \in Callers PROVE Traced(Idle, Wants[p], tag, blob)
  BY DEF Init, Tracing
<1> QED BY DEF Idle, Traced, Fetching

LEMMA NextTracing == Inv /\ Tracing /\ [Next]_vars => Tracing'
<1> SUFFICES ASSUME Inv, Tracing, [Next]_vars PROVE Tracing'
  OBVIOUS
<1>1. ASSUME NEW p \in Callers, Step(p) PROVE Tracing'
  BY <1>1, StartTracing, RequestTracing, TagTracing, ManifestTracing, ConfigTracing,
     LookTracing, RemoveTracing, DownloadTracing, RenameTracing, ExtractTracing DEF Step
<1>2. CASE Happens
  BY <1>2, RegistryTracing, RequestTracing, RenameFailsTracing, DiskTracing DEF Happens
<1>3. CASE UNCHANGED vars
  BY <1>3 DEF vars, Tracing
<1> QED BY <1>1, <1>2, <1>3 DEF Next

LEMMA TracingAlways == Spec => []Tracing
BY InitInv, NextInv, InitTracing, NextTracing, PTL DEF Spec

\* However the tag moves while the manifests are fetched and whatever the
\* registry sends: layers are extracted of an image the tag has named during
\* the call, of the platform asked for (Resolve, verifyImageConfig).
THEOREM NamedResolved == Spec => []ResolvesWhatTagNames
<1>1. Tracing => ResolvesWhatTagNames
  <2> SUFFICES ASSUME Tracing, NEW p \in Callers, call[p].root # <<>>
               PROVE  /\ MayBe(p, call[p].image)
                      /\ IsConfigFor(Objects[call[p].image].platform, Wants[p])
    BY DEF ResolvesWhatTagNames
  <2>1. Led(call[p], Wants[p], call[p].image)
        /\ IsConfigFor(Objects[call[p].image].platform, Wants[p])
    BY DEF Tracing, Traced
  <2> QED BY <2>1 DEF Led, MayBe
<1> QED BY <1>1, TracingAlways, PTL

\* A call that fails has met a fault, lost a blob it depends on to another, or
\* been led to something that is no sound image of the platform (Resolve,
\* fetchBlob, applyLayer).
THEOREM FailuresHaveReasons == Spec => []FailsForAReason
<1>1. Tracing => FailsForAReason
  <2> SUFFICES ASSUME Tracing, NEW p \in Callers, call[p].outcome = "failed"
               PROVE  \/ call[p].harmed # {}
                      \/ \E t \in call[p].named : IF Objects[t].kind = "index"
                                                   THEN Selected(Objects[t].entries, Wants[p]) = {}
                                                   ELSE ~IsImage(Objects[t])
                      \/ \E i \in DOMAIN Objects : MayBe(p, i) /\
                           (~Sound(Objects[i]) \/ ~IsConfigFor(Objects[i].platform, Wants[p]))
    BY DEF FailsForAReason
  <2>1. Blamed(call[p], Wants[p])
    BY DEF Tracing, Traced
  <2>2. \A i : Led(call[p], Wants[p], i) => MayBe(p, i)
    BY DEF Led, MayBe
  <2> QED BY <2>1, <2>2 DEF Blamed
<1> QED BY <1>1, TracingAlways, PTL
=============================================================================
