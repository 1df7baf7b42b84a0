---------------------------- MODULE VersionedImages ----------------------------
(***************************************************************************)
(* What conditional metadata promises (VersionedMetadata: "both fields     *)
(* describe the same committed metadata image"): every key has an image, a *)
(* revision names one image for ever, and a conditional write commits      *)
(* exactly when its caller's revision is the one of the current image.     *)
(***************************************************************************)
CONSTANTS Keys, Values, Revisions

VARIABLES
  image,    \* the image of every key
  spent,    \* the revisions ever given out
  answer    \* what the last command told its caller

vars == <<image, spent, answer>>

\* A value with version 0 has no revision and takes no conditional write.
Missing   == [value |-> 0, version |-> 0]
NoAnswer  == [kind |-> "none"]

Init ==
  /\ image = [k \in Keys |-> Missing]
  /\ spent = {}
  /\ answer = NoAnswer

\* What a key may turn into: nothing, an untracked value if it was not
\* tracked, or an image with a revision nobody has seen.
Follows(k) ==
  \/ image'[k] = image[k]
  \/ image'[k] = Missing
  \/ image'[k].version = 0 /\ image[k].version = 0
  \/ image'[k].version \in Revisions \ spent

\* Any other command: it may change many keys at once.
Change ==
  /\ \A k \in Keys : Follows(k)
  /\ \A j, k \in Keys : j # k /\ image'[j].version # 0 => image'[j].version # image'[k].version
  /\ spent \subseteq spent'
  /\ \A k \in Keys : image'[k].version \in spent' \cup {0}
  /\ answer' = NoAnswer

\* A conditional write whose revision is the current one.
Commit(k, v, e) ==
  /\ image[k].version = e /\ (e = 0 => image[k] = Missing)
  /\ \E r \in Revisions \ spent :
       /\ image' = [image EXCEPT ![k] = [value |-> v, version |-> r]]
       /\ spent' = spent \cup {r}
       /\ answer' = [kind |-> "committed", key |-> k, image |-> image'[k]]

\* A conditional write that is late: the caller is given the current image.
Conflict(k, e) ==
  /\ image[k].version # e
  /\ answer' = [kind |-> "conflict", key |-> k, image |-> image[k]]
  /\ UNCHANGED <<image, spent>>

Next ==
  \/ Change
  \/ \E k \in Keys, v \in Values, e \in Revisions \cup {0} : Commit(k, v, e) \/ Conflict(k, e)

Spec == Init /\ [][Next]_vars
=============================================================================
