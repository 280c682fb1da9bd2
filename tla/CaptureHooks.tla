---------------------------- MODULE CaptureHooks ----------------------------
(***************************************************************************)
(* All capture programs of one CPU and the ring they share.  A program and *)
(* the programs it tail-calls run to their end before another one runs on  *)
(* that CPU; only programs in a tracked cgroup are modelled.               *)
(***************************************************************************)
EXTENDS HttpCapture, SampleHooks

(* Units that must not be seen in userspace: what a process sends besides  *)
(* the selected text, what an earlier record left in the ring, bytes past  *)
(* the end of a segment, and unreadable memory.                            *)
Private == {"x", "old", "over", "fault"}

Clean(text) == Range(text) \cap Private = {}
CleanIfReadable(text) == Range(text) \cap (Private \ {"fault"}) = {}

(* In a request, "x" is behind the ? or the space that ends the path, and  *)
(* in no line that starts with Host: before the end of the headers.        *)
Labelled(text) ==
    Len(text) >= 2 /\ text[1] = "M" /\ text[2] = "/" =>
      \A i \in DOMAIN text : text[i] \in Private =>
        /\ \E j \in 2 .. i - 1 : text[j] \in {"?", "SP"}
        /\ \A h \in 2 .. i - 1 : text[h - 1] = "CRLF" /\ text[h] = "H" =>
             \/ \E j \in h + 1 .. i - 1 : text[j] \in {"CRLF", "LF"}
             \/ \E j \in 1 .. h - 2 : text[j] = "CRLF" /\ text[j + 1] = "CRLF"

(* How the inputs are labelled.  A value that is validated before it is    *)
(* exposed, or read in one piece, may have an unreadable part.             *)
ASSUME Labelling ==
    /\ \A text \in Buffers : Labelled(text)
    /\ \A msg \in Messages : Labelled(msg.segs[1].data)
    /\ \A nva \in HeaderArrays :
         /\ \A name \in {":method", ":authority"} : CleanIfReadable(FirstValue(nva, name))
         /\ CleanIfReadable(Until(FirstValue(nva, ":path"), 1, {"?"}))
    /\ \A req \in Requests : \A text \in {req.method, req.path, req.host, req.urlHost} : CleanIfReadable(text)
    /\ \A d \in Dentries : Clean(d.names)
    /\ \A text \in Strings \ {Unreadable} : Clean(text)
    /\ \A text \in Addresses \cup Argvs : CleanIfReadable(text)
    /\ \A msg \in Sends : \A j \in DOMAIN msg.segs : Clean(msg.segs[j].data)

vars == <<ringVars, http_scratch>>

Init == RingInit /\ HttpInit

Next ==
    \/ events < MaxEvents /\ HttpNext
    \/ events < MaxEvents /\ HooksNext /\ UNCHANGED http_scratch
    \/ Consume /\ UNCHANGED http_scratch

Spec == Init /\ [][Next]_vars

(***************************************************************************)
(* Properties                                                              *)
(***************************************************************************)

(* The offsets of the parse stay inside the prefix and the data captured   *)
(* last, and every hook that ran left at most one record or one drop.      *)
TypeOK ==
    /\ Len(http_scratch.prefix) = PrefixLen
    /\ http_scratch.data_len \in 0 .. PrefixLen
    /\ http_scratch.path_n \in 0 .. PrefixLen
    /\ http_scratch.have_host =>
         /\ http_scratch.host_val > 0
         /\ http_scratch.host_val + http_scratch.host_n <= http_scratch.data_len
    /\ Len(ring) <= Room /\ Len(ring) + drops <= events

Visible(s) ==
    CASE s.kind = "http" -> Range(s.method) \cup Range(s.path) \cup Range(s.host)
      [] s.kind = "dns" -> Range(s.payload)
      [] OTHER -> UNION {Range(cString(s.parts[j].memory)) : j \in DOMAIN s.parts}

(* Nothing leaves the kernel but the text a sample is for: no query, other *)
(* header or body, no bytes behind a short segment, and nothing of an      *)
(* earlier record in the ring or an earlier request in the scratch map.    *)
OnlySelectedText ==
    \A i \in DOMAIN ring : Visible(ring[i]) \cap Private = {}
=============================================================================
