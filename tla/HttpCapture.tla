---------------------------- MODULE HttpCapture ----------------------------
(***************************************************************************)
(* The four HTTP taps: cleartext tcp_sendmsg and SSL_write, which parse an *)
(* HTTP/1 prefix kept in a per-CPU scratch map; nghttp2_submit_request and *)
(* Go's RoundTrip, which pick fields of structures in user memory          *)
(* (bpf/http_helpers.bpf.h, http_hooks.bpf.h, http_uprobe_capture_hooks    *)
(* .bpf.h, go_http_uprobe_hooks.bpf.h).                                    *)
(*                                                                         *)
(* Text is a sequence of lexical units: "M" a method and its space, "/",   *)
(* "a" a path or host character, "?", "SP", "V" the version, "CRLF", "LF", *)
(* "H" a Host: name, "CTL" a control character, "x" what must stay in the  *)
(* process (query, other headers, body), "fault" unreadable memory.        *)
(***************************************************************************)
EXTENDS SampleRing

CONSTANTS PrefixLen,       \* HTTP1_PREFIX_LEN
          MinRequestLine,  \* HTTP_MIN_REQUEST_LINE
          MethodLen,       \* HTTP_METHOD_LEN
          MaxHeaders,      \* NGHTTP2_MAX_HEADERS
          Messages,        \* the msghdr of a tcp_sendmsg
          Buffers,         \* the buffer of an SSL_write
          HeaderArrays,    \* the nva of an nghttp2_submit_request
          Requests         \* the *http.Request of a RoundTrip

ASSUME HttpAssumption ==
    /\ {MinRequestLine, MethodLen, MaxHeaders} \subseteq Nat \ {0}
    /\ MinRequestLine > 2 /\ PrefixLen \in MinRequestLine .. FieldLen

(* What the taps are given: texts in user memory, some behind pointers. *)
ASSUME HttpInputs ==
    /\ Buffers \subseteq Text
    /\ \A msg \in Messages : msg.segs[1].data \in Text
    /\ HeaderArrays \subseteq Seq([name : STRING, value : Text])
    /\ Requests \subseteq [https : BOOLEAN, method : Text, path : Text,
                          host : Text, urlHost : Text]

VARIABLE http_scratch

HttpInit ==
    http_scratch = [prefix |-> [i \in 1 .. PrefixLen |-> "NUL"], data_len |-> 0, line_end |-> 0,
                    path_n |-> 0, have_host |-> FALSE, host_val |-> 0, host_n |-> 0]

http_method_len(text) == IF text[1] = "M" THEN 1 ELSE 0

(* The user buffer of the first segment of a sendmsg. *)
http_first_segment(msg) ==
    CASE msg.iter = "ubuf" -> msg.segs[1].data
      [] msg.iter = "iovec" -> msg.segs[1].data
      [] OTHER -> <<>>

\* Mutant: the host found by the program before is not forgotten.
CaptureKeepingHost(s, text) ==
    [s EXCEPT !.prefix = copy(@, SubSeq(text, 1, Least(Len(text), PrefixLen))),
              !.data_len = Least(Len(text), PrefixLen)]

(* Copies the prefix over the last one and sets up the parse. *)
http_capture_user_buffer(s, text) ==
    [s EXCEPT !.prefix = copy(@, SubSeq(text, 1, Least(Len(text), PrefixLen))),
              !.data_len = Least(Len(text), PrefixLen),
              !.have_host = FALSE, !.host_val = 0, !.host_n = 0]

(* The space that ends the request target, or the end of the data. *)
http_line_end(s) ==
    First({i \in 2 .. s.data_len : s.prefix[i] \in {"SP", "CTL", "CRLF", "LF", "NUL"}}, s.data_len + 1)

http_step_reqline_ok(s) ==
    LET e == http_line_end(s)
    IN /\ s.data_len >= MinRequestLine
       /\ http_method_len(s.prefix) > 0 /\ s.prefix[2] = "/"
       /\ e <= s.data_len => s.prefix[e] = "SP"
       /\ e + 1 <= s.data_len => s.prefix[e + 1] = "V"
       /\ e + 2 <= s.data_len => s.prefix[e + 2] = "CRLF"

http_step_reqline(s) == [s EXCEPT !.line_end = http_line_end(s)]

http_step_path(s) ==
    LET e == First({i \in 2 .. s.line_end - 1 : s.prefix[i] = "?"}, s.line_end)
    IN [s EXCEPT !.path_n = Least(e - 2, FieldLen - 1)]

(* The first line break followed by Host: or by the end of the headers. *)
http_step_hostfind(s) ==
    LET from == Least(s.line_end, s.data_len) + 1
        p == First({i \in from .. s.data_len - 1 :
                      s.prefix[i] = "CRLF" /\ s.prefix[i + 1] \in {"CRLF", "H"}}, 0)
    IN IF p > 0 /\ s.prefix[p + 1] = "H"
       THEN [s EXCEPT !.host_val = p + 2, !.have_host = TRUE]
       ELSE s

(* A value without an end in the data, or too long, is no host. *)
http_step_hostlen(s) ==
    LET e == First({i \in s.host_val .. s.data_len : s.prefix[i] \in {"CRLF", "LF"}}, 0)
        n == e - s.host_val
    IN CASE ~s.have_host -> s
         [] s.have_host /\ (e = 0 \/ n >= FieldLen) -> [s EXCEPT !.have_host = FALSE]
         [] s.have_host /\ e > 0 /\ n < FieldLen -> [s EXCEPT !.host_n = n]

http_copy_field(s, src, n) == SubSeq(s.prefix, src, src + n - 1)

HttpSample(tap, event, method, path, host) ==
    [kind |-> "http", tap |-> tap, of |-> event, method |-> copy(zeroed, method),
     path |-> copy(zeroed, path), host |-> copy(zeroed, host)]

http_step_emit(s, event) ==
    submit(HttpSample("http1", event, http_copy_field(s, 1, 1), http_copy_field(s, 2, s.path_n),
                      IF s.have_host THEN http_copy_field(s, s.host_val, s.host_n) ELSE <<>>))

(* The tail-called half of both HTTP/1 taps. *)
handle_http1_parse(s, event) ==
    LET parsed == http_step_hostlen(http_step_hostfind(http_step_path(s)))
    IN http_scratch' = parsed /\ http_step_emit(parsed, event)

LooksLikeHttp(text) == Len(text) >= MinRequestLine /\ http_method_len(text) > 0

(* A capture that faults clears what it was to fill, and sets up nothing. *)
captureFaults(s, text) ==
    [s EXCEPT !.prefix = copy(@, [i \in 1 .. Least(Len(text), PrefixLen) |-> "NUL"])]

(* The pre-check reads eight bytes, the capture reads the buffer again:    *)
(* another thread may have written to it, or unmapped it, in between.      *)
handle_http1(text) ==
    \/ ~LooksLikeHttp(text) /\ skip /\ UNCHANGED http_scratch
    \/ LooksLikeHttp(text) /\ skip /\ http_scratch' = captureFaults(http_scratch, text)
    \/ /\ LooksLikeHttp(text)
       /\ \E again \in {text, [i \in DOMAIN text |-> "x"]} :
            LET s == http_capture_user_buffer(http_scratch, again)
            IN \/ /\ ~http_step_reqline_ok(s)
                  /\ http_scratch' = s /\ skip
               \/ /\ http_step_reqline_ok(s)
                  /\ handle_http1_parse(http_step_reqline(s), again)

handle_tcp_sendmsg_http == \E msg \in Messages : handle_http1(http_first_segment(msg))

handle_ssl_write == \E text \in Buffers : handle_http1(text)

(* The length of a selected value, or -1 when it may not be exposed. *)
http_user_field_length(value, field_len, strip_query) ==
    LET n == First({i \in DOMAIN value : strip_query /\ value[i] = "?"}, Len(value) + 1) - 1
    IN IF n \in 1 .. field_len - 1 /\ \A i \in 1 .. n : value[i] \notin {"CTL", "fault"} THEN n ELSE -1

(* A page of the value may be gone when it is read again for the record. *)
http_copy_user_value(value, n) == SubSeq(value, 1, n)

(* The leading pseudo-headers, of which the first of a name counts. *)
nghttp2_pseudo_headers(nva) ==
    SubSeq(nva, 1, Least(MaxHeaders, First({i \in DOMAIN nva : nva[i].name = "ordinary"}, Len(nva) + 1) - 1))

nghttp2_pseudo_header(nva, name) ==
    LET named == {i \in DOMAIN nva : nva[i].name = name}
    IN IF named = {} THEN <<>> ELSE nva[Min(named)].value

(* The scan stops when it has all three names, or at memory it cannot read. *)
nghttp2_unreadable(lead) ==
    \E i \in DOMAIN lead :
      /\ lead[i].name = "fault"
      /\ ~({":method", ":path", ":authority"} \subseteq {lead[j].name : j \in 1 .. i - 1})

handle_nghttp2_emit(nva, method, path, authority) ==
    LET n == http_user_field_length(authority, FieldLen, FALSE)
        host == IF n < 0 THEN <<>> ELSE http_copy_user_value(authority, n)
    IN submit(HttpSample("nghttp2", nva, method, path, host)) \/ discard

handle_nghttp2_required(nva, method, path, authority) ==
    LET m == http_user_field_length(method, MethodLen, FALSE)
        p == http_user_field_length(path, FieldLen, TRUE)
        valid == m > 0 /\ p > 0 /\ path[1] = "/"
    IN \/ ~valid /\ skip
       \/ /\ valid
          /\ handle_nghttp2_emit(nva, http_copy_user_value(method, m), http_copy_user_value(path, p), authority)

handle_nghttp2_submit_request ==
    /\ \E nva \in HeaderArrays :
         LET lead == nghttp2_pseudo_headers(nva)
         IN \/ nghttp2_unreadable(lead) /\ skip
            \/ /\ ~nghttp2_unreadable(lead)
               /\ handle_nghttp2_required(nva, nghttp2_pseudo_header(lead, ":method"),
                    nghttp2_pseudo_header(lead, ":path"), nghttp2_pseudo_header(lead, ":authority"))
    /\ UNCHANGED http_scratch

handle_go_net_http_emit(req, method, path) ==
    LET host == IF req.host = <<>> THEN req.urlHost ELSE req.host
        n == http_user_field_length(host, FieldLen, FALSE)
    IN submit(HttpSample("go", req, method, path, IF n < 0 THEN <<>> ELSE http_copy_user_value(host, n))) \/ discard

(* Empty values are net/http's defaults; Path holds no query. *)
handle_go_net_http_required(req) ==
    LET method == IF req.method = <<>> THEN <<"M">> ELSE req.method
        path == IF req.path = <<>> THEN <<"/">> ELSE req.path
        valid == /\ http_user_field_length(method, MethodLen, FALSE) > 0
                 /\ http_user_field_length(path, FieldLen, FALSE) > 0
                 /\ path[1] = "/"
    IN \/ ~valid /\ skip
       \/ valid /\ handle_go_net_http_emit(req, method, path)

handle_go_net_http_round_trip ==
    /\ \E req \in Requests :
         \/ ~req.https /\ skip
         \/ req.https /\ handle_go_net_http_required(req)
    /\ UNCHANGED http_scratch

HttpNext ==
    \/ handle_tcp_sendmsg_http \/ handle_ssl_write
    \/ handle_nghttp2_submit_request \/ handle_go_net_http_round_trip

(***************************************************************************)
(* Properties                                                              *)
(***************************************************************************)

Until(text, from, stops) ==
    SubSeq(text, from, First({i \in from .. Len(text) : text[i] \in stops}, Len(text) + 1) - 1)

(* The value of the first Host: header in the part that was captured, if   *)
(* it is in the header section and its line ends in the captured part.     *)
CompleteHost(text) ==
    LET h == First({i \in 2 .. Len(text) : text[i - 1] = "CRLF" /\ text[i] = "H"}, Len(text) + 1)
        complete == /\ ~\E i \in 1 .. h - 2 : text[i] = "CRLF" /\ text[i + 1] = "CRLF"
                    /\ \E i \in h + 1 .. Len(text) : text[i] \in {"CRLF", "LF"}
    IN IF complete THEN Until(text, h + 1, {"CRLF", "LF"}) ELSE <<>>

(* A value that is exposed whole or not at all. *)
WholeOrEmpty(value) ==
    IF Len(value) < FieldLen /\ \A i \in DOMAIN value : value[i] \notin {"CTL", "fault"} THEN value ELSE <<>>

FirstValue(nva, name) ==
    LET i == First({j \in DOMAIN nva : nva[j].name = name /\ \A k \in 1 .. j : nva[k].name # "ordinary"}, 0)
    IN IF i \in 1 .. MaxHeaders THEN nva[i].value ELSE <<>>

defaulted(value, default) == IF value = <<>> THEN default ELSE value

(* The fields of the sample of a request, from the request alone. *)
ExpectedFields(tap, of) ==
    LET text == SubSeq(of, 1, Least(Len(of), PrefixLen))
    IN CASE tap = "http1" -> <<<<"M">>, Until(text, 2, {"?", "SP"}), CompleteHost(text)>>
         [] tap = "nghttp2" -> <<FirstValue(of, ":method"), Until(FirstValue(of, ":path"), 1, {"?"}),
                                 WholeOrEmpty(FirstValue(of, ":authority"))>>
         [] tap = "go" -> <<defaulted(of.method, <<"M">>), defaulted(of.path, <<"/">>),
                            WholeOrEmpty(defaulted(of.host, of.urlHost))>>

(* An HTTP sample is the parse of its own request: method, target before   *)
(* the query, and a host that is complete or empty, whatever the requests  *)
(* parsed before on this CPU left in the scratch map (the parse steps of   *)
(* http_helpers.bpf.h, the stages of the nghttp2 and Go taps).             *)
HttpSampleExact ==
    \A i \in DOMAIN ring : ring[i].kind = "http" =>
      <<ring[i].method, ring[i].path, ring[i].host>> = ExpectedFields(ring[i].tap, ring[i].of)
=============================================================================
