---------------------------- MODULE SampleHooks ----------------------------
(***************************************************************************)
(* The hooks that put text of bounded length into a sample: file opens and *)
(* changes, mounts, unix sockets, exec and DNS, with the dentry walk they  *)
(* share; and the connect hooks, which only filter (bpf/path_helpers,      *)
(* file_hooks, mount_hooks, network_hooks, process_hooks, dns_helpers and  *)
(* dns_hooks).  A program clears the per-CPU path scratch before it writes *)
(* to it, so the scratch carries nothing from one program to the next.     *)
(*                                                                         *)
(* A dentry is the sequence of names from the root, of which one may be    *)
(* unreadable; "n" is a short name and "w" a wide one.  A part of a sample *)
(* is the memory of a field, whether the sample flags it as incomplete,    *)
(* and, for the properties, what the field stands for.                     *)
(***************************************************************************)
EXTENDS SampleRing

CONSTANTS WalkDepth,    \* DENTRY_WALK_DEPTH
          PathLen,      \* FILE_PATH_LEN
          ExecPathLen,  \* EXEC_PATH_LEN
          SunPathLen,   \* UNIX_SOCKET_SUN_PATH_LEN
          ArgvLen,      \* ARGV_BLOB_LEN
          PayloadLen,   \* DNS_PAYLOAD_LEN
          PerIov,       \* DNS_PER_IOV_MAX
          MaxIov,       \* DNS_MAX_IOVEC_ENTRIES
          Dentries, Strings, Addresses, Argvs, Sends

ASSUME HooksAssumption ==
    /\ {WalkDepth, PathLen, ExecPathLen, SunPathLen, ArgvLen, PerIov, MaxIov} \subseteq Nat \ {0}
    /\ PayloadLen \in Nat /\ PayloadLen >= 2 * PerIov

(* What the hooks are given: the names of a dentry, strings in kernel or   *)
(* user memory, and the segments of a send, of which a ubuf has only one.  *)
ASSUME HookInputs ==
    /\ Dentries \subseteq [names : Text, broken : Int]
    /\ Strings \cup Addresses \cup Argvs \subseteq Text
    /\ \A msg \in Sends :
         /\ msg.segs \in Seq([data : Text, ok : BOOLEAN, described : BOOLEAN])
         /\ msg.iter = "ubuf" => Len(msg.segs) = 1

NoDentry == [names |-> <<>>, broken |-> -1]
Unreadable == <<"fault">>

Part(memory, flagged, real) == [memory |-> memory, flagged |-> flagged, real |-> real]
Sample(kind, parts) == [kind |-> kind, parts |-> parts]

Width(names) == Len(names) + Cardinality({i \in DOMAIN names : names[i] = "w"})
lastNames(names, n) == SubSeq(names, Len(names) - n + 1, Len(names))

(* The names the walk prepends before its depth, the buffer or a read that *)
(* fails ends it.                                                          *)
walked(d) ==
    LET n == Len(d.names)
    IN Max({m \in 0 .. Least(n, WalkDepth) :
              Width(lastNames(d.names, m)) < PathLen /\ ~(d.broken \in n - m + 1 .. n)})

\* Mutant: a walk that ends at its depth counts as complete.
resolve_at_any_depth(d) ==
    [path |-> lastNames(d.names, walked(d)), truncated |-> walked(d) < Least(Len(d.names), WalkDepth)]

(* The root is found by the step after the last name. *)
resolve_dentry_fallback_path_to_scratch(d) ==
    [path |-> lastNames(d.names, walked(d)),
     truncated |-> ~(walked(d) = Len(d.names) /\ Len(d.names) < WalkDepth)]

copy_dentry_fallback_path_to_sample(d) ==
    IF d = NoDentry
    THEN Part(copy(reserved, <<"NUL">>), TRUE, d.names)
    ELSE LET r == resolve_dentry_fallback_path_to_scratch(d) IN Part(r.path, r.truncated, d.names)

(* bpf_d_path has no depth limit, and refuses what does not fit. *)
copy_bpf_d_path_to_scratch(d) ==
    [ok |-> d # NoDentry /\ d.broken = 0 /\ Width(d.names) < PathLen, path |-> d.names]

handle_security_file_open ==
    \E d \in Dentries :
      LET r == copy_bpf_d_path_to_scratch(d)
      IN submit(Sample("file_open", <<IF r.ok THEN Part(r.path, FALSE, d.names)
                                             ELSE Part(zeroed, TRUE, d.names)>>))

(* unlink and rmdir *)
submit_file_remove ==
    \E d \in Dentries \ {NoDentry} :
      submit(Sample("file_remove", <<copy_dentry_fallback_path_to_sample(d)>>))

handle_security_inode_rename ==
    \E old, new \in Dentries \ {NoDentry} :
      submit(Sample("file_move", <<copy_dentry_fallback_path_to_sample(old),
                                   copy_dentry_fallback_path_to_sample(new)>>))

handle_security_inode_link ==
    \E old, new \in Dentries \ {NoDentry} :
      submit(Sample("file_link", <<copy_dentry_fallback_path_to_sample(new),
                                   copy_dentry_fallback_path_to_sample(old)>>))

(* bpf_probe_read_kernel_str: the length counts the final NUL. *)
read_kernel_str(text, size) ==
    IF text = Unreadable
    THEN [n |-> -1, text |-> <<>>]
    ELSE [n |-> Least(Len(text) + 1, size), text |-> SubSeq(text, 1, Least(Len(text), size - 1))]

handle_security_inode_symlink ==
    \E d \in Dentries \ {NoDentry}, old_name \in Strings :
      LET r == read_kernel_str(old_name, PathLen)
      IN submit(Sample("symlink", <<copy_dentry_fallback_path_to_sample(d),
                                    Part(copy(zeroed, r.text), r.n <= 0, old_name)>>))

copy_raw_mount_string_to_sample(src) ==
    LET r == read_kernel_str(src, PathLen)
    IN Part(copy(zeroed, r.text), r.n <= 0 \/ r.n = PathLen, src)

(* Only bind and move mounts, in the order path_mount tells them apart. *)
handle_security_sb_mount ==
    \E flags \in SUBSET {"remount", "bind", "move", "propagation"} :
      LET observed == /\ "remount" \notin flags
                      /\ "propagation" \in flags => "bind" \in flags
                      /\ flags \cap {"bind", "move"} # {}
      IN \/ ~observed /\ skip
         \/ /\ observed
            /\ \E dev_name \in Strings, d \in Dentries :
                 submit(Sample("mount", <<copy_raw_mount_string_to_sample(dev_name),
                                            copy_dentry_fallback_path_to_sample(d)>>))

handle_security_move_mount ==
    \E from, to \in Dentries :
      submit(Sample("mount", <<copy_dentry_fallback_path_to_sample(from),
                               copy_dentry_fallback_path_to_sample(to)>>))

copy_current_cwd_fallback_path_to_sample(cwd) ==
    IF cwd = NoDentry THEN Part(zeroed, TRUE, cwd.names) ELSE copy_dentry_fallback_path_to_sample(cwd)

(* An address is the sun_path the caller claims; cwd only for relative ones. *)
submit_unix_socket_connect ==
    \E a \in Addresses, cwd \in Dentries :
      LET sun_path == Part(copy(zeroed, SubSeq(a, 1, Least(Len(a), SunPathLen))), Len(a) > SunPathLen, a)
          readable == a # <<>> /\ "fault" \notin Range(sun_path.memory)
      IN \/ a = <<>> /\ skip
         \/ a # <<>> /\ ~readable /\ discard
         \/ /\ readable /\ a[1] \in {"NUL", "/"}
            /\ submit(Sample("unix", <<sun_path>>))
         \/ /\ readable /\ a[1] \notin {"NUL", "/"}
            /\ submit(Sample("unix", <<sun_path, copy_current_cwd_fallback_path_to_sample(cwd)>>))

(* The argument area, cut at the size of the blob; empty if it faults. *)
fill_exec_argv(argv) ==
    LET blob == SubSeq(argv, 1, Least(Len(argv), ArgvLen))
        faulted == "fault" \in Range(blob)
    IN Part(copy(zeroed, IF faulted THEN <<>> ELSE blob), faulted \/ Len(argv) > ArgvLen, argv)

(* The name of the program is cut without a flag. *)
handle_sched_process_exec ==
    \E argv \in Argvs, filename \in Strings :
      LET r == read_kernel_str(filename, ExecPathLen)
      IN submit(Sample("exec", <<fill_exec_argv(argv), Part(copy(zeroed, r.text), FALSE, filename)>>))

(* Threads are forks too: only new processes are reported. *)
handle_sched_process_fork ==
    \E leader \in BOOLEAN :
      \/ ~leader /\ skip
      \/ leader /\ submit(Sample("fork", <<>>))

(* connect4 and connect6 report tcp and udp endpoints with a port. *)
handle_cgroup_connect ==
    \E protocol \in {"tcp", "udp", "icmp"}, port \in 0 .. 1 :
      \/ (protocol = "icmp" \/ port = 0) /\ skip
      \/ protocol # "icmp" /\ port # 0 /\ submit(Sample("connect", <<>>))

(* One user buffer: its logical length, cut at the payload. *)
fill_dns_payload_from_ubuf(seg) ==
    IF seg.data = <<>> \/ ~seg.ok THEN <<>> ELSE SubSeq(seg.data, 1, Least(Len(seg.data), PayloadLen))

(* A read of PerIov units at the base of a segment, past its end if short. *)
literalRead(seg) ==
    [i \in 1 .. PerIov |-> IF i <= Len(seg.data) THEN seg.data[i] ELSE "over"]

\* Mutant: a segment counts for as much as was read.
creditRead(seg) == PerIov

credit(seg) == Least(Len(seg.data), PerIov)

(* The loop body: a segment ends the loop, is skipped, or is appended. *)
appendSegment(st, seg) ==
    LET stop == \/ st.done \/ ~seg.described \/ st.written >= PayloadLen
                \/ seg.data # <<>> /\ st.written > PayloadLen - PerIov
        nothing == seg.data = <<>> \/ ~seg.ok
        before == SubSeq(st.payload, 1, st.written)
        behind == SubSeq(st.payload, st.written + 1, Len(st.payload))
    IN CASE stop -> [st EXCEPT !.done = TRUE]
         [] ~stop /\ nothing -> st
         [] ~stop /\ ~nothing -> [st EXCEPT !.payload = before \o copy(behind, literalRead(seg)),
                                           !.written = @ + credit(seg)]

(* The state of the loop after each of the segments it looks at. *)
iterations(segs) ==
    LET st[k \in 0 .. Least(Len(segs), MaxIov)] ==
          IF k = 0
          THEN [payload |-> [i \in 1 .. PayloadLen |-> "old"], written |-> 0, done |-> FALSE]
          ELSE appendSegment(st[k - 1], segs[k])
    IN st

fill_dns_payload_from_iov_array(segs) ==
    LET last == iterations(segs)[Least(Len(segs), MaxIov)]
    IN SubSeq(last.payload, 1, last.written)

(* The payload userspace reads: payload_len units of it. *)
fill_dns_payload(msg) ==
    IF msg.iter = "ubuf" THEN fill_dns_payload_from_ubuf(msg.segs[1]) ELSE fill_dns_payload_from_iov_array(msg.segs)

(* msg_name of another family gives port 0, its absence the socket's port. *)
dns_msg_dport(msg) == IF msg.name = "none" THEN msg.sockPort ELSE IF msg.name = "other" THEN 0 ELSE msg.namePort

(* An iterator over kernel memory is no send of a process. *)
submit_dns_query(msg) ==
    \/ msg.iter = "kernel" /\ discard
    \/ msg.iter # "kernel" /\ submit([kind |-> "dns", of |-> msg, payload |-> fill_dns_payload(msg)])

(* udp, udpv6 and tcp sends to port 53, unix sends to systemd-resolved. *)
handle_sendmsg ==
    \E msg \in Sends :
      \/ ~msg.resolved /\ dns_msg_dport(msg) # 53 /\ skip
      \/ (msg.resolved \/ dns_msg_dport(msg) = 53) /\ submit_dns_query(msg)

HooksNext ==
    \/ handle_security_file_open \/ submit_file_remove
    \/ handle_security_inode_rename \/ handle_security_inode_link \/ handle_security_inode_symlink
    \/ handle_security_sb_mount \/ handle_security_move_mount
    \/ submit_unix_socket_connect \/ handle_cgroup_connect
    \/ handle_sched_process_exec \/ handle_sched_process_fork \/ handle_sendmsg

(***************************************************************************)
(* Properties                                                              *)
(***************************************************************************)

CompletePart(part) == part.flagged \/ part.memory = part.real

(* What a field shows is all there is of it, or the sample flags it as     *)
(* incomplete: paths that are too long, too deep or unreadable, socket     *)
(* paths, working directories, mount sources and argument vectors.  The    *)
(* target of a symbolic link and the name of an executed program are the   *)
(* exceptions: they are cut without a flag.                                *)
CompleteOrFlagged ==
    \A i \in DOMAIN ring : ring[i].kind \notin {"http", "dns"} =>
      \A j \in DOMAIN ring[i].parts :
        CompletePart(ring[i].parts[j]) \/ (ring[i].kind \in {"symlink", "exec"} /\ j = 2)

(* The bytes of the first segments of a message, and those of all of them. *)
LogicalUpTo(segs) ==
    LET text[k \in 0 .. Len(segs)] == IF k = 0 THEN <<>> ELSE text[k - 1] \o segs[k].data
    IN text

Logical(segs) == LogicalUpTo(segs)[Len(segs)]

(* s is t without some of its elements. *)
IsSubsequence(s, t) ==
    \E at \in [DOMAIN s -> DOMAIN t] :
      /\ \A m \in DOMAIN s : s[m] = t[at[m]]
      /\ \A m, n \in DOMAIN s : m < n => at[m] < at[n]

FitsOneChunk(segs) ==
    /\ Len(Logical(segs)) <= PerIov /\ Len(segs) <= MaxIov
    /\ \A j \in DOMAIN segs : segs[j].ok /\ segs[j].described

LogicalPayload(payload, segs) ==
    /\ IsSubsequence(payload, Logical(segs))
    /\ FitsOneChunk(segs) => payload = Logical(segs)

(* A DNS payload holds nothing but logical bytes of the message, in order, *)
(* whatever the fixed-size reads brought along; and a message of at most   *)
(* one chunk in readable segments is captured whole.                       *)
DnsPayloadLogical ==
    \A i \in DOMAIN ring : ring[i].kind = "dns" => LogicalPayload(ring[i].payload, ring[i].of.segs)

(* What kernel_samples.h says of every captured path, and the code does    *)
(* not do for the target of a symbolic link.                               *)
SymlinkTargetFlagged ==
    \A i \in DOMAIN ring : ring[i].kind = "symlink" =>
      ring[i].parts[2].flagged \/ ring[i].parts[2].memory = ring[i].parts[2].real
=============================================================================
