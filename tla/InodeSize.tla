------------------------------- MODULE InodeSize -------------------------------
(****************************************************************************)
(* include/linux/fs.h: i_size_read() and i_size_write() where a long has 32 *)
(* bits and there are several CPUs.  The size of a file is two words then,  *)
(* and i_size_seqcount, odd while they are written, tells a reader, who     *)
(* takes no lock, to read them again.                                       *)
(*                                                                          *)
(* seqcount_t is linux/seqlock.h, modelled as these functions use it: its   *)
(* barriers keep its accesses and those of the size apart, and incrementing *)
(* it is a load and a store.                                                *)
(****************************************************************************)
EXTENDS Integers

CONSTANTS Readers, Writers,
          Base,       \* a word holds the numbers below it
          MaxWrites,  \* bound: writes until the model stops
          Nobody

InodeSizeAssumption ==
  Base \in Nat \ {0} /\ MaxWrites \in Nat /\ Nobody \notin Writers

VARIABLES seq,      \* i_size_seqcount
          i_size,   \* the two words, "high" and "low"
          i_mutex,  \* the writer that holds the lock, or Nobody
          writer,   \* per writer: where it is, the size it writes, the count
                    \* it loaded and the words it has stored
          reader,   \* per reader: where it is, the count it loaded, the words
                    \* it has loaded and, last, the size it returned
          writes,   \* how many there have been
          current,  \* the size last written in full
          valid     \* per reader: the sizes the file has had since it was called
vars == <<seq, i_size, i_mutex, writer, reader, writes, current, valid>>

Words == {"high", "low"}
Sizes == 0 .. Base * Base - 1
Word(n, w) == IF w = "high" THEN n \div Base ELSE n % Base
Size(loaded) == loaded["high"] * Base + loaded["low"]
None == [w \in {} |-> 0]
Add(loaded, w, n) == [v \in DOMAIN loaded \cup {w} |-> IF v = w THEN n ELSE loaded[v]]

Init ==
  /\ seq = 0 /\ i_size = [w \in Words |-> 0] /\ i_mutex = Nobody
  /\ writer = [p \in Writers |-> [at |-> "idle", size |-> 0, seq |-> 0, stored |-> {}]]
  /\ reader = [r \in Readers |-> [at |-> "idle", seq |-> 0, loaded |-> None, size |-> 0]]
  /\ writes = 0 /\ current = 0 /\ valid = [r \in Readers |-> {}]

reading == <<reader, valid>>
-----------------------------------------------------------------------------
\* The lock the note asks for around it (fs.h:870), and preempt_disable().
Lock(p) ==
  /\ writer[p].at = "idle" /\ i_mutex = Nobody /\ writes < MaxWrites
  /\ i_mutex' = p /\ writes' = writes + 1
  /\ \E n \in Sizes :
       writer' = [writer EXCEPT ![p] = [at |-> "load", size |-> n, seq |-> 0, stored |-> {}]]
  /\ UNCHANGED <<seq, i_size, current, reading>>

\* write_seqcount_begin() and write_seqcount_end() load the count and store the
\* next one.
LoadSeq(p) ==
  /\ writer[p].at \in {"load", "load_end"}
  /\ writer' = [writer EXCEPT ![p].seq = seq,
                              ![p].at = IF @ = "load" THEN "begin" ELSE "end"]
  /\ UNCHANGED <<seq, i_size, i_mutex, writes, current, reading>>

Begin(p) ==
  /\ writer[p].at = "begin"
  /\ seq' = writer[p].seq + 1
  /\ writer' = [writer EXCEPT ![p].at = "store"]
  /\ UNCHANGED <<i_size, i_mutex, writes, current, reading>>

\* inode->i_size = i_size, in two words; between them the file has no size.
StoreWord(p, w) ==
  /\ writer[p].at = "store" /\ w \notin writer[p].stored
  /\ i_size' = [i_size EXCEPT ![w] = Word(writer[p].size, w)]
  /\ LET stored == writer[p].stored \cup {w}
     IN  /\ writer' = [writer EXCEPT ![p].stored = stored,
                                     ![p].at = IF stored = Words THEN "load_end" ELSE @]
         /\ IF stored = Words
            THEN /\ current' = writer[p].size
                 /\ valid' = [r \in Readers |-> valid[r] \cup {writer[p].size}]
            ELSE UNCHANGED <<current, valid>>
  /\ UNCHANGED <<seq, i_mutex, writes, reader>>

End(p) ==
  /\ writer[p].at = "end"
  /\ seq' = writer[p].seq + 1 /\ i_mutex' = Nobody
  /\ writer' = [writer EXCEPT ![p].at = "idle"]
  /\ UNCHANGED <<i_size, writes, current, reading>>

i_size_write(p) ==
  LoadSeq(p) \/ Begin(p) \/ (\E w \in Words : StoreWord(p, w)) \/ End(p)
-----------------------------------------------------------------------------
Call(r) ==
  /\ reader[r].at \in {"idle", "done"}
  /\ reader' = [reader EXCEPT ![r].at = "begin", ![r].size = 0]
  /\ valid' = [valid EXCEPT ![r] = {current}]
  /\ UNCHANGED <<seq, i_size, i_mutex, writer, writes, current>>

\* read_seqcount_begin() spins while the count is odd.
ReadBegin(r) ==
  /\ reader[r].at = "begin" /\ seq % 2 = 0
  /\ reader' = [reader EXCEPT ![r].at = "load", ![r].seq = seq, ![r].loaded = None]
  /\ UNCHANGED <<seq, i_size, i_mutex, writer, writes, current, valid>>

LoadWord(r, w) ==
  /\ reader[r].at = "load" /\ w \notin DOMAIN reader[r].loaded
  /\ reader' = [reader EXCEPT ![r].loaded = Add(@, w, i_size[w])]
  /\ UNCHANGED <<seq, i_size, i_mutex, writer, writes, current, valid>>

\* The size read, without a look at the count.
RetryNot(r) ==
  /\ reader[r].at = "load" /\ DOMAIN reader[r].loaded = Words
  /\ reader' = [reader EXCEPT ![r].at = "done", ![r].size = Size(reader[r].loaded)]
  /\ UNCHANGED <<seq, i_size, i_mutex, writer, writes, current, valid>>

\* Reads the words again, but not the count.
RetryHalf(r) ==
  /\ reader[r].at = "load" /\ DOMAIN reader[r].loaded = Words
  /\ reader' = IF seq = reader[r].seq
                THEN [reader EXCEPT ![r].at = "done", ![r].size = Size(reader[r].loaded)]
                ELSE [reader EXCEPT ![r].loaded = None]
  /\ UNCHANGED <<seq, i_size, i_mutex, writer, writes, current, valid>>

\* read_seqcount_retry(): the size, if the count is still the one seen.
Retry(r) ==
  /\ reader[r].at = "load" /\ DOMAIN reader[r].loaded = Words
  /\ reader' = IF seq = reader[r].seq
                THEN [reader EXCEPT ![r].at = "done", ![r].size = Size(reader[r].loaded)]
                ELSE [reader EXCEPT ![r].at = "begin"]
  /\ UNCHANGED <<seq, i_size, i_mutex, writer, writes, current, valid>>

i_size_read(r) == ReadBegin(r) \/ (\E w \in Words : LoadWord(r, w)) \/ Retry(r)
-----------------------------------------------------------------------------
Next ==
  \/ \E p \in Writers : Lock(p) \/ i_size_write(p)
  \/ \E r \in Readers : Call(r) \/ i_size_read(r)

\* A write that has begun is not preempted, and readers go on.
Fairness ==
  /\ \A p \in Writers : WF_vars(i_size_write(p))
  /\ \A r \in Readers : WF_vars(i_size_read(r))
Spec == Init /\ [][Next]_vars /\ Fairness
-----------------------------------------------------------------------------
(* The size i_size_read() returns is one the file has had, as a whole,      *)
(* between the call and the return: never words of two sizes, never one     *)
(* that was replaced before the call.                                       *)
SizeIsOne == \A r \in Readers : reader[r].at = "done" => reader[r].size \in valid[r]

(* Reads end, for an update of i_size_seqcount is never lost (fs.h:870).    *)
ReadsEnd == \A r \in Readers : (reader[r].at = "begin") ~> (reader[r].at = "done")
=============================================================================
