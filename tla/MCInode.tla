-------------------------------- MODULE MCInode --------------------------------
(* The functions of fs.h that tasks race through on one inode: leases, the    *)
(* size and direct I/O, one in a behaviour.                                   *)
(*                                                                            *)
(* Two setters of leases next to a reader and a writer.  Two writers of a     *)
(* size of two words of one bit, three writes, and a reader.  Three           *)
(* submitters, so that one begins while another ends, and two who drain.      *)
EXTENDS LeaseBreak

CONSTANTS SizeReaders, SizeWriters, Base, MaxWrites,
          Submitters, Changers

VARIABLES
  part,
  seq, i_size, i_mutex, writer, reader, writes, current, valid,
  shared, alone, i_dio_count, dirty, queue, dio_pc
sizing == <<seq, i_size, i_mutex, writer, reader, writes, current, valid>>
submitting == <<shared, alone, i_dio_count, dirty, queue, dio_pc>>

ISize == INSTANCE InodeSize WITH Readers <- SizeReaders, Writers <- SizeWriters
Dio == INSTANCE DirectIo WITH pc <- dio_pc

ASSUME InodeAssumption ==
  ISize!InodeSizeAssumption /\ Dio!DirectIoAssumption

\* In its first state each of them waits for a call.
InodeInit ==
  /\ Init /\ ISize!Init /\ Dio!Init
  /\ part \in {"lease", "size", "dio"}
  /\ part # "lease" => \A h \in Setters : kind[h] = "read"

InodeNext ==
  /\ UNCHANGED part
  /\ \/ part = "lease" /\ Next /\ UNCHANGED <<sizing, submitting>>
     \/ part = "size" /\ ISize!Next /\ UNCHANGED <<vars, submitting>>
     \/ part = "dio" /\ Dio!Next /\ UNCHANGED <<vars, sizing>>

InodeSpec ==
  /\ InodeInit /\ [][InodeNext]_<<part, vars, sizing, submitting>>
  /\ ISize!Fairness /\ Dio!Fairness

SizeIsOne == ISize!SizeIsOne
DrainedIsQuiet == Dio!DrainedIsQuiet
ReadsEnd == ISize!ReadsEnd
DrainEnds == Dio!DrainEnds
=============================================================================
