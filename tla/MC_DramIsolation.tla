-------------------------- MODULE MC_DramIsolation --------------------------
(* Instance of DramIsolation for TLC. *)
EXTENDS DramIsolation

A(p, r, b, row) == [pid |-> p, rank |-> r, bank |-> b, row |-> row]

\* Process 0 uses two banks of rank 0 and one of rank 1, so that reads and writes
\* follow each other in a bank, in a rank and across ranks; process 1 writes to
\* another row of one of these banks.
MCAddr == {A(0, 0, 0, 1), A(0, 0, 1, 1), A(0, 1, 0, 1), A(1, 0, 0, 2)}
MCTransactions ==
    [type : {"READ_P", "WRITE_P"}, addr : {A(0, 0, 0, 1), A(0, 1, 0, 1)}]
      \union {Packet("READ_P", A(0, 0, 1, 1)), Packet("WRITE_P", A(1, 0, 0, 2))}
=============================================================================
