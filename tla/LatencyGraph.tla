----------------------------- MODULE LatencyGraph -----------------------------
(***************************************************************************)
(* What latencystat draws of a histogram: print_graph_formatted sorts the  *)
(* ticks into rows of equal time, and print_graph draws each row as a bar  *)
(* of block characters, in eighths of a block.                             *)
(***************************************************************************)
EXTENDS Naturals, Sequences, SequencesExt, FiniteSetsExt

CONSTANTS
  NSEC, CLK_FREQ,    \* x ticks last x * NSEC / CLK_FREQ ns
  bucket_value,      \* ns of a row
  buckets,           \* rows
  value_max,         \* samples at the end of the horizontal axis
  value_increment    \* samples between two of its labels, drawn as 10 blocks

ASSUME GraphAssumption ==
  /\ NSEC \in Nat /\ CLK_FREQ \in Nat \ {0}
  /\ bucket_value \in Nat \ {0} /\ buckets \in Nat \ {0}
  /\ value_max \in Nat /\ value_increment \in Nat /\ value_increment >= 10

CLK_TIME_NSEC(x) == (x * NSEC) \div CLK_FREQ

\* The row of the i-th bucket, counted from 1.
RowOf(i) == CLK_TIME_NSEC(i) \div bucket_value + 1

\* Mutant: a row shows the last of its buckets.
Rows_Overwritten(data, size) ==
  FoldLeft(LAMBDA rows, i :
             IF data[i] # 0 /\ RowOf(i) <= buckets
             THEN [rows EXCEPT ![RowOf(i)] = data[i]] ELSE rows,
           [r \in 1 .. buckets |-> 0], [k \in 1 .. size |-> k - 1])

\* What is later than the last row is not drawn.
Rows(data, size) ==
  FoldLeft(LAMBDA rows, i :
             IF data[i] # 0 /\ RowOf(i) <= buckets
             THEN [rows EXCEPT ![RowOf(i)] = @ + data[i]] ELSE rows,
           [r \in 1 .. buckets |-> 0], [k \in 1 .. size |-> k - 1])

haxis_value == value_increment \div 10
haxis_count == (value_max + haxis_value - 1) \div haxis_value

\* The eighths of a block that stand for a percentage.
print_block(value) == IF value >= 80 THEN 8 ELSE value \div 10

\* A row's bar: a full block per haxis_value samples, and one for the rest, which
\* has a tenth of a block for each sample.
Bar(value) ==
  LET Block(k) == IF value >= k * haxis_value THEN 100
                                              ELSE (value - (k - 1) * haxis_value) * 10
  IN  [k \in 1 .. Min({haxis_count, value \div haxis_value + 1}) |-> print_block(Block(k))]

\* Its length on the terminal, in eighths of a block.
Length(bar) == FoldLeft(+, 0, bar)
===============================================================================
