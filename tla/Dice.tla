-------------------------------- MODULE Dice --------------------------------
(***************************************************************************)
(* Dice expressions (internal/core/dice/dice.go).  An expression is a      *)
(* sequence of tokens: "+", "-" and pieces.  A piece is what evaluate      *)
(* makes of the text between two signs: a constant, dice with their        *)
(* selection, or something it refuses.  The source is the sequence of      *)
(* faces it will roll.                                                     *)
(***************************************************************************)
EXTENDS Integers, Sequences, FiniteSets

CONSTANTS
    MaxDice,    \* MaxDice: dice per expression
    MaxFaces    \* MaxFaces

ASSUME DiceAssumption == MaxDice \in Nat /\ MaxFaces \in Nat

Sign == {"+", "-"}
Constant(n) == [kind |-> "constant", value |-> n]
DicePiece(count, faces, mode, amount) ==
    [kind |-> "dice", count |-> count, faces |-> faces, mode |-> mode, amount |-> amount]
Malformed == [kind |-> "malformed"]
-----------------------------------------------------------------------------
(* applySelection: the indexes of the dice, moved into order by insertion. *)
Precedes(mode, left, right) == IF mode \in {"kh", "dh"} THEN right > left ELSE right < left

Swap(order, j) == [order EXCEPT ![j] = order[j - 1], ![j - 1] = order[j]]

(* The inner loop: the die at i moves down while it precedes the one       *)
(* before.  State n is the one after n rounds, and stays once it stopped.  *)
Sift(dice, mode, order, i) ==
    LET after[n \in 0..i] ==
            IF n = 0 THEN [order |-> order, j |-> i]
            ELSE LET s == after[n - 1]
                 IN IF s.j > 1 /\ Precedes(mode, dice[s.order[s.j - 1]], dice[s.order[s.j]])
                    THEN [order |-> Swap(s.order, s.j), j |-> s.j - 1]
                    ELSE s
    IN after[i].order

(* The outer loop: the first i indexes are in order.                       *)
InsertionSort(dice, mode) ==
    LET sorted[i \in 0..Len(dice)] ==
            IF i = 0 THEN [k \in 1..Len(dice) |-> k]
            ELSE Sift(dice, mode, sorted[i - 1], i)
    IN sorted[Len(dice)]

(* The indexes of the dice that are kept.                                  *)
applySelection(dice, mode, amount) ==
    LET order == InsertionSort(dice, mode)
    IN {order[p] : p \in {p \in 1..Len(dice) :
            IF mode \in {"kh", "kl"} THEN p <= amount ELSE p > amount}}
-----------------------------------------------------------------------------
(* The sum of the values up to n whose indexes are chosen.                 *)
SumOver(values, indexes, n) ==
    LET upTo[k \in Nat] ==
            IF k = 0 THEN 0
            ELSE upTo[k - 1] + IF k \in indexes THEN values[k] ELSE 0
    IN upTo[n]

Refused == [ok |-> FALSE]

(* evaluate: the subtotal of a piece, and what it leaves of the budget and *)
(* of the source.                                                          *)
evaluate(piece, budget, source) ==
    CASE piece.kind = "malformed" -> Refused
      [] piece.kind = "constant" ->
            [ok |-> TRUE, subtotal |-> piece.value, budget |-> budget, source |-> source]
      [] piece.kind = "dice" ->
            IF piece.faces \notin 2..MaxFaces \/ piece.count < 1 \/ piece.count > budget
            THEN Refused
            ELSE LET dice == SubSeq(source, 1, piece.count)
                     kept == IF piece.mode = "" THEN 1..piece.count
                             ELSE applySelection(dice, piece.mode, piece.amount)
                 IN [ok |-> TRUE, subtotal |-> SumOver(dice, kept, piece.count),
                     budget |-> budget - piece.count,
                     source |-> SubSeq(source, piece.count + 1, Len(source))]

(* Roll's loop.  state.buffer holds the piece read since the last sign.    *)
Flush(state) ==
    IF state.buffer = <<>> THEN Refused
    ELSE LET term == evaluate(state.buffer[1], state.budget, state.source)
         IN IF ~term.ok THEN Refused
            ELSE [ok |-> TRUE, total |-> state.total + state.sign * term.subtotal,
                  sign |-> state.sign, buffer |-> <<>>,
                  budget |-> term.budget, source |-> term.source]

SignOf(token) == IF token = "-" THEN -1 ELSE 1

(* Wrong: after a minus, a plus does not lead back.                        *)
ScanSticky(state, token, index) ==
    IF token.kind # "sign" THEN [state EXCEPT !.buffer = <<token>>]
    ELSE IF index = 1 THEN [state EXCEPT !.sign = SignOf(token.sign)]
    ELSE LET flushed == Flush(state)
         IN IF flushed.ok THEN [flushed EXCEPT !.sign = @ * SignOf(token.sign)] ELSE Refused

Scan(state, token, index) ==
    IF token.kind # "sign" THEN [state EXCEPT !.buffer = <<token>>]
    ELSE IF index = 1 THEN [state EXCEPT !.sign = SignOf(token.sign)]
    ELSE LET flushed == Flush(state)
         IN IF flushed.ok THEN [flushed EXCEPT !.sign = SignOf(token.sign)] ELSE Refused

(* The state after the first n tokens, or the error that ended the loop.   *)
ScanUpTo(tokens, source, n) ==
    LET after[i \in 0..n] ==
            IF i = 0 THEN [ok |-> TRUE, total |-> 0, sign |-> 1, buffer |-> <<>>,
                           budget |-> MaxDice, source |-> source]
            ELSE LET state == after[i - 1]
                 IN IF state.ok THEN Scan(state, tokens[i], i) ELSE state
    IN after[n]

(* Roll: the total, or an error.                                           *)
Roll(tokens, source) ==
    LET scanned == ScanUpTo(tokens, source, Len(tokens))
        last == IF scanned.ok THEN Flush(scanned) ELSE Refused
    IN IF tokens # <<>> /\ last.ok THEN [ok |-> TRUE, total |-> last.total] ELSE Refused
=============================================================================
