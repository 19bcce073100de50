------------------------------ MODULE MCTerminalDay ------------------------------
(* Values of the constants of TerminalDay for the model checker.           *)
EXTENDS TerminalDay, TLC

CONSTANTS w1, w2, b1, k1, k2, i1, i2, p1, s1, s2

(* No batch yet, or one of a release where accepting and sending were      *)
(* separate clicks.                                                        *)
AnyRelease == {<<>>, b1 :> "SUBMITTED", b1 :> "ACCEPTED"}

WorkerSymmetry == Permutations(Workers)

Stay(page, scanner, labels, tries, lost, leaves, views) ==
    [task |-> page, scanner |-> scanner, labels |-> labels,
     bounds |-> [tries |-> tries, lost |-> lost, leaves |-> leaves, views |-> views]]

(* Every page from the keyboard; then the scanner, over a page with two    *)
(* scans, over one with a button, and in a lane of the receiving home.     *)
DaysHere ==
    {Stay(page, "none", Items \cup Places, 3, 1, 1, 0) :
        page \in {"sorting", "orders", "putaway", "storage", "packing", "shipping", "receiving"}} \cup
    {Stay("storage", "none", {i1, p1}, 4, 1, 1, 0),
     Stay("sorting", "tesseract", {i1, p1}, 2, 0, 0, 1),
     Stay("sorting", "tesseract", {i1}, 1, 0, 1, 1),
     Stay("packing", "tesseract", {i1}, 1, 0, 0, 2),
     Stay("packing", "tesseract", {i1}, 1, 0, 1, 1),
     Stay("receiving", "ppocr", {i1}, 2, 0, 0, 1)}
=============================================================================
