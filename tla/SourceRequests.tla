----------------------------- MODULE SourceRequests -----------------------------
(****************************************************************************)
(* Requests, items and files for checking SourceIngestion: two selections   *)
(* and two syncs are about one file of the account, "revise" uploads a      *)
(* revision of what they acquired, "upload" is a batch of two documents,    *)
(* "paste" one of a text and "url" one of an address.                       *)
(****************************************************************************)
EXTENDS Rows, Naturals

CONSTANT File   \* the file of the account

Requests ==
    {"select", "again", "sync1", "sync2", "revise", "upload", "paste", "url"}

KindOf ==
    [b \in Requests |->
        CASE b \in {"select", "again"} -> "selection"
          [] b \in {"sync1", "sync2"} -> "sync"
          [] b = "revise" -> "revise"
          [] b = "upload" -> "upload"
          [] b = "paste" -> "paste"
          [] b = "url" -> "url"]

RequestItems ==
    [b \in Requests |->
        CASE b = "select" -> <<1>>
          [] b = "sync1" -> <<2>>
          [] b = "sync2" -> <<3>>
          [] b = "revise" -> <<4>>
          [] b = "upload" -> <<5, 6>>
          [] b = "url" -> <<7>>
          [] b = "again" -> <<8>>
          [] b = "paste" -> <<9>>]

ItemFile == [i \in 1..9 |-> IF i \in {1, 2, 3, 8} THEN File ELSE None]

(* Documents of files and one upload are legible, the other upload is a     *)
(* scan or no document; a text may find the extraction unconfigured or give *)
(* a part of its candidates, and what an address answers may end in every   *)
(* way.                                                                     *)
ItemOutcomes ==
    [i \in 1..9 |->
        CASE i = 9 -> {"review_required", "partial", "no_provider"}
          [] i = 6 -> {"needs_ocr", "unsupported"}
          [] i = 7 -> {"review_required", "partial", "needs_ocr", "failed_retryable",
                       "failed_terminal", "unmarked"}
          [] OTHER -> {"review_required"}]

(* What happens together.  Files come from an account; before a sync of an  *)
(* acquired file the selection has been made, extracted, reviewed and       *)
(* compiled.                                                                *)
Uploads(makes) == [account |-> FALSE, acquired |-> FALSE, makes |-> makes]
OfAccount(makes, acquired) == [account |-> TRUE, acquired |-> acquired, makes |-> makes]

AllScenarios ==
    {Uploads({"url"}), Uploads({"upload"}), Uploads({"paste"}),
     OfAccount({"select", "again"}, FALSE),
     OfAccount({"sync1", "sync2"}, TRUE), OfAccount({"sync1", "revise"}, TRUE)}

SelectOnly == {OfAccount({"select"}, FALSE)}

SelectAndSync == {OfAccount({"select", "sync1"}, FALSE)}
=================================================================================
