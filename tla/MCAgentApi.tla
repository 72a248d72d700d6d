----------------------------- MODULE MCAgentApi -----------------------------
(* Small instances of AgentApi for TLC. *)
EXTENDS AgentApi, TLC

CONSTANTS w1, w2, i1, i2, i3, draft, schedule, folder_upload

KindOfBody == (draft :> "draft") @@ (schedule :> "schedule") @@ (folder_upload :> "upload_to_folder")

Interchangeable == Permutations(Workers) \union Permutations(Items)

\* What is beside the quota: keys, uploads, the death of a server.
Beside ==
    \/ crashes > 0
    \/ \E k \in RealKeys : record[k].status # "absent"
    \/ \E w \in Workers : req[w].key # NoKey \/ req[w].body = folder_upload
    \/ \E i \in Items : item[i].key # NoKey \/ item[i].status = "media"

\* Bound on the states explored: it comes with one item and no failure, the
\* quota with all of them.
OneItemBeside ==
    Beside => failures = 0 /\ Cardinality({i \in Items : item[i].status # "unused"}) <= 1
=============================================================================
