----------------------------- MODULE MCQuality -----------------------------
(* Quality on a few codes and pages.                                       *)
EXTENDS Quality

(* Codes without a fault, with mock data or with a placeholder, each plain *)
(* or well structured, the plain ones fit for a phone or not.              *)
Sound == {"fetch", "json", "noPlaceholder", "proxied", "noArrays"}
Codes ==
    {base \cup look :
        base \in {Sound, Sound \ {"noArrays"}, Sound \ {"noPlaceholder"}},
        look \in {Structured \cup Interactive \cup Mobile,
                  Structured \cup Interactive \cup {"responsive", "noFixedWidth"},
                  {"semantic", "footer", "imgAlt", "korean", "responsive", "noFixedWidth"}}}

Clean == [errors |-> FALSE, overflow |-> FALSE, footer |-> "shown", overlap |-> FALSE,
          placeholders |-> 0, slow |-> {}]
Renderings ==
    {Clean, [Clean EXCEPT !.overflow = TRUE], [Clean EXCEPT !.errors = TRUE, !.placeholders = 5],
     [Clean EXCEPT !.footer = "hidden", !.slow = {"noLayoutOverlap"}]}
=============================================================================
