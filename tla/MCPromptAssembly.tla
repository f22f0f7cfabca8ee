------------------------- MODULE MCPromptAssembly -------------------------
(* A small address book, memory and two workspaces for TLC.                *)
EXTENDS PromptAssembly

MCTerms == {"name", "tax", "lisa", "max", "berg", "stein", "acme", "boss", "user", "none"}

Claim(s, confirmed, conf, lane, terms, size) ==
    [sensitivity |-> s, confirmed |-> confirmed, locked |-> FALSE, confidence |-> conf,
     lane |-> lane, subject |-> "user", terms |-> terms, size |-> size]

MCClaims == << Claim("S1", FALSE, 0, "identity", {"name"}, 1),
               Claim("S4", TRUE, 1, "evidence", {"tax"}, 1),
               Claim("S2", FALSE, 1, "evidence", {"tax", "lisa"}, 2),
               Claim("S0", TRUE, 0, "authorization", {"tax"}, 1),
               Claim("S1", TRUE, 1, "identity", {"max"}, 2) >>

Contact(s, first, last, tags) ==
    [sensitivity |-> s, first |-> first, last |-> last, company |-> "acme", role |-> "boss",
     tags |-> tags]

\* Two Lisas, one of them private.
MCContacts == << Contact("S1", "lisa", "berg", {"tax"}), Contact("S3", "lisa", "stein", {}),
                 Contact("S0", "max", "none", {}) >>

MCProjects == << [sensitivity |-> "S1"], [sensitivity |-> "S1"] >>

Par(size, terms) == [size |-> size, terms |-> terms]

\* The first workspace fits its budget, the second does not.
MCFiles == << [project |-> 1, ok |-> TRUE, paragraphs |-> << Par(1, {"tax"}) >>],
              [project |-> 1, ok |-> FALSE, paragraphs |-> << Par(9, {}) >>],
              [project |-> 2, ok |-> TRUE,
               paragraphs |-> << Par(1, {"lisa"}), Par(2, {"tax", "name"}), Par(1, {}) >>],
              [project |-> 2, ok |-> TRUE, paragraphs |-> << Par(3, {"tax"}), Par(1, {"max"}) >>] >>

MCRelations == << [subject |-> "lisa", object |-> "acme"], [subject |-> "max", object |-> "tax"] >>

MCQueries == {{"lisa"}, {"tax"}, {"max", "berg", "name"}, {"acme"}, {}}
=============================================================================
