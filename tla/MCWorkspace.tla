---------------------------- MODULE MCWorkspace -----------------------------
(* Two requests at a time, in whichever part. *)
EXTENDS Workspace, TLC

CONSTANT Caller

SmallQuota == [FREE |-> 1, SCALE |-> 2]
SmallLimit == [FREE |-> 1, SCALE |-> 2]

\* A new contact with and without a tag; a row without a phone before it.
Sheets == {<<[phone |-> "p", tags |-> {"t1"}], [phone |-> "p", tags |-> {}]>>,
           <<[phone |-> "none", tags |-> {"t1"}], [phone |-> "p", tags |-> {"t2"}]>>}

\* One row of two cells, or two rows, of up to two characters: quotes, commas,
\* both line ends and plain text.
Strings == UNION {[1 .. n -> {"q", "c", "n", "r", "x"}] : n \in 0 .. 2}
Tables == {<<<<a, b>>>> : a, b \in Strings}
          \cup {<<<<a, <<>>>>, <<b, <<"x">>>>>> : a, b \in Strings}

\* No sentence ends at all, at the far end of a window, or everywhere.
SomeBreaks == {{}, {5}, {4, 8}, {5, 6, 9}, 1 .. 9}

\* A form with a body only, and one with everything.
Forms == {[header |-> "", body |-> "hi", footer |-> "", button |-> "", url |-> ""],
          [header |-> "h", body |-> "hi", footer |-> "f", button |-> "b", url |-> "u"]}

\* Two messages of one conversation, which one answer holds or does not; one
\* that is a payment link or not; or one message and a second conversation.
PageScopes == {[chats |-> {"c1"}, page |-> 2, rows |-> 2, links |-> 0],
               [chats |-> {"c1"}, page |-> 1, rows |-> 2, links |-> 0],
               [chats |-> {"c1"}, page |-> 1, rows |-> 1, links |-> 1],
               [chats |-> {"c1", "c2"}, page |-> 1, rows |-> 1, links |-> 0]}

\* Two numbers of two business accounts.
Numbers == [n1 |-> "w1", n2 |-> "w2"]

\* The requests of every part.
Symmetry == Permutations(Caller)
=============================================================================
