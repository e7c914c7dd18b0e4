-------------------------------- MODULE Parse -------------------------------
(***************************************************************************)
(* The trees of commands (parse.c): the commands of msgtab and the pseudo  *)
(* commands of the configuration, which come and go with REHASH; and how a *)
(* line is split into parameters.  A node of a tree is the sequence of     *)
(* slots that leads to it: a slot is shared by all characters with the     *)
(* same low five bits.                                                     *)
(***************************************************************************)
EXTENDS Naturals, Sequences, FiniteSets, SequencesExt

CONSTANTS
  Builtin, Token,        \* commands of msgtab (sequences of characters), and the token of each
  Pseudos,               \* commands that a Pseudo block may have
  Alpha, Slot,           \* the letters, and the slot of every character
  Typed,                 \* what clients and servers send as a command
  Parameters, MAXPARA,   \* mptr->parameters of the commands of msgtab
  MaxWords               \* bound: words after the command

VARIABLES tree, toks,    \* msg_tree, tok_tree: from nodes to a command or none
          maps,          \* GlobalServiceMapList
          ran            \* the last command: [cmd, line, para]

avars == <<tree, toks, maps, ran>>
-----------------------------------------------------------------------------
NoMsg == <<>>
Slots(cmd) == [k \in DOMAIN cmd |-> Slot[cmd[k]]]
Steps(cmd) == {SubSeq(Slots(cmd), 1, k) : k \in 0..Len(cmd)}
Root == [p \in {<<>>} |-> NoMsg]

add_msg_element(t, msg, cmd) ==
  [p \in DOMAIN t \cup Steps(cmd) |-> IF p = Slots(cmd) THEN msg ELSE IF p \in DOMAIN t THEN t[p] ELSE NoMsg]

(* Mutant: a node goes with its command. *)
DelAlways(t, cmd) == [p \in DOMAIN t \ ({Slots(cmd)} \ {<<>>}) |-> t[p]]
(* Going back up the path, a node without command and children is freed.   *)
del_msg_element(t, cmd) ==
  LET u == [t EXCEPT ![Slots(cmd)] = NoMsg]
      Dead == {p \in Steps(cmd) \ {<<>>} : \A q \in DOMAIN u : IsPrefix(p, q) => u[q] = NoMsg /\ q \in Steps(cmd)}
  IN  [p \in DOMAIN u \ Dead |-> u[p]]

(* Only letters lead on. *)
msg_tree_parse(t, cmd) ==
  IF (\A k \in DOMAIN cmd : cmd[k] \in Alpha) /\ Slots(cmd) \in DOMAIN t THEN t[Slots(cmd)] ELSE NoMsg

initmsgtree(of(_)) ==
  FoldLeft(LAMBDA t, c : add_msg_element(t, c, of(c)), Root, SetToSeq(Builtin))

(* s = [tree, maps]. *)
register_mapping(s, m) ==
  IF msg_tree_parse(s.tree, m) # NoMsg THEN s
  ELSE [tree |-> add_msg_element(s.tree, m, m), maps |-> <<m>> \o s.maps]
unregister_mapping(t, m) == del_msg_element(t, m)
close_mappings == FoldLeft(unregister_mapping, tree, maps)
-----------------------------------------------------------------------------
(* A word is a parameter, until one starts with a colon or is the last     *)
(* that the command takes: that one is the rest of the line.  A pseudo     *)
(* command has its map as the first parameter.                             *)
Split(words, n, extra) ==
  LET first == IF extra THEN 1 ELSE 0
      most == IF n - first < 1 THEN 1 ELSE n - first
      Ends == {k \in DOMAIN words : words[k].colon \/ k = most}
      end == CHOOSE k \in Ends : \A j \in Ends : k <= j
  IN  IF Ends = {} THEN [k \in DOMAIN words |-> <<words[k]>>]
      ELSE [k \in 1..end |-> IF k < end THEN <<words[k]>> ELSE SubSeq(words, k, Len(words))]

Count(msg) ==
  LET n == IF msg \in Builtin THEN Parameters[msg] ELSE 2 IN IF n > MAXPARA THEN MAXPARA ELSE n
Run(msg, words, n, extra) == ran' = <<[cmd |-> msg, line |-> words, para |-> Split(words, n, extra), extra |-> extra]>>

(* A line of a client, and of a server, whose tokens come first. *)
parse_client(cmd, words) ==
  LET msg == msg_tree_parse(tree, cmd)
  IN  /\ msg # NoMsg
      /\ Run(msg, words, Count(msg), msg \notin Builtin)
      /\ UNCHANGED <<tree, toks, maps>>
parse_server(cmd, words) ==
  LET msg == IF msg_tree_parse(toks, cmd) # NoMsg THEN msg_tree_parse(toks, cmd) ELSE msg_tree_parse(tree, cmd)
  IN  /\ msg # NoMsg
      /\ Run(msg, words, Count(msg), FALSE)
      /\ UNCHANGED <<tree, toks, maps>>
Numeric(words) ==
  ran' = <<[cmd |-> NoMsg, line |-> words, para |-> Split(words, 2, FALSE), extra |-> FALSE]>> /\ UNCHANGED <<tree, toks, maps>>

(* REHASH, or the first reading: the Pseudo blocks of the file. *)
read_configuration_file(blocks) ==
  LET s == FoldLeft(register_mapping, [tree |-> close_mappings, maps |-> <<>>],
                    SelectSeq(blocks, LAMBDA m : \A k \in DOMAIN m : m[k] \in Alpha))
  IN  tree' = s.tree /\ maps' = s.maps /\ ran' = <<>> /\ UNCHANGED toks
-----------------------------------------------------------------------------
Lines == UNION {[1..n -> [w : {"v"}, colon : BOOLEAN]] : n \in 0..MaxWords}
Blocks == {<<a, b>> : a, b \in Pseudos}

PaInit ==
  /\ tree = initmsgtree(LAMBDA c : c) /\ toks = initmsgtree(LAMBDA c : Token[c])
  /\ maps = <<>> /\ ran = <<>>

(* Bound: a line is parsed once after each reading, as lines change nothing. *)
PaNext ==
  \/ \E bs \in Blocks : read_configuration_file(bs)
  \/ ran = <<>> /\ \E c \in Typed, l \in Lines : parse_client(c, l) \/ parse_server(c, l)
  \/ ran = <<>> /\ \E l \in Lines : Numeric(l)
-----------------------------------------------------------------------------
(* However the configuration changed, the tree holds the commands of       *)
(* msgtab and of the Pseudo blocks in force, finds each of them, and has   *)
(* no other node: none is freed that another command needs, and none is    *)
(* left (add_msg_element, del_msg_element).                                *)
TreeIsRegistry ==
  LET All == Builtin \cup Range(maps)
  IN  /\ DOMAIN tree = UNION {Steps(c) : c \in All} \cup {<<>>}
      /\ \A c \in All : msg_tree_parse(tree, c) = c

(* No word of a line is lost or repeated when it is split, there is room   *)
(* for the parameters and the null after them, and a pseudo command that   *)
(* runs has a map that is in force (parse_client, parse_server).           *)
LineIsWhole ==
  ran # <<>> =>
    /\ FlattenSeq(ran[1].para) = ran[1].line
    /\ Len(ran[1].para) + (IF ran[1].extra THEN 1 ELSE 0) <= MAXPARA
    /\ ran[1].extra => ran[1].cmd \in Range(maps)
=============================================================================
