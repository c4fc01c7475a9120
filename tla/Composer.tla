------------------------------ MODULE Composer ------------------------------
(***************************************************************************)
(* The comment composer's slash menu and the panels it lives among: which  *)
(* panel is open, where the keyboard focus is, which menu the composer     *)
(* believes is open, and which entry of it is highlighted.  The menu's     *)
(* state is kept in ComposerState and is cleared only when a composer is   *)
(* opened, while the panel is closed and replaced by a dozen other paths.  *)
(* The text is abstracted to the slash word before the caret.              *)
(***************************************************************************)
EXTENDS Integers, FiniteSets

CONSTANTS
    MaxReplies,     \* saved replies kept (30 in the code)
    Languages       \* entries of the language menu (6 in the code)

ASSUME ComposerBounds == MaxReplies \in Nat \ {0} /\ Languages \in Nat \ {0}

VARIABLES
    panel,          \* the panel shown
    writing,        \* what the line panel offers: "none", "open" or "readonly"
    quotable,       \* the line panel is on a line, not on a whole file
    focus,          \* the field that has the keyboard
    returnFocus,    \* the field Cancel gives it back to, or "none"
    publishing,     \* Workbench::busy
    slash,          \* the menu the composer believes open
    range,          \* the slash word it was opened for, or "none"
    index,          \* the highlighted entry
    preview,        \* the rendered comment is shown instead of the field
    dimensions,     \* both table fields hold a size from 1 to 20
    replies         \* how many replies are saved

composerVars == <<panel, writing, quotable, focus, returnFocus, publishing,
                  slash, range, index, preview, dimensions, replies>>

lineVars == <<panel, writing, quotable, returnFocus, publishing>>
menuVars == <<slash, range, index>>

\* slash_query: the word after a slash that follows white space, up to the
\* caret. "" and "table" match commands, "etc" matches none.
Words == {"", "table", "etc"}

ComposerInit ==
    /\ panel = "None" /\ writing = "none" /\ quotable = FALSE
    /\ focus = "diff" /\ returnFocus = "none"
    /\ publishing = FALSE
    /\ slash = "none" /\ range = "none" /\ index = 0
    /\ preview = FALSE /\ dimensions = TRUE
    /\ replies \in 0 .. MaxReplies

-----------------------------------------------------------------------------
(* What the menu holds.                                                    *)

\* matching_comment_commands: the commands whose title or detail contains the
\* word; quoting needs a selected line.
MatchingCommands ==
    CASE range = "etc"   -> {}
      [] range = "table" -> {"Table"}
      [] OTHER           -> {"Table", "Language", "Replies"}
                            \cup (IF quotable THEN {"QuoteSource"} ELSE {})

\* comment_menu_count.
Count ==
    CASE slash = "Commands" -> Cardinality(MatchingCommands)
      [] slash = "Language" -> Languages
      [] slash = "Replies"  -> replies + 1
      [] OTHER              -> 25

\* The condition under which line_panel draws comment_slash_menu.
Drawn == /\ panel = "Line" /\ slash # "none"
         /\ writing = "open" /\ ~publishing /\ ~preview

Editable == panel = "Line" /\ writing = "open" /\ ~publishing

\* ComposerState::sync_slash, run by the observer of the field after every
\* change of its text or caret; the state it starts from is given, because
\* edit_comment clears it first.
SyncSlash(menu, old, entry, word) ==
    IF word # "none"
    THEN /\ range' = word
         /\ index' = IF old # word THEN 0 ELSE entry
         /\ slash' = IF old # word THEN "Commands" ELSE menu
    ELSE /\ range' = "none"
         /\ slash' = IF old # "none" THEN "none" ELSE menu
         /\ index' = entry

\* edit_comment: the word (or the selection) is replaced, the menu is cleared,
\* the field takes the keyboard, and the observer runs on the new caret.
EditComment(word) ==
    /\ focus' = "draft"
    /\ SyncSlash("none", "none", 0, word)

\* ComposerState::reset.
Reset == slash' = "none" /\ range' = "none" /\ index' = 0 /\ preview' = FALSE

-----------------------------------------------------------------------------
(* The field and its toolbar.                                              *)

\* Typing, or moving the caret, in the field; the caret of a read-only field
\* moves too.
TypeText ==
    /\ panel = "Line" /\ writing # "none" /\ ~preview /\ focus = "draft"
    /\ \E word \in Words \cup {"none"} :
          /\ word # range
          /\ SyncSlash(slash, range, index, word)
    /\ UNCHANGED <<lineVars, focus, preview, dimensions, replies>>

\* format_comment: a toolbar action wraps or prefixes the selection, after
\* which a slash word may stand before the caret.
FormatComment ==
    /\ Editable
    /\ \E word \in Words \cup {"none"} : EditComment(word)
    /\ UNCHANGED <<lineVars, preview, dimensions, replies>>

\* The toolbar's slash button.
SlashButton ==
    /\ Editable
    /\ slash' = IF slash # "none" THEN "none" ELSE "Commands"
    /\ range' = "none" /\ index' = 0
    /\ UNCHANGED <<lineVars, focus, preview, dimensions, replies>>

\* The toolbar's preview button.
PreviewButton ==
    /\ panel = "Line" /\ writing # "none"
    /\ preview' = ~preview
    /\ slash' = "none"
    /\ focus' = IF preview THEN "draft" ELSE focus
    /\ UNCHANGED <<lineVars, range, index, dimensions, replies>>

-----------------------------------------------------------------------------
(* The menu.                                                               *)

\* insert_slash_edit and quote_source_comment: a block replaces the slash
\* word; the caret lands inside it, where no slash word stands, unless it is a
\* saved reply that ends in one.
Insert(reply) ==
    /\ \E word \in (IF reply THEN Words ELSE {}) \cup {"none"} : EditComment(word)
    /\ UNCHANGED replies

\* choose_slash_command.
ChooseSlashCommand(command) ==
    IF command = "QuoteSource"
    THEN Insert(FALSE)
    ELSE /\ slash' = command /\ index' = 0
         /\ UNCHANGED <<range, focus, replies>>

\* save_comment_reply: a new body is appended, the oldest reply makes room for
\* it, the slash word is removed, and the list is shown with the reply
\* highlighted. An empty body does nothing.
SaveCommentReply ==
    \/ UNCHANGED <<menuVars, focus, replies>>
    \/ /\ \/ /\ replies' = IF replies = MaxReplies THEN replies ELSE replies + 1
             /\ index' = replies'
          \/ /\ replies > 0 /\ index' \in 1 .. replies
             /\ UNCHANGED replies
       /\ slash' = "Replies" /\ range' = "none"
       /\ focus' = IF range # "none" THEN "draft" ELSE focus

\* A click on an entry of the menu that is drawn.
ClickEntry ==
    /\ Drawn
    /\ \/ slash = "Commands" /\ \E c \in MatchingCommands : ChooseSlashCommand(c)
       \/ slash = "Table" /\ Insert(FALSE)
       \/ slash = "Language" /\ Insert(FALSE)
       \/ slash = "Replies" /\ SaveCommentReply
       \/ slash = "Replies" /\ replies > 0 /\ Insert(TRUE)
    /\ UNCHANGED <<lineVars, preview, dimensions>>

\* The pointer over an entry highlights it.
HoverEntry ==
    /\ Drawn /\ slash # "Table"
    /\ \E i \in 0 .. Count - 1 : i # index /\ index' = i
    /\ UNCHANGED <<lineVars, slash, range, focus, preview, dimensions, replies>>

\* The back button of a submenu.
BackButton ==
    /\ Drawn /\ slash # "Commands"
    /\ slash' = "Commands" /\ index' = 0
    /\ UNCHANGED <<lineVars, range, focus, preview, dimensions, replies>>

\* Mutant: the highlight stays where it was.
RemoveReplyKeepsIndex ==
    /\ Drawn /\ slash = "Replies" /\ replies > 0
    /\ replies' = replies - 1
    /\ UNCHANGED <<lineVars, menuVars, focus, preview, dimensions>>

\* The remove button of a saved reply.
RemoveReply ==
    /\ Drawn /\ slash = "Replies" /\ replies > 0
    /\ replies' = replies - 1
    /\ index' = 0
    /\ UNCHANGED <<lineVars, slash, range, focus, preview, dimensions>>

\* A table size typed into, or stepped in, one of the two number fields.
TypeNumber ==
    /\ Drawn /\ slash = "Table"
    /\ focus' = "number"
    /\ dimensions' \in BOOLEAN
    /\ UNCHANGED <<lineVars, menuVars, preview, replies>>

\* activate_comment_menu: Enter with the line panel open.
ActivateCommentMenu ==
    /\ panel = "Line" /\ slash # "none" /\ Count > 0
    /\ \/ slash = "Commands" /\ \E c \in MatchingCommands : ChooseSlashCommand(c)
       \/ /\ slash = "Table"
          /\ IF dimensions THEN Insert(FALSE) ELSE UNCHANGED <<menuVars, focus, replies>>
       \/ slash = "Language" /\ Insert(FALSE)
       \/ slash = "Replies" /\ index = 0 /\ SaveCommentReply
       \/ slash = "Replies" /\ index > 0 /\ Insert(TRUE)
    /\ UNCHANGED <<lineVars, preview, dimensions>>

\* move_comment_menu, _vertical and _horizontal: TRUE when the menu takes an
\* arrow key. The window captures the arrow actions of every text field, and
\* asks the menu before the panel that is open.
MenuTakesArrow ==
    /\ slash # "none"
    /\ panel = "Line" \/ focus \in {"draft", "number", "palette", "find"}
    /\ IF slash = "Table" THEN focus # "number" ELSE Count > 0

\* An arrow key that the menu takes, wherever the keyboard is. Any other one
\* moves the palette's highlight or the caret of the field.
Arrow ==
    /\ MenuTakesArrow
    /\ IF slash = "Table"
       THEN dimensions' = TRUE /\ UNCHANGED index
       ELSE /\ index' \in {(index + 1) % Count, (index - 1) % Count}
            /\ UNCHANGED dimensions
    /\ UNCHANGED <<lineVars, slash, range, focus, preview, replies>>

-----------------------------------------------------------------------------
(* The panels.                                                             *)

\* Workbench::command with Cancel while a panel is open.
ClosePanel ==
    /\ panel' = "None" /\ writing' = "none" /\ quotable' = FALSE
    /\ focus' = IF returnFocus = "none" THEN "diff" ELSE returnFocus
    /\ returnFocus' = "none"

\* Cancel from the panel's button, the backdrop, or Ctrl-Enter.
Cancel ==
    /\ panel # "None"
    /\ ClosePanel
    /\ UNCHANGED <<publishing, menuVars, preview, dimensions, replies>>

\* Escape: dismiss_comment_menu first, then Cancel.
Escape ==
    /\ panel # "None"
    /\ IF panel = "Line" /\ slash # "none"
       THEN slash' = "none" /\ UNCHANGED <<panel, writing, quotable, focus, returnFocus>>
       ELSE ClosePanel /\ UNCHANGED slash
    /\ UNCHANGED <<publishing, range, index, preview, dimensions, replies>>

\* open_draft_panel and select_draft: a line, a range or a file, with a draft
\* of the user's, a published one, or the comments already there.
OpenDraftPanel ==
    /\ panel # "Line"
    /\ panel' = "Line"
    /\ writing' \in {"none", "open", "readonly"} /\ quotable' \in BOOLEAN
    /\ returnFocus' = focus /\ focus' = "draft"
    /\ Reset
    /\ UNCHANGED <<publishing, dimensions, replies>>

\* show_thread.
ShowThread ==
    /\ panel # "Line"
    /\ panel' = "Line" /\ writing' = "none" /\ quotable' \in BOOLEAN
    /\ returnFocus' = focus /\ focus' = "panel"
    /\ Reset
    /\ UNCHANGED <<publishing, dimensions, replies>>

\* The Palette command, and the ones that open any other panel; the palette
\* may be opened over every panel, the line panel included.
OpenPanel ==
    /\ \/ panel' = "Palette" /\ focus' = "palette"
       \/ panel' = "Other" /\ focus' = "panel"
    /\ returnFocus' = focus
    /\ UNCHANGED <<writing, quotable, publishing, menuVars, preview, dimensions, replies>>

\* The Find command.
Find ==
    /\ focus # "find" /\ focus' = "find"
    /\ UNCHANGED <<lineVars, menuVars, preview, dimensions, replies>>

\* Enter, or a click, on a command of the palette: focus goes back, the panel
\* closes, and the command runs (Find here, or one that touches none of this).
RunCommand ==
    /\ panel = "Palette"
    /\ panel' = "None"
    /\ focus' \in {"find", IF returnFocus = "none" THEN "diff" ELSE returnFocus}
    /\ returnFocus' = "none"
    /\ UNCHANGED <<writing, quotable, publishing, menuVars, preview, dimensions, replies>>

\* prepare, publish, reconcile and discard set busy; a publication that ends
\* shows the outbox whatever panel is open, and an export that ends closes it.
Publication ==
    /\ \/ panel = "Other" /\ ~publishing /\ publishing' = TRUE /\ UNCHANGED panel
       \/ publishing /\ publishing' = FALSE /\ panel' \in {panel, "Other"}
       \/ panel # "None" /\ panel' = "None" /\ UNCHANGED publishing
    /\ UNCHANGED <<writing, quotable, focus, returnFocus, menuVars, preview, dimensions,
                   replies>>

ComposerNext ==
    \/ TypeText \/ FormatComment \/ SlashButton \/ PreviewButton
    \/ ClickEntry \/ HoverEntry \/ BackButton \/ RemoveReply \/ TypeNumber
    \/ ActivateCommentMenu \/ Arrow
    \/ Cancel \/ Escape \/ OpenDraftPanel \/ ShowThread \/ OpenPanel \/ Find
    \/ RunCommand \/ Publication

ComposerSpec == ComposerInit /\ [][ComposerNext]_composerVars

-----------------------------------------------------------------------------
(* Properties.                                                             *)

\* The entry Enter acts on is the highlighted one: activate_comment_menu
\* takes index.min(count - 1), and for a saved reply one less, so a highlight
\* past the end of the list runs another entry than the one shown, and on an
\* empty list of replies it underflows. The list shrinks when a reply is
\* removed, when the word narrows the commands, and when the panel changes.
HighlightedEntryExists ==
    panel = "Line" /\ slash \in {"Commands", "Language", "Replies"} /\ Count > 0
        => index < Count

\* The inductive form of HighlightedEntryExists.
ComposerInv ==
    /\ HighlightedEntryExists
    /\ index \in Int /\ replies \in Nat
    /\ slash \in {"none", "Commands", "Table", "Language", "Replies"}
=============================================================================
