----------------------------- MODULE CallFrames -----------------------------
(***************************************************************************)
(* Calls, blocks and class bodies on the machine stack, and the list of    *)
(* control frames through which a block finds the frame it was written in. *)
(*                                                                         *)
(* The list starts at Executor::cfp; each frame's prev is the rest of it.  *)
(* What the functions do is left open: the running one may do anything     *)
(* that changes the stack.                                                 *)
(***************************************************************************)
EXTENDS Arguments

CONSTANTS
    Functions,  \* the functions that may be called,
    Deep,       \* and those of them that may be called from deep in the stack
    Objects,    \* the values that may be passed,
    ArgLists,   \* and the arguments that may be given
    MaxDepth    \* bound: the frames on the stack

ASSUME CallFramesAssumption ==
    /\ MaxDepth \in Nat \ {0} /\ MaxSlot \in Nat
    /\ Deep \subseteq Functions
    /\ \A f \in Functions : WellFormed(f) /\ Accepted(f) /\ RegNum(f) <= MaxSlot /\ Room(f) <= MaxSlot
    /\ Passable(Objects) /\ ArgLists \subseteq Seq(Objects)
    /\ \A args \in ArgLists : Len(args) <= MaxSlot

VARIABLES
    frames,     \* the frames on the stack, the running one last
    cfp,        \* Executor::cfp
    status,     \* "running", "entering", "error" while frames are left, "idle", "dead"
    entered     \* the call that is being entered, and what its parameters become

vars == <<frames, cfp, status, entered>>

Ids == 1..(6 * MaxDepth)    \* enough for every word of every frame
NoFrame == 0
Lost == -1      \* a word nobody wrote, or in a frame that is gone
Somewhere == Ids \cup {NoFrame, Lost}

\* The word in a frame's block: how many frames to go up.  For the properties: the
\* frame that wrote the block, and what cfp was whenever the word was passed on:
\* the frame that passed it, another one because of a class body, or no frame.
Words == [depth : 0..MaxDepth, by : Ids \cup {NoFrame}, via : {"frame", "class", "none"}]
NoWord == [depth |-> 0, by |-> NoFrame, via |-> "frame"]

\* prev, outer, self and block are words of the frame; proxies says whether its
\* function has a block parameter, invoked whether an invoker called it (and not
\* generated code).  For the properties: the word that led to a block's frame,
\* and what was last done to cfp while it ran: "call" if that made it the frame
\* ("entry" is that of a class body, if nothing was done).
Frames ==
  [id : Ids, kind : {"main", "method", "block", "class", "native"}, prev : Somewhere,
   outer : Somewhere, self : Somewhere, block : Words, proxies : BOOLEAN, invoked : BOOLEAN,
   from : Words, since : {"entry", "call", "class", "accessor", "require"}]

Top == frames[Len(frames)]
Live == {frames[i].id : i \in DOMAIN frames}
FrameOf(id) == frames[CHOOSE i \in DOMAIN frames : frames[i].id = id]

TypeOK ==
    /\ frames \in Seq(Frames) /\ Len(frames) <= MaxDepth
    /\ cfp \in Somewhere
    /\ status \in {"running", "entering", "error", "idle", "dead"}
    /\ status = "entering" <=> entered # <<>>
    /\ frames = <<>> <=> status = "idle"
    /\ frames = <<>> => cfp = NoFrame

Init == frames = <<>> /\ cfp = NoFrame /\ status = "idle" /\ entered = <<>>

-----------------------------------------------------------------------------
(* Finding frames.                                                          *)

\* The frames found from id, one by one.
Along(step, id) ==
  LET at[n \in Nat] == IF n = 0 THEN id ELSE step[at[n - 1]]
  IN  at

\* CFP::next.  The word is never written in the frame of a class body.
NextCfp == [id \in Somewhere |-> IF id \in Live THEN FrameOf(id).prev ELSE Lost]

\* get_block_data: from cfp, as many steps as the word says.
Walk(word) == Along(NextCfp, cfp)[word.depth]

\* vm_load_dvar, vm_store_dvar: the frame `level' blocks further out.
Outer == [id \in Somewhere |-> IF id \in Live THEN FrameOf(id).outer ELSE Lost]
OuterAt(f, level) == Along(Outer, f.id)[level]

-----------------------------------------------------------------------------
(* Entering and leaving.                                                    *)

\* A frame that is gone is not found again by one that takes its place.
Mentioned(f) == {f.id, f.prev, f.outer, f.self, f.block.by, f.from.by}
InUse == {cfp} \cup UNION {Mentioned(frames[i]) : i \in DOMAIN frames}
NewId == CHOOSE id \in Ids \ InUse : \A j \in Ids \ InUse : id <= j

Frame(kind, outer, self, word, from, proxies, invoked) ==
  [id |-> NewId, kind |-> kind, prev |-> cfp, outer |-> outer, self |-> self, block |-> word,
   proxies |-> proxies, invoked |-> invoked, from |-> from, since |-> "call"]

\* push_frame(false).  Every receiver is an object of its own.
PushFrame(kind, word, proxies, invoked) ==
  /\ Len(frames) < MaxDepth
  /\ frames' = Append(frames, Frame(kind, NoFrame, NewId, word, NoWord, proxies, invoked))
  /\ cfp' = NewId

\* push_frame(true): outer and self are those of the frame that was found.
PushBlock(outer, from, proxies, invoked) ==
  LET self == IF outer \in Live THEN FrameOf(outer).self ELSE Lost
  IN  /\ Len(frames) < MaxDepth
      /\ frames' = Append(frames, Frame("block", outer, self, NoWord, from, proxies, invoked))
      /\ cfp' = NewId

\* gen_entry_point: its frame is the first of a list of its own.
EntryPoint ==
  LET main == [Frame("main", NoFrame, NewId, NoWord, NoWord, FALSE, FALSE) EXCEPT !.prev = NoFrame]
  IN  /\ Len(frames) < MaxDepth
      /\ frames' = Append(frames, main)
      /\ cfp' = NewId

\* The invokers leave cfp as the callee left it.
CfpAfter_NoEpilogue(callee, caller) ==
  CASE callee.kind = "main" -> NoFrame
    [] callee.kind = "class" \/ callee.invoked -> cfp
    [] callee.kind \notin {"main", "class"} /\ ~callee.invoked -> caller.id

\* Generated code makes cfp its own frame after a call (pop_frame), the epilogue of
\* the invokers what it was before it, the word prev of the callee; the entry
\* point makes it 0, and nothing is done after a class body.
CfpAfter(callee, caller) ==
  CASE callee.kind = "main" -> NoFrame
    [] callee.kind = "class" -> cfp
    [] callee.kind \notin {"main", "class"} /\ callee.invoked -> callee.prev
    [] callee.kind \notin {"main", "class"} /\ ~callee.invoked -> caller.id

\* What the caller did last, when it goes on: a class body that called nothing
\* leaves cfp as it found it, and so does an invoker.
SinceAfter(callee, caller) ==
  CASE callee.kind = "main" -> "require"
    [] callee.kind = "class" /\ callee.since = "entry" -> caller.since
    [] callee.kind = "class" /\ callee.since = "call" -> "class"
    [] callee.kind = "class" /\ callee.since \notin {"entry", "call"} -> callee.since
    [] callee.kind \notin {"main", "class"} /\ callee.invoked -> caller.since
    [] callee.kind \notin {"main", "class"} /\ ~callee.invoked -> "call"

\* The entry point leaves cfp as it is.
Pop_KeepCfp ==
  LET caller == frames[Len(frames) - 1]
  IN  IF Len(frames) = 1 THEN frames' = <<>> /\ UNCHANGED cfp
      ELSE frames' = SubSeq(frames, 1, Len(frames) - 1) /\ cfp' = CfpAfter(Top, caller)

Pop ==
  LET caller == frames[Len(frames) - 1]
      again == [caller EXCEPT !.since = SinceAfter(Top, caller)]
  IN  IF Len(frames) = 1 THEN frames' = <<>> /\ cfp' = NoFrame
      ELSE /\ frames' = Append(SubSeq(frames, 1, Len(frames) - 2), again)
           /\ cfp' = CfpAfter(Top, caller)

-----------------------------------------------------------------------------
(* What the running function may do.                                        *)

\* require returns what the entry point returned and does nothing else.
Running == status = "running" /\ Top.since # "require"
Ruby == Running /\ Top.kind # "native"
\* Bounds: methods are called in every way from the first frame, blocks from the
\* second one.
Shallow(is_block) == Len(frames) <= IF is_block THEN 2 ELSE 1
Callable(is_block) == {f \in IF Shallow(is_block) THEN Functions ELSE Deep : f.is_block = is_block}
Arguable(is_block) == IF Shallow(is_block) THEN ArgLists ELSE {<<>>}
Tiers(is_block) == IF Shallow(is_block) THEN {"vm", "jit"} ELSE {"vm"}

\* The interactive front end evaluates one input after another.
Eval ==
  /\ status = "idle"
  /\ EntryPoint /\ status' = "running" /\ UNCHANGED entered

\* Kernel#require, a method in Rust: eval_script of the file.
Require ==
  /\ Running /\ Top.kind = "native"
  /\ EntryPoint /\ UNCHANGED <<status, entered>>

\* Whether cfp is known to be the running frame; see CfpIsTheRunningFrame.
Linked == Top.since = "call"
Via == IF Linked THEN "frame" ELSE IF Top.since = "accessor" THEN "none" ELSE "class"
Handed(word) == IF Linked THEN word ELSE [word EXCEPT !.via = "none"]

\* The block of a call: none, a literal, or the block parameter of the caller,
\* whose word is one step longer.
Literal_OneMore == [depth |-> 2, by |-> Top.id, via |-> Via]
Literal == [depth |-> 1, by |-> Top.id, via |-> Via]
Proxy_SameDepth == Handed(Top.block)
Proxy == [Handed(Top.block) EXCEPT !.depth = @ + 1]
BlockOperands ==
  {NoWord, Literal} \cup (IF Top.proxies /\ Top.block # NoWord THEN {Proxy} ELSE {})

Enters(tier, f, args, word) ==
  LET block == IF word = NoWord THEN NoBlock ELSE <<"block">>
  IN  /\ status' = "entering"
      /\ entered' = [tier |-> tier, f |-> f, args |-> args, block |-> block,
                     params |-> Enter(tier, f, args, block)]

\* The number of arguments is checked where the method is looked up, if it is
\* fixed; otherwise by the method itself.
CallMethod ==
  /\ Ruby
  /\ \E word \in BlockOperands, f \in Callable(FALSE), args \in Arguable(FALSE),
        tier \in Tiers(FALSE) :
       IF CheckArg(f, Len(args))
       THEN PushFrame("method", word, f.block, FALSE) /\ Enters(tier, f, args, word)
       ELSE status' = "error" /\ UNCHANGED <<frames, cfp, entered>>

\* The prologue of the function that was called.
Start ==
  /\ status = "entering"
  /\ status' = IF Overruns(entered.f, entered.args) THEN "dead"
               ELSE IF entered.params = <<>> THEN "error" ELSE "running"
  /\ entered' = <<>> /\ UNCHANGED <<frames, cfp>>

\* wrap_native_func, native_call: new, times and other methods written in Rust, and
\* the accessors, which come and go at once.
CallNative ==
  /\ Ruby
  /\ \E word \in BlockOperands : PushFrame("native", word, FALSE, FALSE)
  /\ UNCHANGED <<status, entered>>

\* invoke_method, invoke_func2: what an operator does of a frame in Ruby, when its
\* operands are not of the classes the operator knows, and new of its own.
Invoke ==
  /\ Running
  /\ \E f \in Callable(FALSE), args \in Arguable(FALSE), tier \in Tiers(FALSE) :
       /\ CheckArg(f, Len(args))
       /\ PushFrame("method", NoWord, f.block, TRUE) /\ Enters(tier, f, args, NoWord)

InvokeNative ==
  /\ Running
  /\ PushFrame("native", NoWord, FALSE, TRUE) /\ UNCHANGED <<status, entered>>

\* An accessor that an invoker calls, as -obj does with attr_reader "-@".  It has no
\* frame and its own call overwrites the word the epilogue reads, which makes cfp
\* an address in the code.  A writer fails if the object is frozen.
InvokeAccessor ==
  /\ Running
  /\ frames' = [frames EXCEPT ![Len(frames)].since = "accessor"]
  /\ cfp' = Lost /\ status' \in {"running", "error"} /\ UNCHANGED entered

\* vm_yield, gen_yield and invoke_block.  Which block a word names is left open,
\* and what is found where no frame is, is not known.
YieldTo ==
  /\ Running /\ Top.block # NoWord
  /\ \E f \in Callable(TRUE), args \in Arguable(TRUE), tier \in Tiers(TRUE) :
       /\ PushBlock(Walk(Top.block), Handed(Top.block), f.block, Top.kind = "native")
       /\ Enters(tier, f, args, NoWord)

\* get_block_data has no case for a frame without a block, and a frame of a block
\* never has one; nor has BlockArgProxy.  What it reads where no frame is may be
\* of no use either.
YieldNowhere ==
  /\ Running
  /\ \/ Top.kind # "native" /\ Top.block = NoWord
     \/ Top.block # NoWord /\ Walk(Top.block) \notin Live
  /\ status' = "dead" /\ UNCHANGED <<frames, cfp, entered>>

\* vm_class_def, class_def: no push_frame, so that neither cfp nor prev is set.
OpenClass ==
  /\ Ruby /\ Top.kind # "method" /\ Len(frames) < MaxDepth
  /\ LET since == IF Top.since = "accessor" THEN "accessor" ELSE "entry"
         class == [Frame("class", NoFrame, NewId, NoWord, NoWord, FALSE, FALSE)
                     EXCEPT !.prev = Lost, !.since = since]
     IN  frames' = Append(frames, class)
  /\ UNCHANGED <<cfp, status, entered>>

Return ==
  /\ status = "running"
  /\ Pop
  /\ status' = IF Len(frames) = 1 THEN "idle" ELSE "running"
  /\ UNCHANGED entered

Raise ==
  /\ Running
  /\ status' = "error" /\ UNCHANGED <<frames, cfp, entered>>

\* A method in Rust ignores that its block failed.
Unwind_RustGoesOn ==
  /\ status = "error"
  /\ Pop
  /\ status' = IF Len(frames) = 1 THEN "idle"
               ELSE IF frames[Len(frames) - 1].kind = "native" THEN "running" ELSE "error"
  /\ UNCHANGED entered

\* Every caller, in Ruby or in Rust, returns 0 when it gets 0.  No frame is left
\* by the one call that does not check: an attr_writer compiled in place, whose
\* slow path goes on after an error (modelled in IvarCache, Silent).
Unwind ==
  /\ status = "error"
  /\ Pop
  /\ status' = IF Len(frames) = 1 THEN "idle" ELSE "error"
  /\ UNCHANGED entered

Next ==
  \/ Eval \/ Require \/ CallMethod \/ CallNative \/ Invoke \/ InvokeNative \/ InvokeAccessor
  \/ YieldTo \/ YieldNowhere \/ Start \/ OpenClass \/ Return \/ Raise \/ Unwind

Spec == Init /\ [][Next]_vars /\ WF_vars(Unwind)

-----------------------------------------------------------------------------
(* Properties.                                                              *)

\* The parameters of a function that starts have the values Ruby gives them, or
\* the call is refused when Ruby refuses it, by the interpreter's prologue and
\* by the compiled one; Divergent names the calls for which it is not so.
BindsLikeRuby ==
  \/ entered = <<>>
  \/ Divergent(entered.tier, entered.f, entered.args, entered.block)
  \/ entered.params = RubyEnter(entered.f, entered.args, entered.block)

\* cfp is the running frame whenever it may be used, after every call, return
\* and error, and in a native the file it required was called from, but for:
\*  - a class body until its first call, and the frame around it, if there was
\*    one, until the first call after it: a class body pushes no frame;
\*  - a frame in which an invoker called an accessor, until generated code next
\*    calls something from it: cfp is not even a frame;
\*  - require, after its file has run: cfp is 0.
CfpIsTheRunningFrame ==
  frames # <<>> => (cfp = Top.id <=> Linked)

\* The frames a block was written in, from inside out, and how many of them are
\* blocks themselves.
Writer == [id \in Somewhere |-> IF id \in Live THEN FrameOf(id).from.by ELSE Lost]
Scope(f) == Along(Writer, f.id)
Levels(f) ==
  {n \in 1..Len(frames) : \A k \in 0..(n - 1) : /\ Scope(f)[k] \in Live
                                                /\ FrameOf(Scope(f)[k]).kind = "block"}

\* A block runs as a part of the frame it was written in, however many methods,
\* written in Ruby or in Rust, passed it on: its self is that frame's, and the
\* variables of every scope around it are found in the frames of these scopes.
\* The only exceptions are blocks whose frames, or ones around them, were passed
\* their blocks next to a class body, or after an accessor an invoker called.
BlocksRunWhereWritten ==
  \A i \in DOMAIN frames :
    LET f == frames[i]
    IN  (\A n \in Levels(f) : FrameOf(Scope(f)[n - 1]).from.via = "frame")
          => \A n \in Levels(f) : /\ Scope(f)[n] \in Live
                                  /\ OuterAt(f, n) = Scope(f)[n]
                                  /\ f.self = FrameOf(Scope(f)[n]).self

\* The walk from cfp ends at a frame and never reads a word that no call has
\* written, not even when cfp is that of a class body that has ended; except
\* where an accessor that an invoker called left no frame in cfp.
WalksEndAtFrames ==
  \A i \in DOMAIN frames :
    frames[i].kind = "block" /\ frames[i].from.via # "none" => frames[i].outer \in Ids

\* An error ends everything on the stack: no function, and no method written in
\* Rust, goes on after one it called has failed.
ErrorsReachTheEntry == status = "error" ~> status = "idle"
=============================================================================
