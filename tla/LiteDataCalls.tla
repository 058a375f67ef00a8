---------------------------- MODULE LiteDataCalls ----------------------------
(* Functions of PDB lite that find what an expression names, and that read, *)
(* write and convert it (src/src/pdb: pdpath.c, pdrdwr.c, pdconv.c).        *)
EXTENDS CallSteps, TLC

-----------------------------------------------------------------------------
(* What an expression names (pdpath.c).  The parser keeps its frames in    *)
(* frames, which is static: an expression inside another one, for the type *)
(* of a member, has the next frame, and only the outermost one allocates   *)
(* and releases them.                                                      *)
Scanned == {"lex_bf", "stack"}
Evaluated ==
  Void("_PD_parse") \o Void("_PD_reduce")
    \o Own({"dims", "sp"}) \o Copy({"ep"}) \o Free({"dims", "sp"})
_lite_PD_effective_ep ==
  Entry("PD_TRACE",
    Void("lite_PD_inquire_entry") \o Maybe(Copy({"ep"}) \o Keep({"ep"}) \o Done)
    \o Either(Copy({"frames"} \cup Scanned) \o Catch({"frames"} \cup Scanned)
                \o Evaluated \o Free({"frames"} \cup Scanned),
              Copy(Scanned) \o Keep(Scanned) \o Catch({}) \o Evaluated)
    \o Keep({"ep"}))
_PD_rl_frames     == Inner(Own({"frames"} \cup Scanned) \o Free({"frames"} \cup Scanned))

(* The commands that an expression is turned into, one location of the     *)
(* stack for each                                                          *)
_PD_shift ==
  Inner(Raise("PD_TRACE") \o Maybe(Copy({"frames"}) \o Keep({"frames"}))
    \o Maybe(Own({"stack"}) \o Free({"stack"}) \o Copy({"stack"}) \o Keep({"stack"})))
GotoAndMember ==
  [_PD_do_goto |->
     Inner(Demand("lite_PD_inquire_entry", {}, "PD_TRACE") \o Demand("_lite_PD_lookup_type", {}, "PD_TRACE")
       \o Void("_PD_shift")),
   _PD_do_member |->
     Inner(Maybe(Void("_PD_do_deref")) \o Raise("PD_TRACE") \o Demand("_lite_PD_lookup_type", {}, "PD_TRACE")
       \o Loop(Maybe(Void("_PD_is_member") \o Void("_PD_get_type_member") \o Void("_PD_shift") \o Done))
       \o Throw("PD_TRACE"))]
DerefAndIndex ==
  [_PD_do_deref |-> Inner(Void("_PD_shift")),
   _PD_do_index |->
     Inner(Either(Void("_lite_PD_hyper_number"),
                  Either(Void("_PD_do_deref") \o Void("lite_SC_firsttok") \o Raise("PD_TRACE"),
                         Throw("PD_TRACE")))
       \o Void("_PD_shift"))]
CastAndDigress ==
  [_PD_do_cast |-> Inner(Void("_PD_shift")),
   _PD_do_digress |-> Inner(Void("_PD_reduce")),
   _PD_is_member |-> Inner(Maybe(Void("_lite_PD_member_items")))]

SavedStack ==
  [_PD_save_stack |-> Inner(Maybe(Own({"frames"}) \o Free({"frames"}) \o Copy({"frames"}) \o Keep({"frames"}))),
   _PD_restore_stack |-> Inner(Own(Scanned) \o Free(Scanned)),
   (* The type of a member that another member names is read from the file,   *)
   (* in a frame of its own.                                                  *)
   _PD_get_type_member |->
     Inner(Demand("_lite_PD_lookup_type", {}, "PD_TRACE")
       \o Maybe(Either(Raise("PD_TRACE"),
                       Void("_PD_save_stack") \o Void("lite_PD_read") \o Void("_PD_restore_stack"))))]

(* The commands carried out, from the last variable on.  The value of an   *)
(* index is read, and an error of reading knows nothing of the frames.     *)
_PD_reduce ==
  Inner(Loop(Maybe(Either(Void("_PD_deref_addr"), Either(Void("_PD_index_deref"), Void("_PD_member_deref"))))
             \o Own({"dims", "blocks"}) \o Free({"dims", "blocks"}))
    \o Maybe(Raise("PD_TRACE") \o Copy({"ep"}) \o Void("_lite_PD_rd_syment") \o Free({"ep"})))
_PD_deref_addr ==
  Inner(Maybe(Raise("PD_TRACE") \o Void("_lite_PD_rd_itag")
    \o Maybe(Copy({"sp", "dims"}) \o Keep({"sp", "dims"}))))

(* The address of an indirect array is found by passing the ones before it *)
Seek == Raise("PD_TRACE")
Passed == Void("_PD_num_indirects") \o Void("_lite_PD_skip_over")
PointedTo ==
  Raise("PD_TRACE")
    \o Either(Seek \o Void("_lite_PD_skip_over") \o Passed,
              Either(Seek \o Passed,
                     Seek \o Passed \o Void("_lite_PD_rd_itag") \o Maybe(Seek \o Void("_lite_PD_rd_itag"))
                       \o Own({"blocks"}) \o Free({"blocks"})))
InPlace == Own({"dims"}) \o Free({"dims"}) \o Maybe(Copy({"nsp"}))
_PD_index_deref ==
  Inner(Maybe(Void("_PD_num_indirects") \o Either(PointedTo, InPlace))
    \o Own({"blocks"}) \o Free({"blocks"}) \o Keep({"nsp"}))
_PD_member_deref ==
  Inner(Maybe(Maybe(Seek \o Maybe(Void("_lite_PD_skip_over")))
    \o Maybe(Seek \o Void("_lite_PD_skip_over"))))
SkippedOver ==
  [_lite_PD_skip_over |->
     Inner(Loop(Void("_lite_PD_rd_itag") \o Maybe(Void("_PD_num_indirects"))
       \o Maybe(Seek \o Void("_lite_PD_rd_itag")) \o Raise("PD_TRACE") \o Maybe(Seek))),
   _PD_num_indirects |-> Inner(Copy({"mtype"}) \o Free({"mtype"}) \o Raise("PD_TRACE"))]

(* The parser.  What a rule makes is the value of its expression, until    *)
(* the rule that it is a part of takes it.                                 *)
Parts == {"part"}
Joined == Own(Parts) \o Free(Parts) \o Copy({"val"})
Lexing ==
  [_PD_lex |-> Inner(Maybe(Void("_PD_next_token"))),
   _PD_next_token |-> Inner(Maybe(Dies))]   \* of blanks alone
_PD_parse      == Inner(Loop(Raise("PD_TRACE") \o Maybe(Void("_PD_lex")) \o Void("_PD_disp_rules")))
_PD_disp_rules ==
  Inner(Either(Void("_PD_do_cast"), Either(Void("_PD_do_deref"), Either(Void("_PD_do_goto"),
        Either(Own(Parts) \o Void("_PD_do_index") \o Free(Parts), Either(Void("_PD_do_member"),
        Either(Joined, Either(Copy({"val"}), Either(Void("_PD_do_digress") \o Copy({"val"}),
        Raise("PD_TRACE")))))))))
    \o Keep({"val"}))

-----------------------------------------------------------------------------
(* Reading (pdrdwr.c)                                                      *)
ReadError == Raise("PD_READ")
Sized(rs, kind) == Demand("_lite_PD_lookup_size", rs, kind)

_lite_PD_indexed_read_as ==
  Entry("PD_READ",
    Own({"ep"}) \o Catch({}) \o Free({"ep"}) \o Demand("_lite_PD_effective_ep", {}, "PD_READ")
    \o Copy({"ep"}) \o Void("lite_PD_hyper_number") \o Call("_lite_PD_hyper_read") \o Free({"ep"}))

(* A part of an array is read by the strides of its dimensions. *)
Strided(kind) == Demand("_PD_compute_hyper_strides", {}, kind) \o Copy({"pi"})
                   \o Sized({}, kind) \o Sized({}, kind)
_lite_PD_hyper_read ==
  Inner(Void("lite_PD_inquire_entry")
    \o Maybe(Call("_lite_PD_rd_syment") \o Done)
    \o ReadError \o Void("lite_SC_lasttok") \o Strided("PD_READ")
    \o Copy({"tep"}) \o Call("_PD_rd_hyper_index") \o Free({"tep", "pi"}))
_PD_rd_hyper_index ==
  Inner(Maybe(Void("_lite_PD_lookup_type"))
    \o Either(Call("_PD_read_hyper_space"), Loop(Call("_PD_rd_hyper_index"))))
_PD_read_hyper_space == Inner(Maybe(Void("_lite_PD_lookup_type")) \o Loop(Call("_lite_PD_rd_syment")))

(* The types of what is read are strings on a stack.  A value that points  *)
(* to others is followed by them.                                          *)
Pushed(ss) == More(ss)
Referring ==
  Maybe(Void("_lite_PD_skip_over")) \o Void("_PD_rd_ind_tags") \o Pushed({"litype", "lotype"})
    \o ReadError \o ReadError
_lite_PD_rd_syment ==
  Inner(ReadError \o Pushed({"lotype"}) \o Sized({}, "PD_READ")
    \o Loop(ReadError \o Pushed({"litype"})
         \o Maybe(Maybe(Void("_PD_rd_leaf_members")) \o ReadError)
         \o Loop(Referring))
    \o Free({"litype", "lotype"}))
LeafReading ==
  [_PD_rd_leaf_members |->
     Inner(Sized({}, "PD_READ")
       \o Either(ReadError \o Copy({"buf"})
                   \o Either(Demand("lite_PD_convert", {}, "PD_READ") \o Free({"buf"}),
                             Free({"buf"}) \o Throw("PD_READ")),
                 ReadError)),
   _PD_rd_ind_tags |->
     Inner(Demand("_lite_PD_rd_itag", {}, "PD_READ") \o Maybe(Done)
       \o Sized({}, "PD_READ") \o Copy({"vr"}) \o Keep({"vr"})
       \o Maybe(ReadError \o ReadError \o Void("_lite_PD_rfgets")))]

HyperNumbers ==
  [lite_PD_hyper_number |-> Inner(Maybe(Void("lite_SC_firsttok")) \o Void("_lite_PD_hyper_number")),
   _lite_PD_hyper_number |-> Inner(Void("_PD_compute_hyper_strides") \o Copy({"pi"}) \o Free({"pi"}))]
_PD_compute_hyper_strides ==
  Inner(Copy({"pi"}) \o Maybe(Dies) \o Loop(Void("lite_SC_firsttok")) \o Keep({"pi"}))

-----------------------------------------------------------------------------
(* Writing *)
WriteError == Raise("PD_WRITE")
_lite_PD_hyper_write ==
  Inner(Maybe(Call("_lite_PD_wr_syment") \o Check({"nitems"}) \o Done)
    \o WriteError \o Void("lite_SC_lasttok") \o Strided("PD_WRITE")
    \o Void("_PD_wr_hyper_index") \o Free({"pi"}))
_PD_wr_hyper_index ==
  Inner(Either(Void("_PD_write_hyper_space"), Loop(Void("_PD_wr_hyper_index"))))
_PD_write_hyper_space == Inner(Loop(WriteError \o Void("_lite_PD_wr_syment")))

(* A pointer is written as a tag, what it points to after it. *)
Referred ==
  Pushed({"litype"})
    \o Loop(Maybe(Demand("_lite_PD_number_refd", {}, "PD_WRITE")
                    \o Void("_PD_wr_ind_itags") \o Pushed({"lotype"})))
_lite_PD_wr_syment ==
  Inner(Pushed({"litype", "lotype"})
    \o Loop(Either(Void("_PD_wr_leaf_members") \o WriteError
                     \o Loop(WriteError \o WriteError \o Pushed({"litype"})),
                   Maybe(Referred)))
    \o Free({"litype", "lotype"}) \o Check({"nitems"}))
_PD_wr_leaf_members ==
  Inner(Sized({}, "PD_WRITE")
    \o Maybe(WriteError \o Copy({"buf"}) \o Demand("lite_PD_convert", {}, "PD_WRITE") \o Free({"buf"}))
    \o WriteError)
_lite_PD_number_refd == Inner(Check({"vr", "nitems"}) \o Must("_lite_PD_lookup_size"))
_PD_wr_ind_itags     == Inner(WriteError)

-----------------------------------------------------------------------------
(* Converting (pdconv.c).  The kind of an error is an argument; the two    *)
(* callers raise it.                                                       *)
lite_PD_convert ==
  Inner(Maybe(Done) \o Check({"idp", "odp"})
    \o Either(Loop(Maybe(Must("_lite_PD_prim_typep")
                            \o Either(Check({"modp", "midp"}) \o Must("_lite_PD_convert"),
                                      Must("lite_PD_convert")))),
              Must("_lite_PD_convert")))
_lite_PD_prim_typep == Inner(Check({"pd"}))
_lite_PD_convert    == Inner(Check({"in_type", "out_type"}) \o Maybe(Check({"out_bytes"})))

-----------------------------------------------------------------------------
LiteData ==
  [_lite_PD_effective_ep |-> _lite_PD_effective_ep, _PD_rl_frames |-> _PD_rl_frames,
   _PD_shift |-> _PD_shift, _PD_reduce |-> _PD_reduce,
   _PD_deref_addr |-> _PD_deref_addr, _PD_index_deref |-> _PD_index_deref,
   _PD_member_deref |-> _PD_member_deref, _PD_parse |-> _PD_parse,
   _PD_disp_rules |-> _PD_disp_rules,
   _lite_PD_indexed_read_as |-> _lite_PD_indexed_read_as,
   _lite_PD_hyper_read |-> _lite_PD_hyper_read,
   _PD_rd_hyper_index |-> _PD_rd_hyper_index,
   _PD_read_hyper_space |-> _PD_read_hyper_space,
   _lite_PD_rd_syment |-> _lite_PD_rd_syment,
   _PD_compute_hyper_strides |-> _PD_compute_hyper_strides,
   _lite_PD_hyper_write |-> _lite_PD_hyper_write,
   _PD_wr_hyper_index |-> _PD_wr_hyper_index,
   _PD_write_hyper_space |-> _PD_write_hyper_space,
   _lite_PD_wr_syment |-> _lite_PD_wr_syment,
   _PD_wr_leaf_members |-> _PD_wr_leaf_members,
   _lite_PD_number_refd |-> _lite_PD_number_refd, _PD_wr_ind_itags |-> _PD_wr_ind_itags,
   lite_PD_convert |-> lite_PD_convert, _lite_PD_prim_typep |-> _lite_PD_prim_typep,
   _lite_PD_convert |-> _lite_PD_convert]
  @@ GotoAndMember @@ DerefAndIndex @@ CastAndDigress @@ SavedStack @@ SkippedOver @@
     Lexing @@ HyperNumbers @@ LeafReading

LiteDataLost ==
  [_lite_PD_effective_ep |-> {"frames", "lex_bf", "stack"}, _PD_reduce |-> {"ep"},
   _PD_disp_rules |-> {"part"}, _lite_PD_indexed_read_as |-> {"ep"},
   _lite_PD_hyper_read |-> {"pi", "tep"},
   _lite_PD_rd_syment |-> {"litype", "lotype"}, _PD_rd_leaf_members |-> {"buf"},
   _lite_PD_hyper_write |-> {"pi"}, _lite_PD_wr_syment |-> {"litype", "lotype"},
   _PD_wr_leaf_members |-> {"buf"}]
LiteDataSilent ==
  {"_PD_deref_addr", "_PD_get_type_member", "_PD_index_deref", "_PD_is_member",
   "_PD_rd_hyper_index", "_PD_rd_ind_tags", "_PD_read_hyper_space",
   "_PD_write_hyper_space", "_lite_PD_effective_ep", "_lite_PD_hyper_read",
   "_lite_PD_hyper_write", "_lite_PD_skip_over"}
=============================================================================
