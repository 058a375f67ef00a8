------------------------------ MODULE LiteCalls ------------------------------
(* Functions of PDB lite (src/src/pdb, src/src/score): files, entries,     *)
(* types, directories, the tables of a file, strings and hash tables.      *)
(* LiteDataCalls has those that trace an expression, read and write.       *)
EXTENDS CallSteps, TLC

FindEntry == "lite_PD_inquire_entry"
Trace   == "_lite_PD_effective_ep"

-----------------------------------------------------------------------------
(* Files (pdb.c)                                                           *)
File == {"file"}
OpenError == RaiseOr(File, "PD_OPEN")

(* The frame closes fp, also when the file was closed with its own.  An    *)
(* error in the format is raised by the function that reads it.            *)
OldStandard == OpenError \o Copy({"std", "align"}) \o Maybe(Copy({"std2"}) \o Free({"std2"}))
                 \o Keep({"std", "align"})
FileHeader == Either(Demand("_lite_PD_rd_format", File, "PD_OPEN"), Either(OldStandard, Free(File) \o Throw("PD_OPEN")))
AttributeTable ==
  Void(FindEntry) \o Maybe(Demand("lite_PD_read", {"file", "fp"}, "PD_OPEN")
    \o Void("_lite_PD_convert_attrtab"))
lite_PD_open ==
  Entry("PD_OPEN",
    Maybe(Call("lite_PD_create") \o Done)
    \o Catch({"fp"})
    \o Either(Raise("PD_OPEN") \o Copy({"fp"}),
              Copy({"fp"}) \o Maybe(Free({"fp"}) \o Call("lite_PD_create") \o Done))
    \o Raise("PD_OPEN")
    \o Demand("_lite_PD_mk_pdb", {}, "PD_OPEN") \o Copy(File)
    \o OpenError \o OpenError \o OpenError \o FileHeader
    \o OpenError \o OpenError \o OpenError \o OpenError \o OpenError
    \o Demand("_lite_PD_rd_symt", File, "PD_OPEN")
    \o Demand("_lite_PD_rd_extras", File, "PD_OPEN")
    \o Void("_lite_PD_init_chrt") \o OpenError
    \o Demand("_lite_PD_rd_chrt", File, "PD_OPEN")
    \o AttributeTable \o RaiseOr({"file", "fp"}, "PD_OPEN")
    \o Keep({"file", "fp"}))

(* Some errors go to the frame of lite_PD_open, which belongs to a call    *)
(* that has ended.                                                         *)
lite_PD_create ==
  Entry("PD_CREATE",
    Catch({"fp"}) \o Raise("PD_CREATE") \o Copy({"fp"}) \o Raise("PD_OPEN")
    \o Demand("_lite_PD_mk_pdb", {}, "PD_OPEN") \o Copy(File)
    \o Copy({"std", "align"}) \o Maybe(Copy({"std2"}) \o Free({"std2"})) \o Keep({"std", "align"})
    \o Raise("PD_CREATE")
    \o Demand("_lite_PD_wr_format", {}, "PD_CREATE") \o Raise("PD_CREATE")
    \o Void("_lite_PD_init_chrt") \o Raise("PD_CREATE")
    \o Void("lite_PD_mkdir") \o Keep({"file", "fp"}))

(* A file that does not close is not released. *)
lite_PD_close ==
  Entry("PD_CLOSE",
    Own({"file", "fp"}) \o Catch({}) \o Maybe(Call("lite_PD_flush")) \o Free({"fp"})
    \o Raise("PD_CLOSE") \o Free(File))
lite_PD_flush ==
  Entry("PD_WRITE",
    Maybe(Done) \o Maybe(Void("lite_PD_cd") \o Must("lite_PD_write"))
    \o Catch({}) \o Raise("PD_WRITE")
    \o Demand("_lite_PD_wr_chrt", {}, "PD_WRITE")
    \o Demand("_lite_PD_wr_symt", {}, "PD_WRITE")
    \o Demand("_lite_PD_wr_extras", {}, "PD_WRITE") \o Raise("PD_WRITE"))

(* What a file is, by its first or its last bytes: no frame is set for the *)
(* errors.                                                                 *)
Identifying ==
  [_lite_PD_identify_version |-> Inner(Check({"s"})),
   _lite_PD_id_file |->
     Inner(Raise("PD_OPEN") \o Must("_lite_PD_rfgets")
       \o Maybe(Raise("PD_OPEN") \o Maybe(Dies))
       \o Call("_lite_PD_identify_version"))]
lite_PD_isfile == Inner(Check({"fname"}) \o Open("fp") \o Call("_lite_PD_id_file") \o Free({"fp"}))

-----------------------------------------------------------------------------
Traced(kind) == Demand(Trace, {}, kind) \o Copy({"ep"})
(* Entries.  ep is a copy that its caller releases.                        *)
Reading ==
  [lite_PD_read |-> Inner(Call("lite_PD_read_as")),
   lite_PD_read_alt |-> Inner(Call("lite_PD_read_as_alt")),
   lite_PD_read_as |->
     Entry("PD_READ",
       Catch({}) \o Traced("PD_READ") \o Call("_lite_PD_hyper_read") \o Free({"ep"})),
   lite_PD_read_as_alt |->
     Entry("PD_READ",
       Catch({}) \o Traced("PD_READ") \o Keep({"ep"}) \o Call("_lite_PD_indexed_read_as"))]

Written == Keep({"dims"}) \o Copy({"ep"}) \o Free({"ep"})
Writing ==
  [lite_PD_write |-> Inner(Call("lite_PD_write_as")),
   lite_PD_write_alt |-> Inner(Call("lite_PD_write_as_alt")),
   lite_PD_write_as |->
     Inner(Void("lite_SC_firsttok") \o Void("_lite_PD_ex_dims") \o Copy({"dims"})
       \o Must("_PD_write") \o Written)]
lite_PD_write_as_alt ==
  Inner(Loop(More({"dims"})) \o MustOr("_PD_write", {"dims"}) \o Written)

(* An entry that is there is written in part, and dims are released; a new *)
(* one is installed first and has them.                                    *)
Appended ==
  Demand(FindEntry, {}, "PD_WRITE") \o Void("_lite_PD_adj_dimensions") \o Void("_lite_PD_add_block")
WritesData ==
  Raise("PD_WRITE") \o Demand("_lite_PD_hyper_write", {}, "PD_WRITE")
_PD_write ==
  Entry("PD_WRITE",
    Catch({}) \o Raise("PD_WRITE") \o Maybe(Appended)
    \o Void(Trace)
    \o Either(Copy({"ep"}) \o Own({"dims"}) \o Free({"dims"}) \o Either(Copy({"ep"}), WritesData),
              Void("_lite_PD_e_install")
                \o Either(Copy({"ep"}), WritesData \o Raise("PD_WRITE") \o Copy({"ep"})))
    \o Keep({"ep"}))

(* The flag says that the next write appends. *)
Appending ==
  [lite_PD_append |-> Inner(Call("lite_PD_write_as")),
   lite_PD_append_alt |-> Inner(Call("lite_PD_write_as_alt")),
   lite_PD_append_as |-> Inner(Call("lite_PD_write_as")),
   lite_PD_append_as_alt |-> Inner(Call("lite_PD_write_as_alt"))]

lite_PD_defent_alt == Inner(Loop(More({"dims"})) \o MustOr("lite_PD_defent", {}) \o Keep({"dims"}))
lite_PD_defent ==
  Entry("PD_WRITE",
    Catch({}) \o Raise("PD_WRITE") \o Raise("PD_WRITE") \o Void(FindEntry)
    \o Either(Copy({"ep"}) \o Keep({"ep"}) \o Void("_lite_PD_e_install") \o Call("_lite_PD_extend_file"),
              Call("_lite_PD_add_block")))

EntryInfo ==
  [lite_PD_query_entry |-> Inner(Call(FindEntry)),
   lite_PD_get_entry_info |-> Inner(Check({"ep"}) \o Copy({"typ", "dims"}) \o Keep({"typ", "dims"})),
   lite_PD_free_entry_info |-> Inner(Own({"typ", "dims"}) \o Free({"typ", "dims"})),
   lite_PD_rel_entry_info |->
     Inner(Own({"ep"}) \o Void("lite_PD_free_entry_info") \o Free({"ep"}))]
(* No function sets the frame for these errors. *)
lite_PD_ln ==
  Inner(Raise("PD_GENERIC") \o Maybe(Must(FindEntry)) \o Must(FindEntry) \o Void("_lite_PD_e_install"))
_lite_PD_alloc_entry == Inner(Either(Copy({"vr"}), Check({"dp"}) \o Copy({"vr"})) \o Keep({"vr"}))

-----------------------------------------------------------------------------
(* Types                                                                   *)
(* The members that were made before one of an unknown type are lost.      *)
MadeMembers == Loop(More({"lst"}) \o Check({"ptype"})) \o Keep({"lst"})
lite_PD_defstr_alt == Inner(MadeMembers \o Demand("_lite_PD_defstr_inst", {}, "PD_GENERIC"))
Structures ==
  [lite_PD_defstr |-> Inner(MadeMembers \o Call("_lite_PD_defstr_inst")),
   lite_PD_cast |->
     Inner(Loop(Check({"contr"})) \o Loop(Copy({"cast_memb"}) \o Keep({"cast_memb"})
                                            \o Void("_lite_PD_member_location")))]
lite_PD_typedef == Inner(Maybe(Void("_lite_PD_d_install")) \o Check({"type"})
                           \o Maybe(Void("_lite_PD_d_install")))
lite_PD_defncv  ==
  Inner(Void("_lite_PD_d_install") \o Void("_lite_PD_d_install"))

-----------------------------------------------------------------------------
(* What the parts of a file are made of and how they are released          *)
(* (pdbmm.c).  A part belongs to whoever asked for it.                     *)
Made(rs)     == Inner(Copy(rs) \o Keep(rs))
Released(rs) == Inner(Own(rs) \o Free(rs))
EachMade(rs) == Inner(Loop(More(rs)) \o Keep(rs))

Standard  == {"std", "float_format", "float_order", "double_format", "double_order"}
Entry1    == {"ep", "blocks", "type"}
MemberParts    == {"desc", "member", "type", "base_type", "name", "dims"}
FileParts == {"date", "std", "host_std", "align", "host_align", "previous_file", "current_prefix",
              "type", "name", "file"}
Shared    == {"lite_LAST", "lite_PD_DEFSTR_S", "lite_PD_SYMENT_S"}

FilesMade ==
  [_lite_PD_mk_pdb |->
     Inner(Open("file") \o Copy({"name", "host_std", "host_align"})
       \o Void("lite_SC_make_hash_table") \o Keep({"file", "name", "host_std", "host_align"})),
   (* The names that all files share go with one of them. *)
   _lite_PD_rl_pdb |->
     Inner(Own(FileParts) \o Maybe(Void("_lite_PD_clr_table")) \o Void("_lite_PD_clr_table")
       \o Own(Shared) \o Free(Shared) \o Free(FileParts)),
   _lite_PD_clr_table |->
     Inner(Loop(Own({"name", "hp"}) \o Void("_lite_PD_rl_syment_d") \o Void("_lite_PD_rl_defstr")
              \o Free({"name", "hp"}))
       \o Void("lite_SC_rl_hash_table"))]

Standards ==
  [_lite_PD_mk_standard |-> Made({"std"}),
   _lite_PD_copy_standard |-> Made(Standard),
   _lite_PD_rl_standard |-> Inner(Maybe(Own(Standard) \o Free(Standard)))]
Alignments ==
  [_lite_PD_mk_alignment |-> Made({"align"}),
   _lite_PD_copy_alignment |-> Made({"align"}),
   _lite_PD_rl_alignment |-> Inner(Maybe(Own({"align"}) \o Free({"align"})))]

lite_PD_copy_dims       == EachMade({"dims"})

SymbolEntries ==
  [lite_PD_copy_syment |-> Inner(Check({"osym"}) \o Copy(Entry1 \cup {"dims"}) \o Keep(Entry1 \cup {"dims"})),
   _lite_PD_mk_syment |-> Made(Entry1),
   _lite_PD_rl_syment |-> Released(Entry1),
   _lite_PD_rl_syment_d |-> Inner(Check({"ep"}) \o Own(Entry1 \cup {"dims"}) \o Free(Entry1 \cup {"dims"}))]

TypeParts ==
  [_lite_PD_mk_defstr |-> Made({"dp", "type"}),
   (* An order or a format of a standard is not the type's own. *)
   _lite_PD_rl_defstr |->
     Inner(Loop(Void("_lite_PD_rl_descriptor")) \o Maybe(Own({"order"}) \o Free({"order"}))
       \o Maybe(Own({"format"}) \o Free({"format"})) \o Own({"type", "dp"}) \o Free({"type", "dp"})),
   lite_PD_copy_members |-> EachMade(MemberParts \cup {"cast_memb"})]
DescriptorParts ==
  [_lite_PD_mk_dimensions |-> Made({"dims"}),
   (* One that is shared stays, and so do those behind it. *)
   _lite_PD_rl_dimensions |-> Inner(Loop(Own({"dims"}) \o Free({"dims"}) \o Maybe(Done))),
   _lite_PD_mk_descriptor |-> Made(MemberParts),
   _lite_PD_rl_descriptor |-> Released(MemberParts \cup {"cast_memb"})]

-----------------------------------------------------------------------------
(* Members and the entries of the symbol table (pdmemb.c)                  *)
NameToken == Void("lite_SC_firsttok") \o Copy({"token"}) \o Keep({"token"})
MemberNames ==
  [_lite_PD_member_type |-> Made({"bf"}),
   _lite_PD_member_base_type |-> Inner(NameToken),
   _lite_PD_member_name |-> Inner(NameToken),
   (* Where a dimension is empty there are none; those before it are lost. *)
   _lite_PD_ex_dims |->
     Inner(Loop(Void("lite_SC_firsttok") \o Check({"leng"}) \o More({"dims"})) \o Keep({"dims"}))]
_lite_PD_member_items    == Inner(Loop(Check({"acc"})))
Sizes ==
  [_lite_PD_str_size |-> Inner(Loop(Must("_lite_PD_lookup_size") \o Must("_lite_PD_align"))),
   _lite_PD_align |-> Inner(Maybe(Done) \o Check({"dp"})),
   _lite_PD_lookup_type |-> Inner(Must("lite_SC_def_lookup")),
   _lite_PD_lookup_size |-> Inner(Must("lite_SC_def_lookup"))]
_lite_PD_member_location ==
  Inner(Loop(Maybe(Maybe(Void("lite_SC_firsttok") \o Maybe(Done)))) \o Refuse)
(* A name may be in the table with the root or without it. *)
lite_PD_inquire_entry ==
  Inner(Either(Must("lite_SC_def_lookup"),
               Void("lite_SC_def_lookup") \o Must("lite_SC_def_lookup")))
_lite_PD_rd_itag ==
  Inner(Void("_lite_PD_rfgets") \o Check({"nitems", "type"}))
_lite_PD_adj_dimensions ==
  Inner(Loop(Raise("PD_WRITE")) \o Raise("PD_WRITE"))

-----------------------------------------------------------------------------
(* Directories (pdbdir.c), attributes (pdbx.c) and streams (pdbio.c)       *)
lite_PD_cd ==
  Inner(Check({"file"}) \o Either(Must(FindEntry), Void(FindEntry) \o Must(FindEntry))
    \o Check({"type"})
    \o Own({"prefix"}) \o Free({"prefix"}) \o Copy({"prefix"}) \o Keep({"prefix"}))
(* The second time, for what is at the root, is without the root. *)
lite_PD_ls ==
  Inner(Check({"file", "num", "nelements"}) \o Copy({"outlist"})
    \o Loop(Void("lite_SC_hash_dump") \o Copy({"varlist"})
               \o Maybe(Void(FindEntry) \o Free({"varlist"})))
    \o Keep({"outlist"}))
lite_PD_pwd == Inner(Check({"file"}))
lite_PD_mkdir ==
  Inner(Check({"file", "dirname"}) \o Maybe(Must("lite_PD_defncv") \o Must("lite_PD_write"))
    \o Maybe(Void(FindEntry) \o Refuse) \o Maybe(Must(FindEntry))
    \o Must("lite_PD_write"))

Attributes ==
  [lite_PD_get_attribute |-> Inner(Check({"attr", "avl", "data"})),
   _lite_PD_convert_attrtab |->
     Inner(Maybe(Done)
       \o Loop(Copy({"np"}) \o Keep({"np"}) \o Own({"onp"}) \o Free({"onp"}))
       \o Void("_lite_PD_rl_defstr") \o Void("lite_SC_hash_rem")
       \o Demand("lite_PD_defstr", {}, "PD_OPEN") \o Void("lite_PD_cast"))]
Streams ==
  [_lite_PD_pio_close |-> Inner(Check({"stream"}) \o Own({"fp"}) \o Free({"fp"})),
   _lite_PD_pio_seek |-> Inner(Check({"stream", "addr"}))]

-----------------------------------------------------------------------------
(* The header and the tables of a file (pdlow.c).  The table under way is *)
(* in a buffer that all files share.                                       *)
Buffer == {"_lite_PD_tbuffer"}
Order  == {"float_order", "double_order", "float_format", "double_format"}

_lite_PD_rd_format ==
  Inner(Raise("PD_OPEN") \o Copy({"std"} \cup Order)
    \o Demand("_lite_PD_rfgets", {}, "PD_OPEN") \o Keep({"std"} \cup Order))
_lite_PD_wr_format   == Inner(Raise("PD_CREATE") \o Raise("PD_CREATE"))
_lite_PD_compare_std == Inner(Check({"a", "b"}))
_lite_PD_rfgets      == Inner(Call("_PD_get_tok"))
_PD_get_tok          == Inner(Check({"nb"}))
_PD_get_token        == Inner(Check({"c"}))

(* The dimensions of an entry that the program does not want are lost. *)
_lite_PD_rd_symt ==
  Inner(Copy(Buffer) \o Check({"numb"})
    \o Loop(Loop(More({"dims"})) \o Maybe(Keep({"dims"}) \o Void("_lite_PD_e_install")))
    \o Keep(Buffer))

(* The third name of a cast is the member's when there is that member. *)
CastNames == {"cast_lst", "types", "members", "cast_lst_cpy", "types_cpy", "members_cpy"}
Controls  == {"controllers"}
ChartReading ==
  [_lite_PD_rd_chrt |->
     Inner(Copy(Buffer) \o Check({"chrt_sz"})
       \o Loop(Loop(More({"lst"})) \o Keep({"lst"}) \o Void("_lite_PD_defstr_inst"))
       \o Maybe(Void("lite_PD_defncv"))
       \o Copy(CastNames \cup Controls) \o Void("_lite_PD_check_casts") \o Maybe(Keep(Controls))
       \o Free(CastNames) \o Free(Buffer)),
   _lite_PD_check_casts |-> Inner(Loop(Void("_lite_PD_member_location")))]

(* What follows the symbol table, in the order in which it stands in the   *)
(* file                                                                    *)
Extras ==
  Either(Check({"token"}) \o Copy({"pa"}),                             \* Alignment
  Either(Maybe(Dies),                                                   \* Struct-Alignment
  Either(Check({"pa"}),                                                 \* Longlong-Format-Alignment
  Either(Copy({"casts"}) \o Loop(More({"casts"})) \o Keep({"casts"}), \* Casts
  Either(Loop(Void("lite_PD_inquire_entry") \o Maybe(Dies)),          \* Blocks
  Either(Void("_lite_PD_rd_prim_extras"),                               \* Primitive-Types
         Copy({"name"}) \o Keep({"name"})))))))                        \* Previous-File, Version
_lite_PD_rd_extras ==
  Inner(Own(Buffer) \o Loop(Void("_PD_get_token") \o Extras) \o Copy({"pa2"}) \o Keep({"pa", "pa2"})
    \o Free(Buffer))
_lite_PD_rd_prim_extras ==
  Inner(Loop(Copy({"type"}) \o Maybe(Dies) \o Copy({"ordr", "formt"}) \o Keep({"ordr", "formt"})
               \o Free({"type"})))

(* An entry of that name is released: its memory twice, as the table has   *)
(* done so before.                                                         *)
Installing ==
  [_lite_PD_e_install |->
     Inner(Void("lite_SC_def_lookup") \o Maybe(Void("lite_SC_hash_rem") \o Void("_lite_PD_rl_syment_d"))
       \o Void("lite_SC_install")),
   _lite_PD_d_install |->
     Inner(Maybe(Void("lite_SC_hash_rem") \o Void("_lite_PD_rl_defstr")) \o Void("lite_SC_install")),
   _lite_PD_defstr |-> Inner(Void("_lite_PD_d_install"))]
(* The members of a type that is known are lost; the size of one with a    *)
(* member of an unknown type is not looked at.                             *)
_lite_PD_defstr_inst ==
  Inner(Check({"desc"}) \o Own({"desc"}) \o Maybe(Done)
    \o Void("_lite_PD_str_size") \o Keep({"desc"}) \o Void("_lite_PD_d_install")
    \o Copy({"copy"}) \o Void("_lite_PD_str_size") \o Keep({"copy"}) \o Void("_lite_PD_d_install"))


_lite_PD_init_chrt ==
  Inner(Maybe(Copy(Shared) \o Keep(Shared)) \o Void("_lite_PD_setup_chart")
    \o Void("lite_PD_typedef") \o Void("lite_PD_defncv"))
_lite_PD_setup_chart == Inner(Void("_lite_PD_defstr"))

(* A block at the end of the file for the entry *)
_lite_PD_add_block ==
  Inner(Demand("_PD_consistent_dims", {}, "PD_WRITE") \o Own({"sp"}) \o Free({"sp"})
    \o Copy({"sp"}) \o Keep({"sp"}) \o Void("_lite_PD_lookup_size") \o Call("_lite_PD_extend_file"))
_PD_consistent_dims   == Inner(Loop(Check({"od", "nd"})) \o Check({"order", "index_min"}))
_lite_PD_extend_file  == Inner(Check({"fseek", "nb"}))

(* Tables are put together in the buffer; whether it could be written is   *)
(* not looked at.                                                          *)
Restarts == Maybe(Own(Buffer) \o Free(Buffer))
TableWriting ==
  [_lite_PD_wr_chrt |->
     Inner(Check({"addr"}) \o Restarts \o Void("_PD_put_string") \o Own(Buffer) \o Free(Buffer)),
   _lite_PD_wr_symt |->
     Inner(Check({"addr"}) \o Restarts \o Loop(Check({"nb"}) \o Void("_PD_put_string")))]
_lite_PD_wr_extras ==
  Inner(Check({"al"}) \o Void("_lite_PD_wr_prim_extras") \o Own(Buffer) \o Free(Buffer))
TextPutting ==
  [_PD_put_string |->
     Inner(Maybe(Copy(Buffer) \o Keep(Buffer))
       \o Maybe(Own(Buffer) \o Free(Buffer) \o Copy(Buffer) \o Keep(Buffer))),
   _lite_PD_wr_prim_extras |-> Inner(Loop(Void("_PD_put_string")))]

-----------------------------------------------------------------------------
(* Memory and strings (scctla.c, scctl.c, scstr.c).  A block has its       *)
(* length and the number of its users before it.                           *)
Allocation ==
  [lite_SC_alloc |-> Inner(Check({"nb"}) \o Must("_SC_prim_alloc") \o Copy({"space"}) \o Keep({"space"})),
   (* The block is copied before it is known whether there is memory. *)
   lite_SC_realloc |->
     Inner(Check({"p", "space", "nb"}) \o Void("_SC_prim_alloc") \o Maybe(Dies)
       \o Own({"space"}) \o Free({"space"}) \o Copy({"tmp"}) \o Keep({"tmp"}))]
BlockUse ==
  [lite_SC_free |->
     Inner(Maybe(Done) \o Check({"space"}) \o Maybe(Done) \o Own({"space"}) \o Free({"space"})),
   lite_SC_arrlen |-> Inner(Check({"p", "space", "nb"})),
   lite_SC_mark |-> Inner(Check({"p", "space"})),
   lite_SC_ref_count |-> Inner(Check({"p", "space"}))]
Primitive ==
  [_SC_prim_alloc |-> Inner(Check({"nbp"}) \o Open("p") \o Keep({"p"})),
   _SC_prim_free |-> Inner(Maybe(Done) \o Own({"p"}) \o Free({"p"}))]

Texts ==
  [lite_SC_strsavef |-> Inner(Check({"s"}) \o Open("p") \o Keep({"p"})),
   lite_SC_strrev |-> Inner(Open("t") \o Free({"t"})),
   lite_SC_firsttok |-> Inner(Maybe(Done))]   \* NULL says that there is no more
LastTokens ==
  [_lite_SC_pr_tok |-> Inner(Check({"s"}) \o Maybe(Void("lite_SC_firsttok"))),
   lite_SC_lasttok |-> Inner(Void("lite_SC_strrev") \o Void("_lite_SC_pr_tok") \o Call("lite_SC_strrev"))]
lite_SC_regx_match ==
  Inner(Maybe(Done)
    \o Loop(Either(Loop(Void("lite_SC_regx_match") \o Maybe(Done)) \o Done,
             Either(Void("lite_SC_regx_match") \o Done, Maybe(Done)))))
SystemAsked ==
  [lite_SC_date |-> Inner(Must("lite_SC_strsavef")),
   lite_SC_isfile |-> Inner(Check({"statval", "st_mode"}))]
_lite_SC_strtol == Inner(Check({"base", "c"}))

(* Hash tables (schash.c) *)
HashEntries ==
  [lite_SC_lookup |-> Inner(Check({"tab", "np"})),
   lite_SC_def_lookup |-> Inner(Check({"tab"}) \o Must("lite_SC_lookup")),
   lite_SC_install |-> Inner(Call("_lite_SC_install")),
   _lite_SC_install |->
     Inner(Void("lite_SC_lookup")
       \o Maybe(Open("np") \o Must("lite_SC_strsavef") \o Copy({"name"}) \o Keep({"np", "name"})))]
Element == {"def", "name", "np"}
HashTables ==
  [lite_SC_hash_rem |-> Inner(Check({"np"}) \o Own(Element) \o Free(Element)),
   lite_SC_hash_clr |-> Inner(Loop(Own(Element) \o Free(Element))),
   lite_SC_make_hash_table |-> Inner(Open("tab") \o Open("tb") \o Keep({"tab", "tb"}))]
HashDumping ==
  [lite_SC_rl_hash_table |->
     Inner(Void("lite_SC_hash_clr") \o Own({"table", "tab"}) \o Free({"table", "tab"})),
   lite_SC_hash_dump |-> Inner(Call("lite_SC_dump_hash")),
   lite_SC_dump_hash |->
     Inner(Check({"tab"}) \o Open("lineptr") \o Check({"nlines"}) \o Keep({"lineptr"}))]

-----------------------------------------------------------------------------
Lite ==
  [lite_PD_open |-> lite_PD_open, lite_PD_create |-> lite_PD_create,
   lite_PD_close |-> lite_PD_close, lite_PD_flush |-> lite_PD_flush,
   lite_PD_isfile |-> lite_PD_isfile, lite_PD_write_as_alt |-> lite_PD_write_as_alt,
   _PD_write |-> _PD_write, lite_PD_defent_alt |-> lite_PD_defent_alt,
   lite_PD_defent |-> lite_PD_defent, lite_PD_ln |-> lite_PD_ln,
   _lite_PD_alloc_entry |-> _lite_PD_alloc_entry,
   lite_PD_defstr_alt |-> lite_PD_defstr_alt, lite_PD_typedef |-> lite_PD_typedef,
   lite_PD_defncv |-> lite_PD_defncv, lite_PD_copy_dims |-> lite_PD_copy_dims,
   _lite_PD_member_items |-> _lite_PD_member_items,
   _lite_PD_member_location |-> _lite_PD_member_location,
   lite_PD_inquire_entry |-> lite_PD_inquire_entry,
   _lite_PD_rd_itag |-> _lite_PD_rd_itag,
   _lite_PD_adj_dimensions |-> _lite_PD_adj_dimensions, lite_PD_cd |-> lite_PD_cd,
   lite_PD_ls |-> lite_PD_ls, lite_PD_pwd |-> lite_PD_pwd,
   lite_PD_mkdir |-> lite_PD_mkdir, _lite_PD_rd_format |-> _lite_PD_rd_format,
   _lite_PD_wr_format |-> _lite_PD_wr_format,
   _lite_PD_compare_std |-> _lite_PD_compare_std, _lite_PD_rfgets |-> _lite_PD_rfgets,
   _PD_get_tok |-> _PD_get_tok, _PD_get_token |-> _PD_get_token,
   _lite_PD_rd_symt |-> _lite_PD_rd_symt, _lite_PD_rd_extras |-> _lite_PD_rd_extras,
   _lite_PD_rd_prim_extras |-> _lite_PD_rd_prim_extras,
   _lite_PD_defstr_inst |-> _lite_PD_defstr_inst,
   _lite_PD_init_chrt |-> _lite_PD_init_chrt,
   _lite_PD_setup_chart |-> _lite_PD_setup_chart,
   _lite_PD_add_block |-> _lite_PD_add_block,
   _PD_consistent_dims |-> _PD_consistent_dims,
   _lite_PD_extend_file |-> _lite_PD_extend_file,
   _lite_PD_wr_extras |-> _lite_PD_wr_extras, lite_SC_regx_match |-> lite_SC_regx_match,
   _lite_SC_strtol |-> _lite_SC_strtol]
  @@ Reading @@ Writing @@ Structures @@ Appending @@ EntryInfo @@ Identifying @@
     Streams @@ FilesMade @@ Standards @@ Alignments @@ SymbolEntries @@ TypeParts @@
     DescriptorParts @@ Attributes @@ ChartReading @@ Installing @@ TableWriting @@
     TextPutting @@ MemberNames @@ Sizes @@ SystemAsked @@ Allocation @@ BlockUse @@
     Primitive @@ Texts @@ LastTokens @@ HashEntries @@ HashTables @@ HashDumping

LiteLost ==
  [lite_PD_open |-> {"file", "fp"}, lite_PD_create |-> {"file", "fp"},
   lite_PD_close |-> {"file", "fp"}, lite_PD_isfile |-> {"fp"},
   lite_PD_read_as |-> {"ep"}, lite_PD_write_as |-> {"dims"},
   lite_PD_write_as_alt |-> {"dims"}, _PD_write |-> {"ep"},
   lite_PD_defent_alt |-> {"dims"}, lite_PD_defstr_alt |-> {"lst"},
   _lite_PD_ex_dims |-> {"dims"}, lite_PD_ls |-> {"varlist"},
   _lite_PD_rd_format |-> {"double_format", "double_order", "float_format",
   "float_order", "std"}, _lite_PD_rd_symt |-> {"_lite_PD_tbuffer", "dims"},
   _lite_PD_rd_chrt |-> {"_lite_PD_tbuffer", "controllers"},
   _lite_PD_rd_extras |-> {"_lite_PD_tbuffer", "pa"},
   _lite_PD_defstr_inst |-> {"desc"}, lite_SC_make_hash_table |-> {"tab"},
   lite_PD_defstr |-> {"lst"}, lite_SC_dump_hash |-> {"lineptr"},
   _lite_SC_install |-> {"np"}]
LiteSilent ==
  {"_PD_write", "_lite_PD_add_block", "_lite_PD_check_casts", "_lite_PD_clr_table",
   "_lite_PD_convert_attrtab", "_lite_PD_d_install", "_lite_PD_defstr_inst",
   "_lite_PD_e_install", "_lite_PD_init_chrt", "_lite_PD_mk_pdb",
   "_lite_PD_rd_chrt", "_lite_PD_rd_extras", "_lite_PD_rd_itag",
   "_lite_SC_install", "lite_PD_cast", "lite_PD_cd", "lite_PD_create",
   "lite_PD_defent", "lite_PD_flush", "lite_PD_inquire_entry", "lite_PD_ls",
   "lite_PD_open", "lite_PD_write_as", "lite_SC_lasttok", "lite_SC_realloc"}
=============================================================================
