---- MODULE MCBackEnd ----
EXTENDS Elf, TLC

MCNames == {"main", "f", "g"}
MCDirectImms == -(2^(WordBits - 1))..(2^(WordBits - 1) - 1)
MCNameLen == ("main" :> 2) @@ ("f" :> 1) @@ ("g" :> 1) @@ ("_start" :> 3)
             @@ (".text" :> 1) @@ (".strtab" :> 2) @@ (".shstrtab" :> 3) @@ (".symtab" :> 2)
====
