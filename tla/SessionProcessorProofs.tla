----------------------- MODULE SessionProcessorProofs -----------------------
(* Theorems about SessionProcessor, for every number of sessions, blocks,  *)
(* runs and crashes.                                                       *)
EXTENDS SessionProcessor, SequenceTheorems, TLAPS

-----------------------------------------------------------------------------
(* The inductive invariant.                                                *)

SemBlocos == {"nenhuma", "limpar", "marcar"}            \* before the loop
NoLaco    == {"bloco", "transcrever"}                   \* at the loop of the blocks
Adiante   == {"parte", "mapear", "reduzir", "resumir",  \* past it
              "artefatos", "todos", "concluir"}
Acabou    == {"pronta", "falhou", "erro", "fim", "morta"}

\* A segment belongs to a run that has got to its loop.
Donos ==
    \A s \in Sessoes : \A k \in DOMAIN banco[s].segmentos :
        execucao[banco[s].segmentos[k].execucao].fase \notin SemBlocos

\* Where a run is in the loop of the blocks, and what is in the database then.
LacoDe(r) ==
    LET e == execucao[r]
    IN  /\ e.transcritos <= e.total
        /\ e.fase \in SemBlocos => e.transcritos = 0
        /\ e.fase = "transcrever" => e.transcritos < e.total
        /\ e.fase = "gravar" => /\ e.transcritos >= 1
                                /\ Guardados(r) = 1..(e.transcritos - 1)
        /\ e.fase \in NoLaco => Guardados(r) = 1..e.transcritos
        /\ e.fase \in Adiante => /\ e.transcritos = e.total
                                 /\ Guardados(r) = 1..e.total

\* What the database holds of a run is in order, and complete but for one block.
SalvosDe(r) ==
    LET e == execucao[r]
    IN  /\ \A j, k \in Meus(r) :
               j < k => Segmentos(r)[j].bloco < Segmentos(r)[k].bloco
        /\ \/ Guardados(r) = 1..e.transcritos
           \/ /\ Guardados(r) = 1..(e.transcritos - 1)
              /\ e.fase \in {"gravar", "morta"} \/ e.banco_falhou

\* The artifacts and tasks are stored before the run concludes.
ColheitaDe(r) ==
    LET e == execucao[r]
    IN  /\ e.tarefas => e.mapeadas > 0
        /\ e.fase \in SemBlocos \cup NoLaco \cup {"gravar"} => e.mapeadas = 0
        /\ e.fase = "todos" => r \in banco[e.sessao].artefatos
        /\ e.fase = "concluir" \/ e.gravou = "done" =>
              /\ e.mapeadas > 0 => r \in banco[e.sessao].artefatos
              /\ e.tarefas => r \in banco[e.sessao].todos

\* The last status a run has stored agrees with where it is.
DesfechoDe(r) ==
    LET e == execucao[r]
    IN  /\ e.fase = "nenhuma" => e.gravou = "nada"
        /\ e.fase \notin Acabou => e.gravou \notin {"done", "failed"}
        /\ e.fase = "pronta" => e.gravou = "done"
        /\ e.fase = "falhou" => e.gravou = "failed"
        /\ e.fase = "erro" => e.gravou \notin {"done", "failed"} /\ e.banco_falhou
        /\ e.fase = "fim" => /\ e.aviso = "done" <=> e.gravou = "done"
                             /\ e.gravou \in {"done", "failed"} \/ e.banco_falhou
        /\ e.gravou = "done" => Guardados(r) = 1..e.total

\* No other run has taken the session up.
Sozinha(r) ==
    \A q \in Execucoes \ {r} : Fase(q, "nenhuma") \/ execucao[q].sessao # execucao[r].sessao

\* Then the session has the last status the run stored.
StatusDe(r) ==
    Sozinha(r) /\ execucao[r].gravou # "nada" =>
        banco[execucao[r].sessao].status = execucao[r].gravou

\* A call is begun with the event off; once it is off, nothing has been counted.
ParadaDe(r) ==
    LET e == execucao[r]
    IN  /\ e.ligadas <= 1
        /\ e.fase \in {"nenhuma", "transcrever", "mapear", "resumir"} => e.ligadas = 0
        /\ ~cancel_event /\ e.fase \notin {"fim", "morta"} => e.ligadas = 0

IInvDe(r) == /\ LacoDe(r) /\ SalvosDe(r)
             /\ ColheitaDe(r) /\ DesfechoDe(r) /\ StatusDe(r)
             /\ ParadaDe(r)

IInv == TypeOK /\ Donos /\ \A r \in Execucoes : IInvDe(r)

-----------------------------------------------------------------------------
(* Lemmas: what a step of one run leaves alone.                            *)

\* The record of run r is replaced by c, the others stay.
LEMMA VaiMuda ==
    ASSUME execucao \in [Execucoes -> Registros],
           NEW r \in Execucoes, NEW c \in Registros, Vai(r, c)
    PROVE  /\ execucao' \in [Execucoes -> Registros]
           /\ execucao'[r] = c
           /\ \A q \in Execucoes \ {r} : execucao'[q] = execucao[q]
  BY DEF Vai

\* Segments are read from the rows of the run's session only.
LEMMA MesmosSegmentos ==
    ASSUME NEW q, execucao'[q].sessao = execucao[q].sessao,
           banco'[execucao[q].sessao].segmentos = banco[execucao[q].sessao].segmentos
    PROVE  /\ Segmentos(q)' = Segmentos(q)
           /\ Meus(q)' = Meus(q)
           /\ Guardados(q)' = Guardados(q)
  <1>1. Segmentos(q)' = Segmentos(q)
    BY DEF Segmentos
  <1>2. Meus(q)' = Meus(q)
    BY <1>1 DEF Meus
  <1> QED
    BY <1>1, <1>2 DEF Guardados

\* A run whose record stays, and whose rows another run has only added to.
LEMMA OutraFica ==
    ASSUME TypeOK, TypeOK', NEW r \in Execucoes, NEW q \in Execucoes \ {r}, IInvDe(q),
           execucao'[q] = execucao[q],
           ~Fase(r, "nenhuma")',
           cancel_event' = cancel_event,
           \A k \in Meus(q) : Segmentos(q)'[k] = Segmentos(q)[k],
           Meus(q)' = Meus(q),
           Guardados(q)' = Guardados(q),
           banco[execucao[q].sessao].artefatos \subseteq banco'[execucao[q].sessao].artefatos,
           banco[execucao[q].sessao].todos \subseteq banco'[execucao[q].sessao].todos,
           \/ banco'[execucao[q].sessao].status = banco[execucao[q].sessao].status
           \/ execucao'[r].sessao = execucao[q].sessao,
           \A p \in Execucoes : Fase(p, "nenhuma") \/ execucao'[p].sessao = execucao[p].sessao,
           \A p \in Execucoes : Fase(p, "nenhuma")' => Fase(p, "nenhuma")
    PROVE  IInvDe(q)'
  <1>1. LacoDe(q)'
    BY DEF IInvDe, LacoDe
  <1>2. SalvosDe(q)'
    <2>1. \A j, k \in Meus(q)' : j < k => Segmentos(q)'[j].bloco < Segmentos(q)'[k].bloco
      BY DEF IInvDe, SalvosDe
    <2> QED
      BY <2>1 DEF IInvDe, SalvosDe
  <1>3. ColheitaDe(q)'
    BY DEF IInvDe, ColheitaDe
  <1>4. DesfechoDe(q)'
    BY DEF IInvDe, DesfechoDe
  <1>5. StatusDe(q)'
    <2> SUFFICES ASSUME Sozinha(q)', execucao[q].gravou # "nada"
                 PROVE  banco'[execucao[q].sessao].status = execucao[q].gravou
      BY DEF StatusDe
    <2>1. Sozinha(q)
      BY DEF Sozinha, Fase
    <2>2. execucao'[r].sessao # execucao[q].sessao
      BY DEF Sozinha
    <2> QED
      BY <2>1, <2>2 DEF IInvDe, StatusDe
  <1>6. ParadaDe(q)'
    BY DEF IInvDe, ParadaDe
  <1> QED
    BY <1>1, <1>2, <1>3, <1>4, <1>5, <1>6 DEF IInvDe

\* The run named in a segment is a run.
LEMMA DonoDoSegmento ==
    ASSUME TypeOK, NEW s \in Sessoes, NEW k \in DOMAIN banco[s].segmentos
    PROVE  banco[s].segmentos[k].execucao \in Execucoes
  <1> DEFINE S == banco[s].segmentos
             T == [execucao : Execucoes, bloco : Nat]
  <1>1. S \in Seq(T)
    BY DEF TypeOK, Linhas
  <1>2. k \in 1..Len(S)
    BY <1>1, LenProperties
  <1> HIDE DEF S, T
  <1>3. S[k] \in T
    BY <1>1, <1>2, ElementOfSeq
  <1> QED
    BY <1>3 DEF S, T

\* Run r writes to the rows of its session: a new status, artifacts or tasks.
Escreve(r) ==
    LET s == execucao[r].sessao
    IN  /\ banco' \in [Sessoes -> Linhas]
        /\ \A t \in Sessoes \ {s} : banco'[t] = banco[t]
        /\ banco'[s].segmentos = banco[s].segmentos
        /\ banco[s].artefatos \subseteq banco'[s].artefatos
        /\ banco[s].todos \subseteq banco'[s].todos

LEMMA NaoEscreve ==
    ASSUME TypeOK, NEW r \in Execucoes, UNCHANGED banco
    PROVE  Escreve(r) /\ banco'[execucao[r].sessao].status = banco[execucao[r].sessao].status
  BY DEF TypeOK, Escreve

\* Run r goes on from its record to c.
Segue(r, c) ==
    /\ c.sessao = execucao[r].sessao
    /\ c.fase # "nenhuma"
    /\ c.fase \in SemBlocos => execucao[r].fase \in SemBlocos
    /\ ~Fase(r, "nenhuma")

\* What is left to show is what the invariant says of r itself.
LEMMA SoAExecucao ==
    ASSUME IInv, NEW r \in Execucoes, NEW c \in Registros,
           Vai(r, c), Segue(r, c), Escreve(r), UNCHANGED <<cancel_event, quedas>>
    PROVE  /\ TypeOK'
           /\ Donos'
           /\ \A q \in Execucoes \ {r} : IInvDe(q)'
           /\ execucao'[r] = c
           /\ Segmentos(r)' = Segmentos(r)
           /\ Meus(r)' = Meus(r)
           /\ Guardados(r)' = Guardados(r)
           /\ Sozinha(r)' => Sozinha(r)
  <1>1. /\ execucao' \in [Execucoes -> Registros]
        /\ execucao'[r] = c
        /\ \A q \in Execucoes \ {r} : execucao'[q] = execucao[q]
    BY VaiMuda DEF IInv, TypeOK
  <1>2. TypeOK'
    BY <1>1 DEF IInv, TypeOK, Escreve
  <1>3. Donos'
    <2> SUFFICES ASSUME NEW s \in Sessoes, NEW k \in DOMAIN banco'[s].segmentos
                 PROVE  execucao'[banco'[s].segmentos[k].execucao].fase \notin SemBlocos
      BY DEF Donos
    <2>0. banco'[s].segmentos = banco[s].segmentos
      BY DEF Escreve
    <2> DEFINE d == banco[s].segmentos[k].execucao
    <2>1. d \in Execucoes
      BY <2>0, DonoDoSegmento DEF IInv
    <2>2. execucao[d].fase \notin SemBlocos
      BY <2>0 DEF IInv, Donos
    <2> QED
      BY <1>1, <2>0, <2>1, <2>2 DEF Segue
  <1>4. \A p \in Execucoes : execucao'[p].sessao = execucao[p].sessao
    BY <1>1 DEF Segue
  <1>5. \A p \in Execucoes : Fase(p, "nenhuma")' => Fase(p, "nenhuma")
    BY <1>1 DEF Segue, Fase
  <1>6. \A p \in Execucoes :
           /\ banco'[execucao[p].sessao].segmentos = banco[execucao[p].sessao].segmentos
           /\ banco[execucao[p].sessao].artefatos \subseteq banco'[execucao[p].sessao].artefatos
           /\ banco[execucao[p].sessao].todos \subseteq banco'[execucao[p].sessao].todos
           /\ \/ banco'[execucao[p].sessao].status = banco[execucao[p].sessao].status
              \/ execucao[r].sessao = execucao[p].sessao
    <2> TAKE p \in Execucoes
    <2>1. execucao[p].sessao \in Sessoes
      BY DEF IInv, TypeOK, Registros
    <2> QED
      BY <2>1 DEF Escreve
  <1>7. \A p \in Execucoes : /\ Segmentos(p)' = Segmentos(p)
                             /\ Meus(p)' = Meus(p)
                             /\ Guardados(p)' = Guardados(p)
    BY <1>4, <1>6, MesmosSegmentos
  <1>8. \A q \in Execucoes \ {r} : IInvDe(q)'
    <2> TAKE q \in Execucoes \ {r}
    <2>1. IInvDe(q) /\ TypeOK
      BY DEF IInv
    <2>2. ~Fase(r, "nenhuma")'
      BY <1>1 DEF Segue, Fase
    <2>3. execucao'[r].sessao = execucao[r].sessao
      BY <1>4
    <2> QED
      BY <1>1, <1>2, <1>4, <1>5, <1>6, <1>7, <2>1, <2>2, <2>3, OutraFica
  <1>9. Sozinha(r)' => Sozinha(r)
    BY <1>4, <1>5 DEF Sozinha
  <1> QED
    BY <1>1, <1>2, <1>3, <1>7, <1>8, <1>9

\* A run that has not ended goes on, without writing, from its record e to c.
Avanca(r, c) ==
    LET e == execucao[r]
    IN  /\ c.sessao = e.sessao /\ c.total = e.total
        /\ c.transcritos = e.transcritos /\ c.gravou = e.gravou
        /\ e.fase \notin {"nenhuma"} \cup Acabou
        /\ c.fase \notin SemBlocos \cup {"gravar", "todos"}
        /\ c.fase \in NoLaco => e.fase \in NoLaco /\ c.mapeadas = e.mapeadas
        /\ c.fase = "transcrever" => e.transcritos < e.total
        /\ c.fase \in Adiante => /\ e.fase \in NoLaco \cup Adiante
                                 /\ e.transcritos = e.total
        /\ e.fase = "gravar" \/ e.banco_falhou => c.banco_falhou
        /\ c.fase \in Acabou => c.fase = "erro" /\ c.banco_falhou
        /\ c.tarefas => c.mapeadas > 0
        /\ c.fase = "concluir" => c.mapeadas = 0

LEMMA AvancaPassa ==
    ASSUME IInv, NEW r \in Execucoes, NEW c \in Registros,
           Vai(r, c), Avanca(r, c), UNCHANGED <<cancel_event, banco, quedas>>,
           c.ligadas <= 1,
           c.fase \in {"transcrever", "mapear", "resumir"} \/ ~cancel_event => c.ligadas = 0
    PROVE  IInv'
  <1>1. Segue(r, c)
    BY DEF Segue, Avanca, Fase, SemBlocos
  <1>2. Escreve(r) /\ banco'[execucao[r].sessao].status = banco[execucao[r].sessao].status
    BY NaoEscreve DEF IInv
  <1>3. IInvDe(r)
    BY DEF IInv
  <1>4. /\ TypeOK' /\ Donos'
        /\ \A q \in Execucoes \ {r} : IInvDe(q)'
        /\ execucao'[r] = c
        /\ Segmentos(r)' = Segmentos(r)
        /\ Meus(r)' = Meus(r)
        /\ Guardados(r)' = Guardados(r)
        /\ Sozinha(r)' => Sozinha(r)
    BY <1>1, <1>2, SoAExecucao
  <1>5. LacoDe(r)'
    BY <1>3, <1>4 DEF IInvDe, LacoDe, Avanca, SemBlocos, NoLaco, Adiante
  <1>6. SalvosDe(r)'
    BY <1>3, <1>4 DEF IInvDe, SalvosDe, Avanca, Acabou
  <1>7. ColheitaDe(r)'
    BY <1>3, <1>4 DEF IInvDe, ColheitaDe, DesfechoDe, Avanca, Acabou
  <1>8. DesfechoDe(r)'
    <2>1. c.gravou \notin {"done", "failed"}
      BY <1>3 DEF IInvDe, DesfechoDe, Avanca
    <2>2. c.fase \in Acabou => c.fase = "erro" /\ c.banco_falhou
      BY DEF Avanca
    <2>3. c.fase # "nenhuma"
      BY <1>1 DEF Segue
    <2> QED
      BY <1>4, <2>1, <2>2, <2>3 DEF DesfechoDe, Acabou
  <1>9. StatusDe(r)'
    BY <1>2, <1>3, <1>4 DEF IInvDe, StatusDe, Avanca
  <1>10. ParadaDe(r)'
    BY <1>1, <1>3, <1>4 DEF IInvDe, ParadaDe, Segue
  <1> QED
    BY <1>4, <1>5, <1>6, <1>7, <1>8, <1>9, <1>10 DEF IInv, IInvDe

-----------------------------------------------------------------------------
(* The steps that write nothing.                                           *)

\* The record of a run, with its types one by one.
LEMMA RegistroTipo ==
    ASSUME TypeOK, NEW r \in Execucoes
    PROVE  LET e == execucao[r]
           IN  /\ e \in Registros
               /\ e.fase \in Fases /\ e.sessao \in Sessoes /\ e.total \in 0..MaxBlocos
               /\ e.textos \in Seq(BOOLEAN) /\ e.partes \in Seq(BOOLEAN)
               /\ e.mapeadas \in Nat /\ e.resumos \in Nat /\ e.tarefas \in BOOLEAN
               /\ e.transcritos \in Nat /\ e.ligadas \in Nat /\ e.banco_falhou \in BOOLEAN
               /\ e.gravou \in {"nada", "processing", "done", "failed"}
               /\ e.aviso \in {"nenhum", "done", "error"}
  BY DEF TypeOK, Registros

\* The run goes to another phase and keeps everything else.
LEMMA ParaPassa ==
    ASSUME IInv, NEW r \in Execucoes,
           NEW f \in {"falhar", "transcrever", "concluir", "reduzir"},
           Para(r, f), UNCHANGED <<cancel_event, banco, quedas>>,
           execucao[r].fase \notin {"nenhuma", "gravar"} \cup Acabou,
           f = "transcrever" => /\ execucao[r].fase \in NoLaco /\ ~cancel_event
                                /\ execucao[r].transcritos < execucao[r].total,
           f \in {"concluir", "reduzir"} =>
               /\ execucao[r].fase \in NoLaco \cup Adiante
               /\ execucao[r].transcritos = execucao[r].total,
           f = "concluir" => execucao[r].mapeadas = 0
    PROVE  IInv'
  <1> DEFINE c == [execucao[r] EXCEPT !.fase = f]
  <1>1. /\ c \in Registros /\ c.fase = f
        /\ c.sessao = execucao[r].sessao /\ c.total = execucao[r].total
        /\ c.transcritos = execucao[r].transcritos /\ c.gravou = execucao[r].gravou
        /\ c.mapeadas = execucao[r].mapeadas /\ c.ligadas = execucao[r].ligadas
        /\ c.banco_falhou <=> execucao[r].banco_falhou
        /\ c.tarefas <=> execucao[r].tarefas
    <2>1. execucao[r] \in Registros /\ f \in Fases
      BY RegistroTipo DEF IInv, Fases
    <2>2. c \in Registros
      BY <2>1 DEF Registros
    <2> QED
      BY <2>1, <2>2 DEF Registros
  <1> HIDE DEF c
  <1>2. ColheitaDe(r) /\ ParadaDe(r)
    BY DEF IInv, IInvDe
  <1>3. Avanca(r, c)
    BY <1>1, <1>2 DEF Avanca, ColheitaDe, NoLaco, Adiante, SemBlocos, Acabou
  <1>4. Vai(r, c)
    BY DEF Para, c
  <1>5. /\ c.ligadas <= 1
        /\ c.fase \in {"transcrever", "mapear", "resumir"} \/ ~cancel_event => c.ligadas = 0
    BY <1>1, <1>2 DEF ParadaDe, Acabou
  <1> QED
    BY <1>1, <1>3, <1>4, <1>5, AvancaPassa

\* The database raises, for whatever the run meant to write.
LEMMA BancoFalhaPassa ==
    ASSUME IInv, NEW r \in Execucoes, NEW f \in {"erro", "falhar"}, BancoFalha(r, f),
           execucao[r].fase \notin {"nenhuma"} \cup Acabou
    PROVE  IInv'
  <1> DEFINE c == [execucao[r] EXCEPT !.fase = f, !.banco_falhou = TRUE]
  <1>1. /\ c \in Registros /\ c.fase = f
        /\ c.sessao = execucao[r].sessao /\ c.total = execucao[r].total
        /\ c.transcritos = execucao[r].transcritos /\ c.gravou = execucao[r].gravou
        /\ c.mapeadas = execucao[r].mapeadas /\ c.ligadas = execucao[r].ligadas
        /\ c.banco_falhou
        /\ c.tarefas <=> execucao[r].tarefas
    <2>1. execucao[r] \in Registros /\ f \in Fases
      BY RegistroTipo DEF IInv, Fases
    <2>2. c \in Registros
      BY <2>1 DEF Registros
    <2> QED
      BY <2>1, <2>2 DEF Registros
  <1> HIDE DEF c
  <1>2. ColheitaDe(r) /\ ParadaDe(r)
    BY DEF IInv, IInvDe
  <1>3. Avanca(r, c)
    BY <1>1, <1>2 DEF Avanca, ColheitaDe, NoLaco, Adiante, SemBlocos, Acabou
  <1>4. Vai(r, c) /\ UNCHANGED <<cancel_event, banco, quedas>>
    BY DEF BancoFalha, c
  <1>5. /\ c.ligadas <= 1
        /\ c.fase \in {"transcrever", "mapear", "resumir"} \/ ~cancel_event => c.ligadas = 0
    BY <1>1, <1>2 DEF ParadaDe, Acabou
  <1> QED
    BY <1>1, <1>3, <1>4, <1>5, AvancaPassa

\* What a cut of the segments gives is a sequence.
LEMMA PartesTipo ==
    ASSUME NEW textos \in Seq(BOOLEAN), textos # <<>>, NEW p \in Partes(textos)
    PROVE  p \in Seq(BOOLEAN)
  <1> DEFINE n == Len(textos)
  <1>1. n \in Nat /\ n >= 1
    BY EmptySeq, LenProperties
  <1> HIDE DEF n
  <1>2. PICK q \in [1..n -> 1..n] :
           p = [k \in 1..q[n] |-> \E i \in 1..n : q[i] = k /\ textos[i]]
    BY DEF Partes, n
  <1>3. q[n] \in Nat
    BY <1>1, <1>2
  <1>4. \A k \in 1..q[n] : p[k] \in BOOLEAN
    BY <1>2
  <1> QED
    BY <1>2, <1>3, <1>4, IsASeq

LEMMA PassaBloco ==
    ASSUME IInv, NEW r \in Execucoes, Bloco(r)
    PROVE  IInv'
  <1> DEFINE e == execucao[r]
  <1>1. /\ UNCHANGED <<cancel_event, banco, quedas>>
        /\ e.fase = "bloco"
        /\ e.mapeadas = 0
    BY DEF Bloco, Fase, IInv, IInvDe, ColheitaDe, NoLaco
  <1>2. CASE e.transcritos < e.total /\ cancel_event /\ Para(r, AoCancelar)
    BY <1>1, <1>2, ParaPassa DEF AoCancelar, Acabou
  <1>3. CASE e.transcritos < e.total /\ ~cancel_event /\ Para(r, "transcrever")
    BY <1>1, <1>3, ParaPassa DEF Acabou, NoLaco
  <1>4. CASE e.transcritos = e.total /\ Para(r, "concluir")
    BY <1>1, <1>4, ParaPassa DEF Acabou, NoLaco
  <1>5. ASSUME e.transcritos = e.total, e.textos # <<>>, NEW p \in Partes(e.textos),
               Vai(r, [e EXCEPT !.fase = "parte", !.partes = p, !.textos = <<>>])
        PROVE  IInv'
    <2> DEFINE c == [e EXCEPT !.fase = "parte", !.partes = p, !.textos = <<>>]
    <2>1. p \in Seq(BOOLEAN) /\ <<>> \in Seq(BOOLEAN)
      BY <1>5, PartesTipo, RegistroTipo, EmptySeq DEF IInv
    <2>2. /\ c \in Registros /\ c.fase = "parte"
          /\ c.sessao = e.sessao /\ c.total = e.total
          /\ c.transcritos = e.transcritos /\ c.gravou = e.gravou
          /\ c.mapeadas = e.mapeadas /\ c.ligadas = e.ligadas
          /\ c.banco_falhou <=> e.banco_falhou
          /\ c.tarefas <=> e.tarefas
      <3>1. execucao[r] \in Registros /\ "parte" \in Fases
        BY RegistroTipo DEF IInv, Fases
      <3>2. c \in Registros
        BY <2>1, <3>1 DEF Registros
      <3> QED
        BY <3>1, <3>2 DEF Registros
    <2>3. Vai(r, c)
      BY <1>5
    <2> HIDE DEF c
    <2>4. ColheitaDe(r) /\ ParadaDe(r)
      BY DEF IInv, IInvDe
    <2>5. Avanca(r, c)
      BY <1>1, <1>5, <2>2, <2>4 DEF Avanca, ColheitaDe, NoLaco, Adiante, SemBlocos, Acabou
    <2>6. /\ c.ligadas <= 1
          /\ c.fase \in {"transcrever", "mapear", "resumir"} \/ ~cancel_event => c.ligadas = 0
      BY <1>1, <2>2, <2>4 DEF ParadaDe
    <2> QED
      BY <1>1, <2>2, <2>3, <2>5, <2>6, AvancaPassa
  <1> QED
    BY <1>2, <1>3, <1>4, <1>5 DEF Bloco

\* A call begun with the event off is at most the first to return with it on.
LEMMA RetornoConta ==
    ASSUME IInv, NEW r \in Execucoes,
           execucao[r].fase \in {"transcrever", "mapear", "resumir"}
    PROVE  /\ Retorno(r) \in Registros
           /\ Retorno(r).ligadas <= 1
           /\ ~cancel_event => Retorno(r).ligadas = 0
           /\ Retorno(r) = [execucao[r] EXCEPT !.ligadas = Retorno(r).ligadas]
  <1> DEFINE e == execucao[r]
             n == IF cancel_event THEN e.ligadas + 1 ELSE 0
  <1>1. e \in Registros /\ e.ligadas = 0
    BY RegistroTipo DEF IInv, IInvDe, ParadaDe
  <1>2. n \in Nat /\ n <= 1 /\ (~cancel_event => n = 0)
    BY <1>1
  <1>3. Retorno(r) = [e EXCEPT !.ligadas = n]
    BY DEF Retorno
  <1> HIDE DEF e, n
  <1>4. [e EXCEPT !.ligadas = n] \in Registros /\ [e EXCEPT !.ligadas = n].ligadas = n
    BY <1>1, <1>2 DEF Registros
  <1> QED
    BY <1>2, <1>3, <1>4 DEF e

LEMMA PassaParte ==
    ASSUME IInv, NEW r \in Execucoes, Parte(r)
    PROVE  IInv'
  <1> DEFINE e == execucao[r]
  <1>1. /\ UNCHANGED <<cancel_event, banco, quedas>>
        /\ e.fase = "parte"
        /\ e.transcritos = e.total
    BY DEF Parte, Fase, IInv, IInvDe, LacoDe, Adiante
  <1>2. CASE e.partes # <<>> /\ cancel_event /\ Para(r, AoCancelar)
    BY <1>1, <1>2, ParaPassa DEF AoCancelar, Acabou
  <1>3. CASE e.partes = <<>> /\ Para(r, IF e.mapeadas = 0 THEN "concluir" ELSE "reduzir")
    BY <1>1, <1>3, ParaPassa DEF Acabou, Adiante
  <1>4. ASSUME e.partes # <<>>, ~cancel_event, NEW f \in {"mapear", "parte"},
               Vai(r, [e EXCEPT !.fase = f, !.partes = Tail(e.partes)])
        PROVE  IInv'
    <2> DEFINE c == [e EXCEPT !.fase = f, !.partes = Tail(e.partes)]
    <2>1. Tail(e.partes) \in Seq(BOOLEAN)
      BY <1>4, RegistroTipo, HeadTailProperties DEF IInv
    <2>2. /\ c \in Registros /\ c.fase = f
          /\ c.sessao = e.sessao /\ c.total = e.total
          /\ c.transcritos = e.transcritos /\ c.gravou = e.gravou
          /\ c.mapeadas = e.mapeadas /\ c.ligadas = e.ligadas
          /\ c.banco_falhou <=> e.banco_falhou
          /\ c.tarefas <=> e.tarefas
      <3>1. execucao[r] \in Registros /\ f \in Fases
        BY RegistroTipo DEF IInv, Fases
      <3>2. c \in Registros
        BY <2>1, <3>1 DEF Registros
      <3> QED
        BY <3>1, <3>2 DEF Registros
    <2>3. Vai(r, c)
      BY <1>4
    <2> HIDE DEF c
    <2>4. ColheitaDe(r) /\ ParadaDe(r)
      BY DEF IInv, IInvDe
    <2>5. Avanca(r, c)
      BY <1>1, <1>4, <2>2, <2>4 DEF Avanca, ColheitaDe, NoLaco, Adiante, SemBlocos, Acabou
    <2>6. /\ c.ligadas <= 1
          /\ c.fase \in {"transcrever", "mapear", "resumir"} \/ ~cancel_event => c.ligadas = 0
      BY <1>1, <1>4, <2>2, <2>4 DEF ParadaDe
    <2> QED
      BY <1>1, <2>2, <2>3, <2>5, <2>6, AvancaPassa
  <1>5. ASSUME e.partes # <<>>, Vai(r, [e EXCEPT !.partes = Tail(e.partes)])
        PROVE  Vai(r, [e EXCEPT !.fase = "parte", !.partes = Tail(e.partes)])
    <2>1. [e EXCEPT !.partes = Tail(e.partes)]
            = [e EXCEPT !.fase = "parte", !.partes = Tail(e.partes)]
      BY <1>1, RegistroTipo DEF IInv, Registros
    <2> QED
      BY <1>5, <2>1
  <1> QED
    BY <1>2, <1>3, <1>4, <1>5 DEF Parte

LEMMA PassaMapear ==
    ASSUME IInv, NEW r \in Execucoes, Mapear(r)
    PROVE  IInv'
  <1> DEFINE e == execucao[r]
  <1>1. /\ UNCHANGED <<cancel_event, banco, quedas>>
        /\ e.fase = "mapear"
        /\ e.transcritos = e.total
    BY DEF Mapear, Fase, IInv, IInvDe, LacoDe, Adiante
  <1>2. CASE Para(r, "falhar")
    BY <1>1, <1>2, ParaPassa DEF Acabou
  <1>3. ASSUME NEW resumo \in BOOLEAN, NEW tarefa \in BOOLEAN,
               Vai(r, [Retorno(r) EXCEPT
                         !.fase = "parte", !.mapeadas = @ + 1,
                         !.resumos = IF resumo THEN @ + 1 ELSE @,
                         !.tarefas = @ \/ tarefa])
        PROVE  IInv'
    <2> DEFINE d == Retorno(r)
               c == [d EXCEPT !.fase = "parte", !.mapeadas = d.mapeadas + 1,
                              !.resumos = IF resumo THEN d.resumos + 1 ELSE d.resumos,
                              !.tarefas = d.tarefas \/ tarefa]
    <2>1. /\ d \in Registros
          /\ d.sessao = e.sessao /\ d.total = e.total
          /\ d.transcritos = e.transcritos /\ d.gravou = e.gravou
          /\ d.mapeadas = e.mapeadas
          /\ d.banco_falhou <=> e.banco_falhou
      BY <1>1, RetornoConta, RegistroTipo DEF IInv, Registros
    <2>2. d.ligadas <= 1 /\ (~cancel_event => d.ligadas = 0)
      BY <1>1, RetornoConta
    <2>3. Vai(r, c)
      BY <1>3
    <2> HIDE DEF d
    <2>4. /\ c \in Registros /\ c.fase = "parte"
          /\ c.sessao = e.sessao /\ c.total = e.total
          /\ c.transcritos = e.transcritos /\ c.gravou = e.gravou
          /\ c.mapeadas = e.mapeadas + 1 /\ c.ligadas = d.ligadas
          /\ c.banco_falhou <=> e.banco_falhou
      <3>1. /\ d.mapeadas + 1 \in Nat
            /\ (IF resumo THEN d.resumos + 1 ELSE d.resumos) \in Nat
            /\ (d.tarefas \/ tarefa) \in BOOLEAN
            /\ "parte" \in Fases
        BY <2>1 DEF Registros, Fases
      <3>2. c \in Registros
        BY <2>1, <3>1 DEF Registros
      <3> QED
        BY <2>1, <3>2 DEF Registros
    <2> HIDE DEF c
    <2>5. ColheitaDe(r)
      BY DEF IInv, IInvDe
    <2>6. e.mapeadas \in Nat
      BY RegistroTipo DEF IInv
    <2>7. Avanca(r, c)
      BY <1>1, <2>4, <2>5, <2>6 DEF Avanca, ColheitaDe, NoLaco, Adiante, SemBlocos, Acabou
    <2> QED
      BY <1>1, <2>2, <2>3, <2>4, <2>7, AvancaPassa
  <1> QED
    BY <1>2, <1>3 DEF Mapear

LEMMA PassaReduzir ==
    ASSUME IInv, NEW r \in Execucoes, Reduzir(r)
    PROVE  IInv'
  <1> DEFINE e == execucao[r]
  <1>1. /\ UNCHANGED <<cancel_event, banco, quedas>>
        /\ e.fase = "reduzir"
        /\ e.transcritos = e.total
    BY DEF Reduzir, Fase, IInv, IInvDe, LacoDe, Adiante
  <1>2. CASE Para(r, AoCancelar)
    BY <1>1, <1>2, ParaPassa DEF AoCancelar, Acabou
  <1>3. ASSUME NEW f \in {"artefatos", "resumir"}, f = "resumir" => ~cancel_event,
               Vai(r, [e EXCEPT !.fase = f, !.resumos = 0])
        PROVE  IInv'
    <2> DEFINE c == [e EXCEPT !.fase = f, !.resumos = 0]
    <2>1. /\ c \in Registros /\ c.fase = f
          /\ c.sessao = e.sessao /\ c.total = e.total
          /\ c.transcritos = e.transcritos /\ c.gravou = e.gravou
          /\ c.mapeadas = e.mapeadas /\ c.ligadas = e.ligadas
          /\ c.banco_falhou <=> e.banco_falhou
          /\ c.tarefas <=> e.tarefas
      <3>1. execucao[r] \in Registros /\ f \in Fases
        BY RegistroTipo DEF IInv, Fases
      <3>2. c \in Registros
        BY <3>1 DEF Registros
      <3> QED
        BY <3>1, <3>2 DEF Registros
    <2>2. Vai(r, c)
      BY <1>3
    <2> HIDE DEF c
    <2>3. ColheitaDe(r) /\ ParadaDe(r)
      BY DEF IInv, IInvDe
    <2>4. Avanca(r, c)
      BY <1>1, <1>3, <2>1, <2>3 DEF Avanca, ColheitaDe, NoLaco, Adiante, SemBlocos, Acabou
    <2>5. /\ c.ligadas <= 1
          /\ c.fase \in {"transcrever", "mapear", "resumir"} \/ ~cancel_event => c.ligadas = 0
      BY <1>1, <1>3, <2>1, <2>3 DEF ParadaDe
    <2> QED
      BY <1>1, <2>1, <2>2, <2>4, <2>5, AvancaPassa
  <1> QED
    BY <1>2, <1>3 DEF Reduzir, Checar

LEMMA PassaResumir ==
    ASSUME IInv, NEW r \in Execucoes, Resumir(r)
    PROVE  IInv'
  <1> DEFINE e == execucao[r]
  <1>1. /\ UNCHANGED <<cancel_event, banco, quedas>>
        /\ e.fase = "resumir"
        /\ e.transcritos = e.total
    BY DEF Resumir, Fase, IInv, IInvDe, LacoDe, Adiante
  <1>2. CASE Para(r, "falhar")
    BY <1>1, <1>2, ParaPassa DEF Acabou
  <1>3. CASE Vai(r, [Retorno(r) EXCEPT !.fase = "artefatos"])
    <2> DEFINE d == Retorno(r)
               c == [d EXCEPT !.fase = "artefatos"]
    <2>1. /\ d \in Registros
          /\ d.sessao = e.sessao /\ d.total = e.total
          /\ d.transcritos = e.transcritos /\ d.gravou = e.gravou
          /\ d.mapeadas = e.mapeadas
          /\ d.banco_falhou <=> e.banco_falhou
          /\ d.tarefas <=> e.tarefas
      BY <1>1, RetornoConta, RegistroTipo DEF IInv, Registros
    <2>2. d.ligadas <= 1 /\ (~cancel_event => d.ligadas = 0)
      BY <1>1, RetornoConta
    <2>3. Vai(r, c)
      BY <1>3
    <2> HIDE DEF d
    <2>4. /\ c \in Registros /\ c.fase = "artefatos"
          /\ c.sessao = e.sessao /\ c.total = e.total
          /\ c.transcritos = e.transcritos /\ c.gravou = e.gravou
          /\ c.mapeadas = e.mapeadas /\ c.ligadas = d.ligadas
          /\ c.banco_falhou <=> e.banco_falhou
          /\ c.tarefas <=> e.tarefas
      <3>1. "artefatos" \in Fases
        BY DEF Fases
      <3>2. c \in Registros
        BY <2>1, <3>1 DEF Registros
      <3> QED
        BY <2>1, <3>2 DEF Registros
    <2> HIDE DEF c
    <2>5. ColheitaDe(r)
      BY DEF IInv, IInvDe
    <2>6. Avanca(r, c)
      BY <1>1, <2>4, <2>5 DEF Avanca, ColheitaDe, NoLaco, Adiante, SemBlocos, Acabou
    <2> QED
      BY <1>1, <2>2, <2>3, <2>4, <2>6, AvancaPassa
  <1> QED
    BY <1>2, <1>3 DEF Resumir

LEMMA PassaTranscrever ==
    ASSUME IInv, NEW r \in Execucoes, Transcrever(r)
    PROVE  IInv'
  <1> DEFINE e == execucao[r]
  <1>1. /\ UNCHANGED <<cancel_event, banco, quedas>>
        /\ e.fase = "transcrever"
        /\ e.transcritos < e.total
        /\ Guardados(r) = 1..e.transcritos
    BY DEF Transcrever, Fase, IInv, IInvDe, LacoDe, NoLaco
  <1>2. CASE Para(r, "falhar")
    BY <1>1, <1>2, ParaPassa DEF Acabou
  <1>3. CASE Vai(r, [Retorno(r) EXCEPT !.fase = "gravar", !.transcritos = @ + 1])
    <2> DEFINE d == Retorno(r)
               c == [d EXCEPT !.fase = "gravar", !.transcritos = d.transcritos + 1]
    <2>1. /\ d \in Registros
          /\ d.sessao = e.sessao /\ d.total = e.total
          /\ d.transcritos = e.transcritos /\ d.gravou = e.gravou
          /\ d.mapeadas = e.mapeadas
          /\ d.banco_falhou <=> e.banco_falhou
          /\ d.tarefas <=> e.tarefas
      BY <1>1, RetornoConta, RegistroTipo DEF IInv, Registros
    <2>2. d.ligadas <= 1 /\ (~cancel_event => d.ligadas = 0)
      BY <1>1, RetornoConta
    <2>3. Vai(r, c)
      BY <1>3
    <2> HIDE DEF d
    <2>4. /\ c \in Registros /\ c.fase = "gravar"
          /\ c.sessao = e.sessao /\ c.total = e.total
          /\ c.transcritos = e.transcritos + 1 /\ c.gravou = e.gravou
          /\ c.mapeadas = e.mapeadas /\ c.ligadas = d.ligadas
          /\ c.banco_falhou <=> e.banco_falhou
          /\ c.tarefas <=> e.tarefas
      <3>1. "gravar" \in Fases /\ d.transcritos + 1 \in Nat
        BY <2>1 DEF Fases, Registros
      <3>2. c \in Registros
        BY <2>1, <3>1 DEF Registros
      <3> QED
        BY <2>1, <3>2 DEF Registros
    <2> HIDE DEF c
    <2>5. IInvDe(r) /\ TypeOK
      BY DEF IInv
    <2>6. e.transcritos \in Nat /\ e.total \in Nat
      BY <2>5, RegistroTipo
    <2>7. Segue(r, c)
      BY <1>1, <2>4 DEF Segue, SemBlocos, Fase
    <2>8. Escreve(r) /\ banco'[execucao[r].sessao].status = banco[execucao[r].sessao].status
      BY <1>1, <2>5, NaoEscreve
    <2>9. /\ TypeOK' /\ Donos'
          /\ \A q \in Execucoes \ {r} : IInvDe(q)'
          /\ execucao'[r] = c
          /\ Segmentos(r)' = Segmentos(r)
          /\ Meus(r)' = Meus(r)
          /\ Guardados(r)' = Guardados(r)
          /\ Sozinha(r)' => Sozinha(r)
      BY <1>1, <2>3, <2>4, <2>7, <2>8, SoAExecucao
    <2>10. LacoDe(r)'
      <3>1. (e.transcritos + 1) - 1 = e.transcritos
        BY <2>6
      <3> QED
        BY <1>1, <2>4, <2>6, <2>9, <3>1 DEF LacoDe, SemBlocos, NoLaco, Adiante
    <2>11. SalvosDe(r)'
      <3>1. (e.transcritos + 1) - 1 = e.transcritos
        BY <2>6
      <3>2. \A j, k \in Meus(r)' : j < k => Segmentos(r)'[j].bloco < Segmentos(r)'[k].bloco
        BY <2>5, <2>9 DEF IInvDe, SalvosDe
      <3> QED
        BY <1>1, <2>4, <2>9, <3>1, <3>2 DEF SalvosDe
    <2>12. ColheitaDe(r)'
      BY <1>1, <2>4, <2>5, <2>9 DEF IInvDe, ColheitaDe, DesfechoDe, NoLaco, Acabou
    <2>13. DesfechoDe(r)'
      BY <1>1, <2>4, <2>5, <2>9 DEF IInvDe, DesfechoDe, Acabou
    <2>14. StatusDe(r)'
      BY <2>4, <2>5, <2>8, <2>9 DEF IInvDe, StatusDe
    <2>15. ParadaDe(r)'
      BY <1>1, <2>2, <2>4, <2>9 DEF ParadaDe
    <2> QED
      BY <2>9, <2>10, <2>11, <2>12, <2>13, <2>14, <2>15 DEF IInv, IInvDe
  <1> QED
    BY <1>2, <1>3 DEF Transcrever

LEMMA PassaAvisar ==
    ASSUME IInv, NEW r \in Execucoes, Avisar(r)
    PROVE  IInv'
  <1> DEFINE e == execucao[r]
             c == [e EXCEPT !.fase = "fim", !.aviso = Aviso(e.fase)]
  <1>1. /\ UNCHANGED <<cancel_event, banco, quedas>>
        /\ e.fase \in {"pronta", "falhou", "erro"}
        /\ Vai(r, c)
    BY DEF Avisar
  <1>2. /\ c \in Registros /\ c.fase = "fim"
        /\ c.aviso = Aviso(e.fase)
        /\ c.sessao = e.sessao /\ c.total = e.total
        /\ c.transcritos = e.transcritos /\ c.gravou = e.gravou
        /\ c.mapeadas = e.mapeadas /\ c.ligadas = e.ligadas
        /\ c.banco_falhou <=> e.banco_falhou
        /\ c.tarefas <=> e.tarefas
    <2>1. execucao[r] \in Registros /\ "fim" \in Fases
      BY RegistroTipo DEF IInv, Fases
    <2>2. Aviso(e.fase) \in {"done", "error"}
      BY DEF Aviso
    <2>3. c \in Registros
      BY <2>1, <2>2 DEF Registros
    <2> QED
      BY <2>1, <2>3 DEF Registros
  <1> HIDE DEF c
  <1>3. IInvDe(r) /\ TypeOK
    BY DEF IInv
  <1>4. Segue(r, c)
    BY <1>1, <1>2 DEF Segue, SemBlocos, Fase
  <1>5. Escreve(r) /\ banco'[execucao[r].sessao].status = banco[execucao[r].sessao].status
    BY <1>1, <1>3, NaoEscreve
  <1>6. /\ TypeOK' /\ Donos'
        /\ \A q \in Execucoes \ {r} : IInvDe(q)'
        /\ execucao'[r] = c
        /\ Segmentos(r)' = Segmentos(r)
        /\ Meus(r)' = Meus(r)
        /\ Guardados(r)' = Guardados(r)
        /\ Sozinha(r)' => Sozinha(r)
    BY <1>1, <1>2, <1>4, <1>5, SoAExecucao
  <1>7. LacoDe(r)'
    BY <1>2, <1>3, <1>6 DEF IInvDe, LacoDe, SemBlocos, NoLaco, Adiante
  <1>8. SalvosDe(r)'
    BY <1>1, <1>2, <1>3, <1>6 DEF IInvDe, SalvosDe
  <1>9. ColheitaDe(r)'
    BY <1>1, <1>2, <1>3, <1>6 DEF IInvDe, ColheitaDe, SemBlocos, NoLaco
  <1>10. DesfechoDe(r)'
    BY <1>1, <1>2, <1>3, <1>6 DEF IInvDe, DesfechoDe, Acabou, Aviso
  <1>11. StatusDe(r)'
    BY <1>2, <1>3, <1>5, <1>6 DEF IInvDe, StatusDe
  <1>12. ParadaDe(r)'
    BY <1>2, <1>3, <1>6 DEF IInvDe, ParadaDe
  <1> QED
    BY <1>6, <1>7, <1>8, <1>9, <1>10, <1>11, <1>12 DEF IInv, IInvDe

-----------------------------------------------------------------------------
(* The steps that write to the database.                                   *)

LEMMA ArmazenarPassa ==
    ASSUME IInv, NEW r \in Execucoes, NEW st, NEW f,
           Armazenar(r, st, f),
           \/ execucao[r].fase = "marcar" /\ st = "processing" /\ f = "bloco"
           \/ execucao[r].fase = "concluir" /\ st = "done" /\ f = "pronta"
           \/ execucao[r].fase = "falhar" /\ st = "failed" /\ f = "falhou"
    PROVE  IInv'
  <1> DEFINE e == execucao[r]
             c == [e EXCEPT !.fase = f, !.gravou = st]
  <1>1. /\ UNCHANGED <<cancel_event, quedas>>
        /\ banco' = [banco EXCEPT ![e.sessao].status = st]
        /\ Vai(r, c)
    BY DEF Armazenar
  <1>2. /\ c \in Registros /\ c.fase = f
        /\ c.gravou = st
        /\ c.sessao = e.sessao /\ c.total = e.total
        /\ c.transcritos = e.transcritos
        /\ c.mapeadas = e.mapeadas /\ c.ligadas = e.ligadas
        /\ c.banco_falhou <=> e.banco_falhou
        /\ c.tarefas <=> e.tarefas
    <2>1. /\ execucao[r] \in Registros /\ f \in Fases
          /\ st \in {"nada", "processing", "done", "failed"}
      BY RegistroTipo DEF IInv, Fases
    <2>2. c \in Registros
      BY <2>1 DEF Registros
    <2> QED
      BY <2>1, <2>2 DEF Registros
  <1> HIDE DEF c
  <1>3. IInvDe(r) /\ TypeOK
    BY DEF IInv
  <1>4. Segue(r, c)
    BY <1>2 DEF Segue, SemBlocos, Fase
  <1>5. Escreve(r) /\ banco'[e.sessao].status = st
        /\ banco'[e.sessao].artefatos = banco[e.sessao].artefatos
        /\ banco'[e.sessao].todos = banco[e.sessao].todos
    <2>1. /\ e.sessao \in Sessoes /\ banco \in [Sessoes -> Linhas]
          /\ st \in {"recording", "processing", "done", "failed"}
      BY <1>3, RegistroTipo DEF TypeOK
    <2>2. banco[e.sessao] \in Linhas
      BY <2>1
    <2>3. banco' = [banco EXCEPT ![e.sessao] = [banco[e.sessao] EXCEPT !.status = st]]
      BY <1>1
    <2>4. [banco[e.sessao] EXCEPT !.status = st] \in Linhas
      BY <2>1, <2>2 DEF Linhas
    <2>5. banco' \in [Sessoes -> Linhas]
      BY <2>1, <2>3, <2>4
    <2>6. /\ banco'[e.sessao].segmentos = banco[e.sessao].segmentos
          /\ banco'[e.sessao].artefatos = banco[e.sessao].artefatos
          /\ banco'[e.sessao].todos = banco[e.sessao].todos
          /\ banco'[e.sessao].status = st
      BY <2>1, <2>2, <2>3 DEF Linhas
    <2>7. \A t \in Sessoes \ {e.sessao} : banco'[t] = banco[t]
      BY <2>1, <2>3
    <2> QED
      BY <2>5, <2>6, <2>7 DEF Escreve
  <1>6. /\ TypeOK' /\ Donos'
        /\ \A q \in Execucoes \ {r} : IInvDe(q)'
        /\ execucao'[r] = c
        /\ Segmentos(r)' = Segmentos(r)
        /\ Meus(r)' = Meus(r)
        /\ Guardados(r)' = Guardados(r)
        /\ Sozinha(r)' => Sozinha(r)
    BY <1>1, <1>2, <1>4, <1>5, SoAExecucao
  <1>7. LacoDe(r)'
    <2>1. e.fase = "marcar" => e.transcritos = 0 /\ Guardados(r) = 1..0
      BY <1>3 DEF IInvDe, LacoDe, SalvosDe, SemBlocos
    <2> QED
      BY <1>2, <1>3, <1>6, <2>1 DEF IInvDe, LacoDe, SemBlocos, NoLaco, Adiante
  <1>8. SalvosDe(r)'
    BY <1>2, <1>3, <1>6 DEF IInvDe, SalvosDe
  <1>9. ColheitaDe(r)'
    BY <1>2, <1>3, <1>5, <1>6 DEF IInvDe, ColheitaDe, SemBlocos, NoLaco
  <1>10. DesfechoDe(r)'
    BY <1>2, <1>3, <1>6 DEF IInvDe, DesfechoDe, LacoDe, Adiante, Acabou
  <1>11. StatusDe(r)'
    BY <1>2, <1>5, <1>6 DEF StatusDe
  <1>12. ParadaDe(r)'
    BY <1>2, <1>3, <1>6, <1>1 DEF IInvDe, ParadaDe
  <1> QED
    BY <1>6, <1>7, <1>8, <1>9, <1>10, <1>11, <1>12 DEF IInv, IInvDe

LEMMA PassaMarcar ==
    ASSUME IInv, NEW r \in Execucoes, Marcar(r)
    PROVE  IInv'
  BY ArmazenarPassa, BancoFalhaPassa DEF Marcar, Fase, Acabou

LEMMA PassaConcluir ==
    ASSUME IInv, NEW r \in Execucoes, Concluir(r)
    PROVE  IInv'
  BY ArmazenarPassa, BancoFalhaPassa DEF Concluir, Fase, Acabou

LEMMA PassaFalhar ==
    ASSUME IInv, NEW r \in Execucoes, Falhar(r)
    PROVE  IInv'
  BY ArmazenarPassa, BancoFalhaPassa DEF Falhar, Fase, Acabou

\* Artifacts and tasks are rows of their own; the run goes on to f.
LEMMA ColherPassa ==
    ASSUME IInv, NEW r \in Execucoes,
           NEW A \in SUBSET Execucoes, NEW T \in SUBSET Execucoes, NEW f,
           banco' = [banco EXCEPT ![execucao[r].sessao] =
                        [banco[execucao[r].sessao] EXCEPT !.artefatos = A, !.todos = T]],
           banco[execucao[r].sessao].artefatos \subseteq A,
           banco[execucao[r].sessao].todos \subseteq T,
           Para(r, f), UNCHANGED <<cancel_event, quedas>>,
           r \in A,
           \/ execucao[r].fase = "artefatos" /\ f = "todos"
           \/ execucao[r].fase = "todos" /\ f = "concluir" /\ (execucao[r].tarefas => r \in T)
    PROVE  IInv'
  <1> DEFINE e == execucao[r]
             c == [e EXCEPT !.fase = f]
  <1>1. Vai(r, c)
    BY DEF Para
  <1>2. /\ c \in Registros /\ c.fase = f
        /\ c.gravou = e.gravou
        /\ c.sessao = e.sessao /\ c.total = e.total
        /\ c.transcritos = e.transcritos
        /\ c.mapeadas = e.mapeadas /\ c.ligadas = e.ligadas
        /\ c.banco_falhou <=> e.banco_falhou
        /\ c.tarefas <=> e.tarefas
    <2>1. execucao[r] \in Registros /\ f \in Fases
      BY RegistroTipo DEF IInv, Fases
    <2>2. c \in Registros
      BY <2>1 DEF Registros
    <2> QED
      BY <2>1, <2>2 DEF Registros
  <1> HIDE DEF c
  <1>3. IInvDe(r) /\ TypeOK
    BY DEF IInv
  <1>4. Segue(r, c)
    BY <1>2 DEF Segue, SemBlocos, Fase
  <1>5. /\ Escreve(r)
        /\ banco'[e.sessao].status = banco[e.sessao].status
        /\ banco'[e.sessao].artefatos = A /\ banco'[e.sessao].todos = T
    <2>1. /\ e.sessao \in Sessoes /\ banco \in [Sessoes -> Linhas]
          /\ banco[e.sessao] \in Linhas
      BY <1>3, RegistroTipo DEF TypeOK
    <2> DEFINE b == [banco[e.sessao] EXCEPT !.artefatos = A, !.todos = T]
    <2>2. /\ b \in Linhas
          /\ b.segmentos = banco[e.sessao].segmentos /\ b.status = banco[e.sessao].status
          /\ b.artefatos = A /\ b.todos = T
      BY <2>1 DEF Linhas
    <2>3. banco' = [banco EXCEPT ![e.sessao] = b]
      OBVIOUS
    <2> HIDE DEF b
    <2>4. banco' \in [Sessoes -> Linhas] /\ banco'[e.sessao] = b
      BY <2>1, <2>2, <2>3
    <2>5. \A t \in Sessoes \ {e.sessao} : banco'[t] = banco[t]
      BY <2>1, <2>3
    <2> QED
      BY <2>2, <2>4, <2>5 DEF Escreve
  <1>6. /\ TypeOK' /\ Donos'
        /\ \A q \in Execucoes \ {r} : IInvDe(q)'
        /\ execucao'[r] = c
        /\ Segmentos(r)' = Segmentos(r)
        /\ Meus(r)' = Meus(r)
        /\ Guardados(r)' = Guardados(r)
        /\ Sozinha(r)' => Sozinha(r)
    BY <1>1, <1>2, <1>4, <1>5, SoAExecucao
  <1>7. LacoDe(r)'
    BY <1>2, <1>3, <1>6 DEF IInvDe, LacoDe, SemBlocos, NoLaco, Adiante
  <1>8. SalvosDe(r)'
    BY <1>2, <1>3, <1>6 DEF IInvDe, SalvosDe
  <1>9. ColheitaDe(r)'
    BY <1>2, <1>3, <1>5, <1>6 DEF IInvDe, ColheitaDe, DesfechoDe, SemBlocos, NoLaco, Acabou
  <1>10. DesfechoDe(r)'
    BY <1>2, <1>3, <1>6 DEF IInvDe, DesfechoDe, Acabou
  <1>11. StatusDe(r)'
    BY <1>2, <1>3, <1>5, <1>6 DEF IInvDe, StatusDe
  <1>12. ParadaDe(r)'
    BY <1>2, <1>3, <1>6 DEF IInvDe, ParadaDe
  <1> QED
    BY <1>6, <1>7, <1>8, <1>9, <1>10, <1>11, <1>12 DEF IInv, IInvDe

LEMMA PassaArtefatos ==
    ASSUME IInv, NEW r \in Execucoes, Artefatos(r)
    PROVE  IInv'
  <1> DEFINE s == execucao[r].sessao
  <1>1. CASE BancoFalha(r, "falhar")
    BY <1>1, BancoFalhaPassa DEF Artefatos, Fase, Acabou
  <1>2. CASE /\ banco' = [banco EXCEPT ![s].artefatos = @ \cup {r}]
             /\ Para(r, "todos")
             /\ UNCHANGED <<cancel_event, quedas>>
    <2>1. banco[s] \in Linhas
      BY RegistroTipo DEF IInv, TypeOK
    <2>2. /\ banco[s].artefatos \cup {r} \in SUBSET Execucoes
          /\ banco[s].todos \in SUBSET Execucoes
      BY <2>1 DEF Linhas
    <2>3. [banco[s] EXCEPT !.artefatos = banco[s].artefatos \cup {r}]
            = [banco[s] EXCEPT !.artefatos = banco[s].artefatos \cup {r},
                               !.todos = banco[s].todos]
      BY <2>1 DEF Linhas
    <2>4. banco' = [banco EXCEPT ![s] =
                       [banco[s] EXCEPT !.artefatos = banco[s].artefatos \cup {r},
                                        !.todos = banco[s].todos]]
      BY <1>2, <2>3
    <2> QED
      BY <1>2, <2>2, <2>4, ColherPassa DEF Artefatos, Fase
  <1> QED
    BY <1>1, <1>2 DEF Artefatos

LEMMA PassaTodos ==
    ASSUME IInv, NEW r \in Execucoes, Todos(r)
    PROVE  IInv'
  <1> DEFINE e == execucao[r]
             s == e.sessao
             T == IF e.tarefas THEN banco[s].todos \cup {r} ELSE banco[s].todos
  <1>1. CASE BancoFalha(r, "falhar")
    BY <1>1, BancoFalhaPassa DEF Todos, Fase, Acabou
  <1>2. CASE /\ banco' = [banco EXCEPT ![s].todos = IF e.tarefas THEN @ \cup {r} ELSE @]
             /\ Para(r, "concluir")
             /\ UNCHANGED <<cancel_event, quedas>>
    <2>1. banco[s] \in Linhas
      BY RegistroTipo DEF IInv, TypeOK
    <2>2. /\ banco[s].artefatos \in SUBSET Execucoes
          /\ T \in SUBSET Execucoes /\ banco[s].todos \subseteq T
          /\ e.tarefas => r \in T
      BY <2>1 DEF Linhas
    <2>3. [banco[s] EXCEPT !.todos = T]
            = [banco[s] EXCEPT !.artefatos = banco[s].artefatos, !.todos = T]
      BY <2>1 DEF Linhas
    <2>4. banco' = [banco EXCEPT ![s] =
                       [banco[s] EXCEPT !.artefatos = banco[s].artefatos, !.todos = T]]
      BY <1>2, <2>3
    <2>5. e.fase = "todos" /\ r \in banco[s].artefatos
      BY DEF Todos, Fase, IInv, IInvDe, ColheitaDe
    <2> HIDE DEF T
    <2> QED
      BY <1>2, <2>2, <2>4, <2>5, ColherPassa
  <1> QED
    BY <1>1, <1>2 DEF Todos

\* One segment more at the end of a sequence.
LEMMA MaisUm ==
    ASSUME NEW T, NEW S \in Seq(T), NEW g \in T, NEW U, U = S \o <<g>>
    PROVE  /\ U \in Seq(T)
           /\ Len(S) \in Nat
           /\ DOMAIN S = 1..Len(S)
           /\ DOMAIN U = 1..(Len(S) + 1)
           /\ \A k \in DOMAIN S : U[k] = S[k]
           /\ U[Len(S) + 1] = g
  <1>1. U = Append(S, g)
    BY AppendIsConcat
  <1> QED
    BY <1>1, AppendProperties, LenProperties

LEMMA PassaGravar ==
    ASSUME IInv, NEW r \in Execucoes, Gravar(r)
    PROVE  IInv'
  <1> DEFINE e == execucao[r]
             s == e.sessao
             S == banco[s].segmentos
             U == banco'[s].segmentos
             g == [execucao |-> r, bloco |-> e.transcritos]
  <1>1. CASE BancoFalha(r, "falhar")
    BY <1>1, BancoFalhaPassa DEF Gravar, Fase, Acabou
  <1>2. ASSUME banco' = [banco EXCEPT ![s].segmentos = @ \o Salvos(r)],
               NEW texto \in BOOLEAN,
               Vai(r, [e EXCEPT !.fase = "bloco", !.textos = Append(e.textos, texto)]),
               UNCHANGED <<cancel_event, quedas>>
        PROVE  IInv'
    <2> DEFINE c == [e EXCEPT !.fase = "bloco", !.textos = Append(e.textos, texto)]
    <2>1. IInvDe(r) /\ TypeOK
      BY DEF IInv
    <2>2. /\ e \in Registros /\ s \in Sessoes /\ e.transcritos \in Nat
          /\ Append(e.textos, texto) \in Seq(BOOLEAN)
      BY <2>1, RegistroTipo, AppendProperties
    <2>3. /\ c \in Registros /\ c.fase = "bloco"
          /\ c.gravou = e.gravou
          /\ c.sessao = e.sessao /\ c.total = e.total
          /\ c.transcritos = e.transcritos
          /\ c.mapeadas = e.mapeadas /\ c.ligadas = e.ligadas
          /\ c.banco_falhou <=> e.banco_falhou
          /\ c.tarefas <=> e.tarefas
      <3>1. "bloco" \in Fases
        BY DEF Fases
      <3>2. c \in Registros
        BY <2>2, <3>1 DEF Registros
      <3> QED
        BY <2>2, <3>2 DEF Registros
    <2>4. /\ execucao' \in [Execucoes -> Registros]
          /\ execucao'[r] = c
          /\ \A q \in Execucoes \ {r} : execucao'[q] = execucao[q]
      <3>1. Vai(r, c)
        BY <1>2
      <3> HIDE DEF c
      <3> QED
        BY <2>1, <2>3, <3>1, VaiMuda DEF TypeOK
    <2> HIDE DEF c
    <2>5. banco[s] \in Linhas /\ banco \in [Sessoes -> Linhas]
      BY <2>1, <2>2 DEF TypeOK
    <2>6. S \in Seq([execucao : Execucoes, bloco : Nat])
      BY <2>5 DEF Linhas
    <2>7. /\ g \in [execucao : Execucoes, bloco : Nat]
          /\ g.execucao = r /\ g.bloco = e.transcritos
      BY <2>2
    <2>8. banco' = [banco EXCEPT ![s] = [banco[s] EXCEPT !.segmentos = S \o <<g>>]]
      BY <1>2 DEF Salvos
    <2>9. /\ U = S \o <<g>>
          /\ banco'[s].status = banco[s].status
          /\ banco'[s].artefatos = banco[s].artefatos
          /\ banco'[s].todos = banco[s].todos
          /\ \A t \in Sessoes \ {s} : banco'[t] = banco[t]
      BY <2>2, <2>5, <2>8 DEF Linhas
    <2> DEFINE n == Len(S)
               T == [execucao : Execucoes, bloco : Nat]
    <2> HIDE DEF S, U, g, T
    <2>10. /\ U \in Seq(T)
           /\ n \in Nat
           /\ DOMAIN S = 1..n
           /\ DOMAIN U = 1..(n + 1)
           /\ \A k \in DOMAIN S : U[k] = S[k]
           /\ U[n + 1] = g
      <3>1. S \in Seq(T) /\ g \in T /\ U = S \o <<g>>
        BY <2>6, <2>7, <2>9 DEF T
      <3> QED
        BY <3>1, MaisUm
    <2> HIDE DEF n
    <2>11. banco' \in [Sessoes -> Linhas]
      <3>1. S \o <<g>> \in Seq([execucao : Execucoes, bloco : Nat])
        BY <2>9, <2>10 DEF T
      <3>2. [banco[s] EXCEPT !.segmentos = S \o <<g>>] \in Linhas
        BY <2>5, <3>1 DEF Linhas
      <3> QED
        BY <2>2, <2>5, <2>8, <3>2
    <2>12. TypeOK'
      BY <1>2, <2>1, <2>4, <2>11 DEF TypeOK
    <2>13. e.fase = "gravar" /\ e.transcritos >= 1 /\ Guardados(r) = 1..(e.transcritos - 1)
      BY <2>1 DEF Gravar, Fase, IInvDe, LacoDe
    <2>14. Donos'
      <3> SUFFICES ASSUME NEW t \in Sessoes, NEW k \in DOMAIN banco'[t].segmentos
                   PROVE  execucao'[banco'[t].segmentos[k].execucao].fase \notin SemBlocos
        BY DEF Donos
      <3>1. execucao'[r].fase \notin SemBlocos
        BY <2>3, <2>4 DEF SemBlocos
      <3>2. \A d \in Execucoes : execucao[d].fase \notin SemBlocos
                                  => execucao'[d].fase \notin SemBlocos
        BY <2>4, <3>1
      <3>3. ASSUME k \in DOMAIN banco[t].segmentos,
                   banco'[t].segmentos[k] = banco[t].segmentos[k]
            PROVE  execucao'[banco'[t].segmentos[k].execucao].fase \notin SemBlocos
        <4>1. banco[t].segmentos[k].execucao \in Execucoes
          BY <2>1, <3>3, DonoDoSegmento
        <4>2. execucao[banco[t].segmentos[k].execucao].fase \notin SemBlocos
          BY <3>3 DEF IInv, Donos
        <4> QED
          BY <3>2, <3>3, <4>1, <4>2
      <3>4. CASE t # s
        BY <2>9, <3>3, <3>4
      <3>5. CASE t = s /\ k \in DOMAIN S
        BY <2>10, <3>3, <3>5 DEF S, U
      <3>6. CASE t = s /\ k = n + 1
        <4>1. banco'[t].segmentos[k] = g
          BY <2>10, <3>6 DEF U
        <4> QED
          BY <2>7, <3>1, <4>1
      <3>7. t = s => k \in DOMAIN S \/ k = n + 1
        <4>1. t = s => k \in 1..(n + 1)
          BY <2>10 DEF U
        <4> QED
          BY <2>10, <4>1
      <3> QED
        BY <3>4, <3>5, <3>6, <3>7
    <2>15. /\ \A p \in Execucoes : execucao'[p].sessao = execucao[p].sessao
           /\ \A p \in Execucoes : Fase(p, "nenhuma")' => Fase(p, "nenhuma")
           /\ ~Fase(r, "nenhuma")'
      BY <2>3, <2>4 DEF Fase
    <2>16. ASSUME NEW q \in Execucoes \ {r}
           PROVE  IInvDe(q)'
      <3>1. execucao[q].sessao \in Sessoes
        BY <2>1, RegistroTipo
      <3>2. /\ \A k \in Meus(q) : Segmentos(q)'[k] = Segmentos(q)[k]
            /\ Meus(q)' = Meus(q)
            /\ Guardados(q)' = Guardados(q)
        <4>1. CASE execucao[q].sessao # s
          <5>1. banco'[execucao[q].sessao].segmentos = banco[execucao[q].sessao].segmentos
            BY <2>9, <3>1, <4>1
          <5> QED
            BY <2>15, <5>1, MesmosSegmentos
        <4>2. CASE execucao[q].sessao = s
          <5>1. Segmentos(q) = S /\ Segmentos(q)' = U
            BY <2>15, <4>2 DEF Segmentos, S, U
          <5>2. Meus(q) = {k \in DOMAIN S : S[k].execucao = q}
            BY <5>1 DEF Meus
          <5>3. Meus(q)' = {k \in DOMAIN U : U[k].execucao = q}
            BY <5>1 DEF Meus
          <5>4. U[n + 1].execucao # q
            BY <2>7, <2>10
          <5>5. Meus(q)' = Meus(q)
            <6>1. \A k \in DOMAIN U : k \in DOMAIN S \/ k = n + 1
              BY <2>10
            <6>2. DOMAIN S \subseteq DOMAIN U
              BY <2>10
            <6> QED
              BY <2>10, <5>2, <5>3, <5>4, <6>1, <6>2
          <5>6. \A k \in Meus(q) : U[k] = S[k]
            BY <2>10, <5>2
          <5>7. Guardados(q) = {S[k].bloco : k \in Meus(q)}
            BY <5>1 DEF Guardados
          <5>8. Guardados(q)' = {U[k].bloco : k \in Meus(q)}
            BY <5>1, <5>5 DEF Guardados
          <5> QED
            BY <5>1, <5>5, <5>6, <5>7, <5>8
        <4> QED
          BY <4>1, <4>2
      <3>3. /\ banco'[execucao[q].sessao].status = banco[execucao[q].sessao].status
            /\ banco[execucao[q].sessao].artefatos \subseteq banco'[execucao[q].sessao].artefatos
            /\ banco[execucao[q].sessao].todos \subseteq banco'[execucao[q].sessao].todos
        BY <2>9, <3>1
      <3>4. IInvDe(q)
        BY DEF IInv
      <3> QED
        BY <1>2, <2>1, <2>4, <2>12, <2>15, <3>2, <3>3, <3>4, OutraFica
    <2>17. /\ Segmentos(r) = S /\ Segmentos(r)' = U
           /\ Meus(r) \subseteq DOMAIN S
           /\ Meus(r)' = Meus(r) \cup {n + 1}
           /\ Guardados(r)' = 1..e.transcritos
      <3>1. Segmentos(r) = S /\ Segmentos(r)' = U
        BY <2>15 DEF Segmentos, S, U
      <3>2. Meus(r) = {k \in DOMAIN S : S[k].execucao = r}
        BY <3>1 DEF Meus
      <3>3. Meus(r)' = {k \in DOMAIN U : U[k].execucao = r}
        BY <3>1 DEF Meus
      <3>4. U[n + 1].execucao = r /\ U[n + 1].bloco = e.transcritos
        BY <2>7, <2>10
      <3>5. Meus(r)' = Meus(r) \cup {n + 1}
        <4>1. \A k \in DOMAIN U : k \in DOMAIN S \/ k = n + 1
          BY <2>10
        <4>2. DOMAIN S \subseteq DOMAIN U /\ n + 1 \in DOMAIN U
          BY <2>10
        <4> QED
          BY <2>10, <3>2, <3>3, <3>4, <4>1, <4>2
      <3>6. Guardados(r) = {S[k].bloco : k \in Meus(r)}
        BY <3>1 DEF Guardados
      <3>7. Guardados(r)' = {U[k].bloco : k \in Meus(r)'}
        BY <3>1 DEF Guardados
      <3>8. \A k \in Meus(r) : U[k] = S[k]
        BY <2>10, <3>2
      <3>9. Guardados(r)' = Guardados(r) \cup {e.transcritos}
        BY <3>4, <3>5, <3>6, <3>7, <3>8
      <3>10. 1..(e.transcritos - 1) \cup {e.transcritos} = 1..e.transcritos
        BY <2>2, <2>13
      <3> QED
        BY <2>13, <3>1, <3>2, <3>5, <3>9, <3>10
    <2>18. LacoDe(r)'
      BY <2>1, <2>3, <2>4, <2>17 DEF IInvDe, LacoDe, SemBlocos, NoLaco, Adiante
    <2>19. SalvosDe(r)'
      <3>1. ASSUME NEW j \in Meus(r)', NEW k \in Meus(r)', j < k
            PROVE  U[j].bloco < U[k].bloco
        <4>1. j \in Meus(r)
          BY <2>10, <2>17, <3>1
        <4>2. CASE k \in Meus(r)
          <5>1. S[j].bloco < S[k].bloco
            BY <2>1, <2>17, <3>1, <4>1, <4>2 DEF IInvDe, SalvosDe
          <5> QED
            BY <2>10, <2>17, <4>1, <4>2, <5>1
        <4>3. CASE k = n + 1
          <5>1. S[j].bloco \in Guardados(r)
            BY <2>17, <4>1 DEF Guardados
          <5>2. S[j].bloco < e.transcritos
            BY <2>2, <2>13, <5>1
          <5>3. U[j] = S[j] /\ U[k].bloco = e.transcritos
            BY <2>7, <2>10, <2>17, <4>1, <4>3
          <5> QED
            BY <5>2, <5>3
        <4> QED
          BY <2>17, <4>2, <4>3
      <3> QED
        BY <2>3, <2>4, <2>17, <3>1 DEF SalvosDe
    <2>20. ColheitaDe(r)'
      BY <2>1, <2>3, <2>4, <2>13 DEF IInvDe, ColheitaDe, DesfechoDe, SemBlocos, NoLaco, Acabou
    <2>21. DesfechoDe(r)'
      BY <2>1, <2>3, <2>4, <2>13 DEF IInvDe, DesfechoDe, Acabou
    <2>22. StatusDe(r)'
      <3>1. Sozinha(r)' => Sozinha(r)
        BY <2>15 DEF Sozinha
      <3> QED
        BY <2>1, <2>3, <2>4, <2>9, <3>1 DEF IInvDe, StatusDe
    <2>23. ParadaDe(r)'
      BY <1>2, <2>1, <2>3, <2>4, <2>13 DEF IInvDe, ParadaDe
    <2> QED
      BY <2>12, <2>14, <2>16, <2>18, <2>19, <2>20, <2>21, <2>22, <2>23 DEF IInv, IInvDe
  <1> QED
    BY <1>1, <1>2 DEF Gravar

-----------------------------------------------------------------------------
(* The steps that are not of one run alone.                                *)

\* No row is written; of any run at most its phase and its count change.
LEMMA TodasPassam ==
    ASSUME IInv, TypeOK', UNCHANGED banco,
           \A q \in Execucoes :
               LET e == execucao[q]
                   c == execucao'[q]
               IN  /\ c.sessao = e.sessao /\ c.total = e.total
                   /\ c.transcritos = e.transcritos
                   /\ c.mapeadas = e.mapeadas /\ c.tarefas = e.tarefas
                   /\ c.banco_falhou = e.banco_falhou
                   /\ c.gravou = e.gravou /\ c.aviso = e.aviso
                   /\ \/ c.fase = e.fase
                      \/ c.fase = "marcar" /\ e.fase = "limpar"
                      \/ c.fase = "morta" /\ e.fase \notin {"nenhuma", "limpar", "fim"}
                      \/ c.fase = "morta" /\ e.fase = "limpar",
           \A q \in Execucoes : ParadaDe(q)'
    PROVE  IInv'
  <1>1. Donos'
    <2> SUFFICES ASSUME NEW s \in Sessoes, NEW k \in DOMAIN banco[s].segmentos
                 PROVE  execucao'[banco[s].segmentos[k].execucao].fase \notin SemBlocos
      BY DEF Donos
    <2>1. banco[s].segmentos[k].execucao \in Execucoes
      BY DonoDoSegmento DEF IInv
    <2>2. execucao[banco[s].segmentos[k].execucao].fase \notin SemBlocos
      BY DEF IInv, Donos
    <2> QED
      BY <2>1, <2>2 DEF SemBlocos
  <1>2. ASSUME NEW q \in Execucoes
        PROVE  IInvDe(q)'
    <2>1. IInvDe(q)
      BY DEF IInv
    <2>2. /\ Segmentos(q)' = Segmentos(q)
          /\ Meus(q)' = Meus(q)
          /\ Guardados(q)' = Guardados(q)
      BY MesmosSegmentos
    <2>3. /\ execucao'[q].sessao = execucao[q].sessao
          /\ execucao'[q].total = execucao[q].total
          /\ execucao'[q].transcritos = execucao[q].transcritos
          /\ execucao'[q].mapeadas = execucao[q].mapeadas
          /\ execucao'[q].tarefas = execucao[q].tarefas
          /\ execucao'[q].banco_falhou = execucao[q].banco_falhou
          /\ execucao'[q].gravou = execucao[q].gravou
          /\ execucao'[q].aviso = execucao[q].aviso
      OBVIOUS
    <2>4. \/ execucao'[q].fase = execucao[q].fase
          \/ execucao'[q].fase = "marcar" /\ execucao[q].fase = "limpar"
          \/ execucao'[q].fase = "morta" /\ execucao[q].fase \notin {"nenhuma", "fim"}
      OBVIOUS
    <2>5. LacoDe(q)'
      BY <2>1, <2>2, <2>3, <2>4 DEF IInvDe, LacoDe, SemBlocos, NoLaco, Adiante
    <2>6. SalvosDe(q)'
      BY <2>1, <2>2, <2>3, <2>4 DEF IInvDe, SalvosDe
    <2>7. ColheitaDe(q)'
      BY <2>1, <2>3, <2>4 DEF IInvDe, ColheitaDe, SemBlocos, NoLaco
    <2>8. DesfechoDe(q)'
      BY <2>1, <2>2, <2>3, <2>4 DEF IInvDe, DesfechoDe, Acabou
    <2>9. StatusDe(q)'
      <3>1. \A p \in Execucoes : /\ execucao'[p].sessao = execucao[p].sessao
                                 /\ Fase(p, "nenhuma")' => Fase(p, "nenhuma")
        BY DEF Fase
      <3>2. Sozinha(q)' => Sozinha(q)
        BY <3>1 DEF Sozinha
      <3> QED
        BY <2>1, <2>3, <3>2 DEF IInvDe, StatusDe
    <2> QED
      BY <2>5, <2>6, <2>7, <2>8, <2>9 DEF IInvDe
  <1> QED
    BY <1>1, <1>2 DEF IInv

LEMMA PassaCancel ==
    ASSUME IInv, Cancel
    PROVE  IInv'
  <1>1. TypeOK'
    BY DEF IInv, TypeOK, Cancel
  <1>2. \A q \in Execucoes : ParadaDe(q)'
    BY DEF IInv, IInvDe, ParadaDe, Cancel
  <1> QED
    BY <1>1, <1>2, TodasPassam DEF Cancel

LEMMA PassaLimpar ==
    ASSUME IInv, NEW r \in Execucoes, Limpar(r)
    PROVE  IInv'
  <1>1. ASSUME NEW q \in Execucoes
        PROVE  LET e == execucao[q]
                   c == execucao'[q]
               IN  /\ c \in Registros
                   /\ c.sessao = e.sessao /\ c.total = e.total
                   /\ c.transcritos = e.transcritos
                   /\ c.mapeadas = e.mapeadas /\ c.tarefas = e.tarefas
                   /\ c.banco_falhou = e.banco_falhou
                   /\ c.gravou = e.gravou /\ c.aviso = e.aviso
                   /\ c.fase = e.fase \/ (c.fase = "marcar" /\ e.fase = "limpar")
                   /\ c.ligadas = 0
    <2>1. execucao[q] \in Registros /\ "marcar" \in Fases
      BY RegistroTipo DEF IInv, Fases
    <2>2. CASE q = r
      <3>1. execucao'[q] = [execucao[q] EXCEPT !.fase = "marcar", !.ligadas = 0]
        BY <2>2 DEF Limpar
      <3>2. [execucao[q] EXCEPT !.fase = "marcar", !.ligadas = 0] \in Registros
        BY <2>1 DEF Registros
      <3>3. execucao[q].fase = "limpar"
        BY <2>2 DEF Limpar, Fase
      <3> QED
        BY <2>1, <3>1, <3>2, <3>3 DEF Registros
    <2>3. CASE q # r
      <3>1. execucao'[q] = [execucao[q] EXCEPT !.ligadas = 0]
        BY <2>3 DEF Limpar
      <3>2. [execucao[q] EXCEPT !.ligadas = 0] \in Registros
        BY <2>1 DEF Registros
      <3> QED
        BY <2>1, <3>1, <3>2 DEF Registros
    <2> QED
      BY <2>2, <2>3
  <1>2. TypeOK'
    <2>1. execucao' \in [Execucoes -> Registros]
      <3>1. /\ DOMAIN execucao' = Execucoes
            /\ execucao' = [q \in Execucoes |-> execucao'[q]]
        BY DEF Limpar
      <3> QED
        BY <1>1, <3>1
    <2> QED
      BY <2>1 DEF IInv, TypeOK, Limpar
  <1>3. \A q \in Execucoes : ParadaDe(q)'
    BY <1>1 DEF ParadaDe
  <1> QED
    BY <1>1, <1>2, <1>3, TodasPassam DEF Limpar

LEMMA PassaCair ==
    ASSUME IInv, Cair
    PROVE  IInv'
  <1>1. ASSUME NEW q \in Execucoes
        PROVE  LET e == execucao[q]
                   c == execucao'[q]
               IN  /\ c \in Registros
                   /\ c.sessao = e.sessao /\ c.total = e.total
                   /\ c.transcritos = e.transcritos
                   /\ c.mapeadas = e.mapeadas /\ c.tarefas = e.tarefas
                   /\ c.banco_falhou = e.banco_falhou
                   /\ c.gravou = e.gravou /\ c.aviso = e.aviso
                   /\ c.ligadas = e.ligadas
                   /\ \/ c.fase = e.fase /\ e.fase \in {"nenhuma", "fim"}
                      \/ c.fase = "morta" /\ e.fase \notin {"nenhuma", "fim"}
    <2>1. execucao[q] \in Registros /\ "morta" \in Fases
      BY RegistroTipo DEF IInv, Fases
    <2>2. CASE execucao[q].fase \in {"nenhuma", "fim"}
      BY <2>1, <2>2 DEF Cair
    <2>3. CASE execucao[q].fase \notin {"nenhuma", "fim"}
      <3>1. execucao'[q] = [execucao[q] EXCEPT !.fase = "morta"]
        BY <2>3 DEF Cair
      <3>2. execucao'[q] \in Registros
        BY <2>1, <3>1 DEF Registros
      <3> QED
        BY <2>1, <2>3, <3>1, <3>2 DEF Registros
    <2> QED
      BY <2>2, <2>3
  <1>2. TypeOK'
    <2>1. execucao' \in [Execucoes -> Registros]
      <3>1. /\ DOMAIN execucao' = Execucoes
            /\ execucao' = [q \in Execucoes |-> execucao'[q]]
        BY DEF Cair
      <3> QED
        BY <1>1, <3>1
    <2>2. quedas' \in 0..MaxQuedas
      BY ProcessorAssumption DEF IInv, TypeOK, Cair
    <2> QED
      BY <2>1, <2>2 DEF IInv, TypeOK, Cair
  <1>3. ASSUME NEW q \in Execucoes
        PROVE  ParadaDe(q)'
    <2>1. IInvDe(q)
      BY DEF IInv
    <2>2. execucao[q].fase = "nenhuma" => execucao[q].ligadas = 0
      BY <2>1 DEF IInvDe, ParadaDe
    <2> QED
      BY <1>1, <2>1, <2>2 DEF IInvDe, ParadaDe
  <1> QED
    BY <1>1, <1>2, <1>3, TodasPassam DEF Cair

LEMMA NaoCriadaTipo ==
    /\ NaoCriada \in Registros
    /\ NaoCriada.fase = "nenhuma" /\ NaoCriada.transcritos = 0
    /\ NaoCriada.mapeadas = 0 /\ NaoCriada.tarefas = FALSE
    /\ NaoCriada.ligadas = 0 /\ NaoCriada.banco_falhou = FALSE
    /\ NaoCriada.gravou = "nada" /\ NaoCriada.aviso = "nenhum"
    /\ NaoCriada.total = 0
  <1>1. (CHOOSE s \in Sessoes : TRUE) \in Sessoes
    BY ProcessorAssumption
  <1>2. /\ <<>> \in Seq(BOOLEAN)
        /\ 0 \in 0..MaxBlocos
    BY EmptySeq, ProcessorAssumption
  <1>3. NaoCriada \in Registros
    BY <1>1, <1>2 DEF NaoCriada, Registros, Fases
  <1> QED
    BY <1>3 DEF NaoCriada

\* A run nobody has started has no segment.
LEMMA SemSegmentos ==
    ASSUME NEW r, Donos, execucao[r].fase \in SemBlocos,
           NEW s \in Sessoes, NEW k \in DOMAIN banco[s].segmentos
    PROVE  banco[s].segmentos[k].execucao # r
  BY DEF Donos

LEMMA PassaProcessAsync ==
    ASSUME IInv, NEW r \in Execucoes, NEW s \in Sessoes, NEW n \in 0..MaxBlocos,
           ProcessAsync(r, s, n)
    PROVE  IInv'
  <1> DEFINE c == [NaoCriada EXCEPT !.fase = "limpar", !.sessao = s, !.total = n]
  <1>1. /\ UNCHANGED <<cancel_event, banco, quedas>>
        /\ execucao[r].fase = "nenhuma"
        /\ Vai(r, c)
    BY DEF ProcessAsync, Fase
  <1>2. /\ c \in Registros /\ c.fase = "limpar" /\ c.sessao = s /\ c.total = n
        /\ c.transcritos = 0 /\ c.mapeadas = 0 /\ ~c.tarefas
        /\ c.ligadas = 0 /\ ~c.banco_falhou /\ c.gravou = "nada"
    <2>1. "limpar" \in Fases
      BY DEF Fases
    <2>2. c \in Registros
      BY <2>1, NaoCriadaTipo DEF Registros
    <2> QED
      BY <2>2, NaoCriadaTipo DEF Registros
  <1> HIDE DEF c
  <1>3. /\ execucao' \in [Execucoes -> Registros]
        /\ execucao'[r] = c
        /\ \A q \in Execucoes \ {r} : execucao'[q] = execucao[q]
    BY <1>1, <1>2, VaiMuda DEF IInv, TypeOK
  <1>4. TypeOK' /\ TypeOK
    BY <1>1, <1>3 DEF IInv, TypeOK
  <1>5. Donos'
    <2> SUFFICES ASSUME NEW t \in Sessoes, NEW k \in DOMAIN banco[t].segmentos
                 PROVE  execucao'[banco[t].segmentos[k].execucao].fase \notin SemBlocos
      BY <1>1 DEF Donos
    <2> DEFINE d == banco[t].segmentos[k].execucao
    <2>1. d \in Execucoes
      BY <1>4, DonoDoSegmento
    <2>2. execucao[d].fase \notin SemBlocos
      BY DEF IInv, Donos
    <2>3. d # r
      BY <1>1, <2>2 DEF SemBlocos
    <2> QED
      BY <1>3, <2>1, <2>2, <2>3
  <1>6. /\ \A p \in Execucoes : Fase(p, "nenhuma") \/ execucao'[p].sessao = execucao[p].sessao
        /\ \A p \in Execucoes : Fase(p, "nenhuma")' => Fase(p, "nenhuma")
        /\ ~Fase(r, "nenhuma")'
    BY <1>1, <1>2, <1>3 DEF Fase
  <1>7. ASSUME NEW q \in Execucoes \ {r}
        PROVE  IInvDe(q)'
    <2>1. /\ Segmentos(q)' = Segmentos(q)
          /\ Meus(q)' = Meus(q)
          /\ Guardados(q)' = Guardados(q)
      BY <1>1, <1>3, MesmosSegmentos
    <2>2. IInvDe(q)
      BY DEF IInv
    <2> QED
      BY <1>1, <1>3, <1>4, <1>6, <2>1, <2>2, OutraFica
  <1>8. Meus(r)' = {} /\ Guardados(r)' = {}
    <2>1. Segmentos(r)' = banco[s].segmentos
      BY <1>1, <1>2, <1>3 DEF Segmentos
    <2>2. \A k \in DOMAIN banco[s].segmentos : banco[s].segmentos[k].execucao # r
      BY <1>1, SemSegmentos DEF IInv, SemBlocos
    <2>3. Meus(r)' = {}
      BY <2>1, <2>2 DEF Meus
    <2> QED
      BY <2>3 DEF Guardados
  <1>9. n \in Nat /\ 1..0 = {}
    BY ProcessorAssumption
  <1>10. LacoDe(r)'
    BY <1>2, <1>3, <1>9 DEF LacoDe, SemBlocos, NoLaco, Adiante
  <1>11. SalvosDe(r)'
    BY <1>2, <1>3, <1>8, <1>9 DEF SalvosDe
  <1>12. ColheitaDe(r)'
    BY <1>2, <1>3 DEF ColheitaDe
  <1>13. DesfechoDe(r)'
    BY <1>2, <1>3 DEF DesfechoDe, Acabou
  <1>14. StatusDe(r)'
    BY <1>2, <1>3 DEF StatusDe
  <1>15. ParadaDe(r)'
    BY <1>2, <1>3 DEF ParadaDe
  <1> QED
    BY <1>4, <1>5, <1>7, <1>10, <1>11, <1>12, <1>13, <1>14, <1>15 DEF IInv, IInvDe

-----------------------------------------------------------------------------
(* The theorems.                                                           *)

LEMMA InitIInv == Init => IInv
  <1> SUFFICES ASSUME Init
               PROVE  IInv
    OBVIOUS
  <1>1. TypeOK
    <2>1. execucao \in [Execucoes -> Registros]
      BY NaoCriadaTipo DEF Init
    <2>2. [status |-> "recording", segmentos |-> <<>>, artefatos |-> {}, todos |-> {}]
            \in Linhas
      BY EmptySeq DEF Linhas
    <2>3. banco \in [Sessoes -> Linhas]
      BY <2>2 DEF Init
    <2>4. cancel_event \in BOOLEAN
      BY DEF Init
    <2>5. quedas \in 0..MaxQuedas
      <3>1. quedas = 0
        BY DEF Init
      <3>2. MaxQuedas \in Nat
        BY ProcessorAssumption
      <3> QED
        BY <3>1, <3>2
    <2> QED
      BY <2>1, <2>3, <2>4, <2>5 DEF TypeOK
  <1>2. \A s \in Sessoes : DOMAIN banco[s].segmentos = {}
    <2>1. \A s \in Sessoes : banco[s].segmentos = <<>>
      BY DEF Init
    <2>2. DOMAIN <<>> = {}
      BY EmptySeq
    <2> QED
      BY <2>1, <2>2
  <1>3. Donos
    BY <1>2 DEF Donos
  <1>4. ASSUME NEW r \in Execucoes
        PROVE  IInvDe(r)
    <2>1. execucao[r] = NaoCriada
      BY DEF Init
    <2>2. Meus(r) = {} /\ Guardados(r) = {}
      <3>1. execucao[r].sessao \in Sessoes
        BY <1>1, RegistroTipo
      <3>2. Meus(r) = {}
        BY <1>2, <3>1 DEF Meus, Segmentos
      <3> QED
        BY <3>2 DEF Guardados
    <2>3. 1..0 = {}
      OBVIOUS
    <2>4. LacoDe(r)
      BY <2>1, NaoCriadaTipo DEF LacoDe, SemBlocos, NoLaco, Adiante
    <2>5. SalvosDe(r)
      BY <2>1, <2>2, <2>3, NaoCriadaTipo DEF SalvosDe
    <2>6. ColheitaDe(r)
      BY <2>1, NaoCriadaTipo DEF ColheitaDe
    <2>7. DesfechoDe(r)
      BY <2>1, NaoCriadaTipo DEF DesfechoDe, Acabou
    <2>8. StatusDe(r)
      BY <2>1, NaoCriadaTipo DEF StatusDe
    <2>9. ParadaDe(r)
      BY <2>1, NaoCriadaTipo DEF ParadaDe
    <2> QED
      BY <2>4, <2>5, <2>6, <2>7, <2>8, <2>9 DEF IInvDe
  <1> QED
    BY <1>1, <1>3, <1>4 DEF IInv

LEMMA NextIInv == IInv /\ [Next]_vars => IInv'
  <1> SUFFICES ASSUME IInv, [Next]_vars
               PROVE  IInv'
    OBVIOUS
  <1>1. ASSUME NEW r \in Execucoes, NEW s \in Sessoes, NEW n \in 0..MaxBlocos,
               ProcessAsync(r, s, n)
        PROVE  IInv'
    BY <1>1, PassaProcessAsync
  <1>2. ASSUME NEW r \in Execucoes, Executar(r)
        PROVE  IInv'
    BY <1>2, PassaLimpar, PassaMarcar, PassaBloco, PassaTranscrever, PassaGravar,
       PassaParte, PassaMapear, PassaReduzir, PassaResumir, PassaArtefatos, PassaTodos,
       PassaConcluir, PassaFalhar, PassaAvisar DEF Executar
  <1>3. CASE Cancel
    BY <1>3, PassaCancel
  <1>4. CASE Cair
    BY <1>4, PassaCair
  <1>5. CASE UNCHANGED vars
    <2>1. TypeOK'
      BY <1>5 DEF vars, IInv, TypeOK
    <2>2. \A q \in Execucoes : ParadaDe(q)'
      BY <1>5 DEF vars, IInv, IInvDe, ParadaDe
    <2> QED
      BY <1>5, <2>1, <2>2, TodasPassam DEF vars
  <1> QED
    BY <1>1, <1>2, <1>3, <1>4, <1>5 DEF Next

\* The inductive invariant holds in every reachable state.
THEOREM Invariante == Spec => []IInv
  BY InitIInv, NextIInv, PTL DEF Spec

\* The state has the types the code gives it: the sequence of segments stays one,
\* and no run gets into a phase process does not have.
THEOREM TypeCorrectness == Spec => []TypeOK
  <1>1. IInv => TypeOK
    BY DEF IInv
  <1> QED
    BY <1>1, Invariante, PTL

\* What _transcrever_blocos has transcribed is in the database, each block once and
\* in order, whatever is raised, cancelled, run at the same time, or crashes.
THEOREM NothingTranscribedIsLost == Spec => []TranscricaoASalvo
  <1>1. IInv => TranscricaoASalvo
    BY DEF IInv, IInvDe, SalvosDe, TranscricaoASalvo
  <1> QED
    BY <1>1, Invariante, PTL

\* A run that stores DONE has all of its blocks, artifacts and tasks stored.
THEOREM DoneIsComplete == Spec => []DoneCompleto
  <1>1. IInv => DoneCompleto
    BY DEF IInv, IInvDe, ColheitaDe, DesfechoDe, DoneCompleto
  <1> QED
    BY <1>1, Invariante, PTL

\* After cancel at most the call that was going on returns in any run.
THEOREM CancelIsPrompt == Spec => []CancelaLogo
  <1>1. IInv => CancelaLogo
    BY DEF IInv, IInvDe, ParadaDe, CancelaLogo
  <1> QED
    BY <1>1, Invariante, PTL

\* The callback of _run agrees with what the run stored, and with the session's
\* status when no other run has taken the session up.
THEOREM TruthfulCallback == Spec => []AvisoVerdadeiro
  <1>1. ASSUME IInv, NEW r \in Execucoes, execucao[r].fase = "fim"
        PROVE  /\ execucao[r].aviso = "done" <=> execucao[r].gravou = "done"
               /\ Sozinha(r) /\ ~execucao[r].banco_falhou =>
                     banco[execucao[r].sessao].status =
                        IF execucao[r].aviso = "done" THEN "done" ELSE "failed"
    <2>1. DesfechoDe(r) /\ StatusDe(r)
      BY <1>1 DEF IInv, IInvDe
    <2> QED
      BY <1>1, <2>1 DEF DesfechoDe, StatusDe
  <1>2. IInv => AvisoVerdadeiro
    BY <1>1 DEF AvisoVerdadeiro, Sozinha
  <1> QED
    BY <1>2, Invariante, PTL
=============================================================================
