SPECIFICATION FairSpec
CONSTANTS
    Conns = {c1, c2, c3, c4}
    NoConn = NoConn
    MAX = 2
    Backlog = 3
INVARIANTS TypeOK OwnEntry VacancyCounted AcceptHasVacancy NoLostWakeup
PROPERTIES Served Implements
