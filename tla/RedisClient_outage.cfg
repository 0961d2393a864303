CONSTANTS
    t1 = t1  t2 = t2  v1 = v1  v2 = v2
    Tasks = {t1}
    Values = {v1}
    Absent = Absent
    PoolSize = 2
    CounterSize = 3
SPECIFICATION OutageSpec
PROPERTIES DegradesToDatabase
