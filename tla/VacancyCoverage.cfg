\* One vacancy, two candidates, the buttons of WhatsApp and the office.
SPECIFICATION VacancySpec
CONSTANTS
    Employee = {t, a, b}
    Titular = {t}
    Manager = {m1}
    Worker = {w1}
    MaxRequests = 1
    MaxReports = 1
    MaxOffice = 1
    Nobody = Nobody
INVARIANT OneCoverPerVacancy
CHECK_DEADLOCK FALSE
